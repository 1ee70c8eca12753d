------------------------------ MODULE ReplayEngine ------------------------------
(***************************************************************************)
(* The interactive replay of a workflow (engine.ts): its loop over the     *)
(* steps, cut where it awaits the page or a decision, and the commands     *)
(* that reach it in between: pause, resume, retry, skip, take control and  *)
(* stop.                                                                   *)
(***************************************************************************)
EXTENDS ReplaySteps

CONSTANTS
    Workflows,      \* the workflows that may be replayed
    MaxRequests     \* bound: commands of the user in a behaviour

ASSUME EngineAssumption == Workflows \subseteq Workflow /\ MaxRequests \in Nat

VARIABLES
    steps,      \* the steps of the replayed range
    bootstrap,  \* whether a page is opened first
    pc,         \* what run() awaits, or "over"
    at,         \* index of the current step
    phase,      \* phases of it that are completed: its checkpoints
    pauseRequested, stopped, failed,
    results,    \* final results emitted, one for each step decided
    shown,      \* the last replay.status emitted
    verdict,    \* how the run ended
    acted,      \* history: how often the action of each step succeeded
    asked,      \* history: a pause was asked for, and neither resumed nor stopped
    requests,
    prompt      \* whether the user has seen all that was emitted when acting

progress == <<at, phase, results, acted>>
vars == <<steps, bootstrap, pc, progress, pauseRequested, stopped, failed, shown, verdict,
          asked, requests, prompt>>

-----------------------------------------------------------------------------
TypeOK ==
    /\ steps \in Seq(Step) /\ bootstrap \in BOOLEAN /\ prompt \in BOOLEAN
    /\ pc \in {"bootstrap", "top", "boundary", "phase", "recovery", "over"}
    /\ at \in 1 .. Len(steps) + 1
    /\ phase \in 0 .. IF at <= Len(steps) THEN Len(Phases(steps[at])) ELSE 0
    /\ pauseRequested \in BOOLEAN /\ stopped \in BOOLEAN /\ failed \in BOOLEAN
    /\ results \in Seq({"passed", "skipped"})
    /\ Len(results) \in {at - 1, at}
    /\ shown \in {"running", "pausing", "paused", "manual", "completed"}
    /\ verdict \in {"open", "completed", "failed", "stopped"}
    /\ (pc = "over") = (verdict # "open")
    /\ acted \in [1 .. Len(steps) -> Nat]
    /\ asked \in BOOLEAN /\ requests \in 0 .. MaxRequests

\* startReplay hands over only what passed preflight; ids are 0 for the first.
Init ==
    /\ \E wf \in Workflows : \E id \in {0} \cup {s.id : s \in ToSet(wf.steps)} :
         /\ ~Preflight(wf, id).error
         /\ steps = Preflight(wf, id).range /\ bootstrap = Preflight(wf, id).bootstrap
    /\ pc = IF bootstrap THEN "bootstrap" ELSE "top"
    /\ at = 1 /\ phase = 0 /\ results = <<>>
    /\ pauseRequested = FALSE /\ stopped = FALSE /\ failed = FALSE
    /\ shown = "running" /\ verdict = "open"
    /\ acted = [i \in 1 .. Len(steps) |-> 0]
    /\ asked = FALSE /\ requests = 0 /\ prompt \in BOOLEAN

-----------------------------------------------------------------------------
(* run() *)

Rigid == UNCHANGED <<steps, bootstrap, requests, prompt>>
Flags == UNCHANGED <<pauseRequested, stopped, asked>>

End(result) == pc' = "over" /\ verdict' = result

\* openInitialPage and its settling: an error there ends the run.
Opened ==
    /\ pc = "bootstrap" /\ ~stopped
    /\ pc' = "top"
    /\ UNCHANGED <<progress, failed, shown, verdict>> /\ Flags /\ Rigid

OpeningFails ==
    /\ pc = "bootstrap"
    /\ End(IF stopped THEN "stopped" ELSE "failed")
    /\ UNCHANGED <<progress, failed, shown>> /\ Flags /\ Rigid

\* The head of the loop.
Decided(result) == results' = Append(results, result) /\ at' = at + 1 /\ phase' = 0

LeavesOut ==
    /\ pc = "top" /\ ~stopped /\ at <= Len(steps)
    /\ ~CarriedOut(steps, at)
    /\ Decided("skipped")
    /\ UNCHANGED <<pc, acted, failed, shown, verdict>> /\ Flags /\ Rigid

Attempt == failed' = FALSE /\ pc' = "phase" /\ shown' = "running"

Begins ==
    /\ pc = "top" /\ ~stopped /\ at <= Len(steps)
    /\ CarriedOut(steps, at)
    /\ IF pauseRequested THEN pc' = "boundary" /\ shown' = "paused" /\ UNCHANGED failed
       ELSE Attempt
    /\ UNCHANGED <<progress, verdict>> /\ Flags /\ Rigid

Ends ==
    /\ pc = "top" /\ (stopped \/ at > Len(steps))
    /\ End(IF stopped THEN "stopped" ELSE "completed")
    /\ failed' = FALSE
    /\ shown' = IF stopped THEN shown ELSE "completed"
    /\ UNCHANGED progress /\ Flags /\ Rigid

\* The awaited phase ends: the checkpoint is kept, and the step passes with the
\* last of them.
PhaseDone ==
    /\ pc = "phase" /\ ~stopped
    /\ acted' = IF phase = 0 THEN [acted EXCEPT ![at] = @ + 1] ELSE acted
    /\ IF phase + 1 = Len(Phases(steps[at]))
       THEN Decided("passed") /\ pc' = "top"
       ELSE phase' = phase + 1 /\ UNCHANGED <<at, results, pc>>
    /\ UNCHANGED <<failed, shown, verdict>> /\ Flags /\ Rigid

\* settling gives up quietly and a delay cannot fail (waits.ts).
MayFail == Phases(steps[at])[phase + 1] \in {"acting", "asserting", "condition"}

CheckpointLost(k) == 0
Checkpoint(k) == k

PhaseFails ==
    /\ pc = "phase" /\ ~stopped /\ MayFail
    /\ failed' = TRUE /\ shown' = "paused" /\ pc' = "recovery"
    /\ phase' = Checkpoint(phase)
    /\ UNCHANGED <<at, results, acted, verdict>> /\ Flags /\ Rigid

\* The controller aborts whatever phase is awaited.
PhaseCancelled ==
    /\ pc = "phase" /\ stopped
    /\ pc' = "top"
    /\ UNCHANGED <<progress, failed, shown, verdict>> /\ Flags /\ Rigid

-----------------------------------------------------------------------------
(* Commands *)

\* What the controls and the failure panel offer (ReplayControls.tsx,
\* RecorderWorkspace.tsx); a user who has not seen the latest may send anything.
\* Nothing is awaited at the top of the loop, so that no command comes there.
CurrentFailed == pc = "recovery"
Offered(command) ==
    CASE command = "pause" -> shown = "running"
      [] command = "resume" -> shown = "manual" \/ (shown = "paused" /\ ~CurrentFailed)
      [] command \in {"retry", "skip", "takeControl"} -> CurrentFailed
      [] command = "stop" -> TRUE

Requested(command) ==
    /\ pc \notin {"top", "over"} /\ requests < MaxRequests /\ requests' = requests + 1
    /\ prompt => Offered(command)
    /\ UNCHANGED <<steps, bootstrap, verdict, acted, prompt>>

Waiting == pc \in {"boundary", "recovery"}

Pause ==
    /\ Requested("pause")
    /\ IF stopped \/ failed \/ Waiting
       THEN UNCHANGED <<pauseRequested, shown, asked>>
       ELSE pauseRequested' = TRUE /\ shown' = "pausing" /\ asked' = TRUE
    /\ UNCHANGED <<pc, at, phase, results, stopped, failed>>

\* A decision wakes the loop: at a boundary the step begins, whatever it was;
\* after a failure the step is tried again.
Resume ==
    /\ Requested("resume")
    /\ pauseRequested' = FALSE /\ asked' = FALSE
    /\ IF Waiting THEN Attempt ELSE UNCHANGED <<pc, failed, shown>>
    /\ UNCHANGED <<at, phase, results, stopped>>

Retry ==
    /\ Requested("retry")
    /\ IF failed /\ Waiting THEN Attempt ELSE UNCHANGED <<pc, failed, shown>>
    /\ UNCHANGED <<at, phase, results, pauseRequested, stopped, asked>>

\* failed stays true until the next step is attempted.
AfterSkipForgetting == pauseRequested' = FALSE
AfterSkip == UNCHANGED pauseRequested

SkipAnywhere ==
    /\ Requested("skip")
    /\ IF failed /\ Waiting
       THEN Decided("skipped") /\ pc' = "top" /\ UNCHANGED <<pauseRequested, failed, shown>>
       ELSE UNCHANGED <<pc, at, phase, results, pauseRequested, failed, shown>>
    /\ UNCHANGED <<stopped, asked>>
Skip ==
    /\ Requested("skip")
    /\ CASE failed /\ pc = "recovery" ->
              Decided("skipped") /\ pc' = "top" /\ AfterSkip /\ UNCHANGED <<failed, shown>>
         [] failed /\ pc = "boundary" ->
              Attempt /\ UNCHANGED <<at, phase, results, pauseRequested>>
         [] OTHER -> UNCHANGED <<pc, at, phase, results, pauseRequested, failed, shown>>
    /\ UNCHANGED <<stopped, asked>>

TakeControl ==
    /\ Requested("takeControl")
    /\ shown' = IF failed THEN "manual" ELSE shown
    /\ UNCHANGED <<pc, at, phase, results, pauseRequested, stopped, failed, asked>>

StopUnheard ==
    /\ Requested("stop")
    /\ stopped' = TRUE /\ pauseRequested' = FALSE /\ asked' = FALSE
    /\ UNCHANGED <<pc, at, phase, results, failed, shown>>
Stop ==
    /\ Requested("stop")
    /\ stopped' = TRUE /\ pauseRequested' = FALSE /\ asked' = FALSE
    /\ pc' = IF Waiting THEN "top" ELSE pc
    /\ UNCHANGED <<at, phase, results, failed, shown>>

-----------------------------------------------------------------------------
Run == \/ Opened \/ OpeningFails \/ LeavesOut \/ Begins \/ Ends
       \/ PhaseDone \/ PhaseFails \/ PhaseCancelled

Commands == Pause \/ Resume \/ Retry \/ Skip \/ TakeControl \/ Stop

Next == Run \/ Commands

Spec == Init /\ [][Next]_vars

\* Every awaited operation ends: each has a timeout of its own (timing.ts).
FairSpec == Spec /\ WF_vars(Run)

-----------------------------------------------------------------------------
(* Properties *)

\* What succeeded is not repeated when a later phase fails and the user retries,
\* and a step passes only after it succeeded (the completion checkpoints of run).
ActsOnce ==
    /\ \A i \in 1 .. Len(steps) : acted[i] <= 1
    /\ \A i \in 1 .. Len(results) : results[i] = "passed" => acted[i] = 1

\* A pause that was asked for holds back every later step until it is resumed,
\* whatever fails, is retried or skipped meanwhile, for a user who has seen what
\* was emitted (pauseRequested; skip does not resume).
PauseIsKept ==
    [][prompt /\ asked /\ pc' = "phase" /\ pc # "phase" => ~asked' \/ pc = "recovery"]_vars

\* A stop ends the replay, also while it waits for the user (stop, AbortSignal).
StopEnds == stopped ~> pc = "over"

\* The replay decides the steps in their order and leaves none out but those the
\* user skipped: StepSequence.
Sequence == INSTANCE StepSequence WITH
    Interactive <- TRUE,
    plan <- [i \in 1 .. Len(steps) |-> CarriedOut(steps, i)],
    outcome <- results,
    failing <- pc = "recovery"
FollowsPlan == Sequence!Spec

=============================================================================
