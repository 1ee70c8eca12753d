--------------------------- MODULE BrowserbaseWorker ---------------------------
(***************************************************************************)
(* One headless run: validation (prepare.ts), a browser session that is    *)
(* asked for, used and given back (worker.ts), and the fail-fast runner in *)
(* between (runner.ts, execution.ts), with a caller that may cancel and a  *)
(* timer that ends the run.                                                *)
(***************************************************************************)
EXTENDS ReplaySteps, FiniteSets

CONSTANTS Workflows     \* the workflows that may be run

ASSUME WorkerAssumption == Workflows \subseteq Workflow

VARIABLES
    steps,      \* the steps of the prepared range
    bootstrap,  \* whether a page is opened first
    pc,         \* what run() awaits
    aborted,    \* controller.signal.aborted
    timedOut,
    known,      \* whether sessionId is known
    browser,    \* whether a browser is connected
    provider,   \* the session at the provider: "none", "running" or "gone"
    at, phase,  \* index of the current step and its completed phases
    results,    \* what became of the steps decided
    asserted,   \* assertionResults: whether each matched
    failing,    \* whether a step failed
    verdict,    \* what the runner returned, "open" before
    outcome     \* what the worker returned

runVars == <<at, phase, results, asserted, failing>>
vars == <<steps, bootstrap, pc, aborted, timedOut, known, browser, provider, runVars, verdict,
          outcome>>

-----------------------------------------------------------------------------
(* prepareWorkflow *)

Parameterised(step) ==
    step.enabled /\ step.kind = "fill" /\ step.source \in {"profile", "runtime"}

\* values: of the steps a value is given for, whether it can be used; a fixed
\* value is part of the workflow and taken as usable.
Prepared(wf, id, values) ==
    LET start == From(wf.steps, id)
        range == SubSeq(wf.steps, start, Len(wf.steps))
        required == {s.id : s \in {x \in ToSet(range) : Parameterised(x)}}
    IN IF ~wf.valid THEN [code |-> "invalid_workflow"]
       ELSE IF ~wf.complete THEN [code |-> "workflow_not_complete"]
       ELSE IF Duplicate(wf.steps) THEN [code |-> "invalid_workflow"]
       ELSE IF start = 0 THEN [code |-> "invalid_start_step"]
       ELSE IF FirstEnabled(range) = 0 THEN [code |-> "no_enabled_steps"]
       ELSE IF DOMAIN values \ required # {} THEN [code |-> "unused_parameter"]
       ELSE IF required \ DOMAIN values # {} THEN [code |-> "missing_parameter"]
       ELSE IF \E i \in required : ~values[i] THEN [code |-> "invalid_parameter"]
       ELSE IF Preflight(wf, id).error THEN [code |-> "invalid_workflow"]
       ELSE [code |-> "none"]

NoOutcome == [status |-> "none", stage |-> "none", cleanup |-> "none"]
Outcome == [status : {"none", "completed", "failed", "cancelled", "timed_out"},
            stage : {"none", "validation", "provisioning", "execution"},
            cleanup : {"none", "not_started", "completed", "incomplete"}]

TypeOK ==
    /\ steps \in Seq(Step) /\ bootstrap \in BOOLEAN
    /\ pc \in {"start", "creating", "connecting", "bootstrap", "top", "phase", "capture",
               "cleanup", "done"}
    /\ aborted \in BOOLEAN /\ timedOut \in BOOLEAN /\ (timedOut => aborted)
    /\ known \in BOOLEAN /\ browser \in BOOLEAN /\ (browser => known)
    /\ provider \in {"none", "running", "gone"}
    /\ at \in 1 .. Len(steps) + 1
    /\ phase \in 0 .. IF at <= Len(steps) THEN Len(Phases(steps[at])) ELSE 0
    /\ results \in Seq({"passed", "skipped"}) /\ Len(results) = at - 1
    /\ asserted \in Seq(BOOLEAN)
    /\ verdict \in {"open", "completed", "failed", "stopped"}
    /\ outcome \in Outcome

\* Only what passes validation gets this far; the other outcomes are immediate.
Init ==
    /\ \E wf \in Workflows : \E id \in {0} \cup {s.id : s \in ToSet(wf.steps)} :
       \E given \in SUBSET {s.id : s \in ToSet(wf.steps)} :
       \E values \in [given -> BOOLEAN] :
         LET refused == Prepared(wf, id, values).code # "none" IN
         /\ steps = IF refused THEN <<>> ELSE Preflight(wf, id).range
         /\ bootstrap = (~refused /\ Preflight(wf, id).bootstrap)
         /\ pc = IF refused THEN "done" ELSE "start"
         /\ outcome = IF refused
                      THEN [status |-> "failed", stage |-> "validation",
                            cleanup |-> "not_started"]
                      ELSE NoOutcome
    /\ aborted \in (IF pc = "done" THEN {FALSE} ELSE BOOLEAN) /\ timedOut = FALSE
    /\ known = FALSE /\ browser = FALSE /\ provider = "none"
    /\ at = 1 /\ phase = 0 /\ results = <<>> /\ asserted = <<>> /\ failing = FALSE
    /\ verdict = "open"

-----------------------------------------------------------------------------
(* The caller and the timer, until the outcome is settled *)

\* Nothing is awaited at the top of the runner's loop, so that neither comes there.
Running == pc \in {"start", "creating", "connecting", "bootstrap", "phase"}
Rigid == UNCHANGED <<steps, bootstrap>>
Signals == UNCHANGED <<aborted, timedOut>>

Cancel ==
    /\ Running /\ aborted' = TRUE
    /\ UNCHANGED <<steps, bootstrap, pc, timedOut, known, browser, provider, runVars, verdict,
                   outcome>>

TimesOutUnheard ==
    /\ Running /\ ~timedOut /\ timedOut' = TRUE
    /\ UNCHANGED <<steps, bootstrap, pc, aborted, known, browser, provider, runVars, verdict,
                   outcome>>
TimesOut ==
    /\ Running /\ ~timedOut /\ timedOut' = TRUE /\ aborted' = TRUE
    /\ UNCHANGED <<steps, bootstrap, pc, known, browser, provider, runVars, verdict, outcome>>

-----------------------------------------------------------------------------
(* Provisioning *)

\* The catch of run(), and what is decided without a runner.
Interrupted == IF timedOut THEN "timed_out" ELSE "cancelled"
Settles(status, stage) ==
    /\ outcome' = [NoOutcome EXCEPT !.status = status, !.stage = stage]
    /\ pc' = IF stage = "execution" THEN "capture" ELSE "cleanup"

Starts ==
    /\ pc = "start"
    /\ IF aborted THEN Settles(Interrupted, "provisioning")
       ELSE pc' = "creating" /\ UNCHANGED outcome
    /\ UNCHANGED <<known, browser, provider, runVars, verdict>> /\ Rigid /\ Signals

\* The session exists at the provider from here on, whatever becomes of the reply.
SessionMade ==
    /\ pc = "creating" /\ provider = "none"
    /\ provider' = "running"
    /\ UNCHANGED <<pc, known, browser, runVars, verdict, outcome>> /\ Rigid /\ Signals

\* The answer may come although the signal has fired: the session is known then.
Created ==
    /\ pc = "creating" /\ provider = "running" /\ known' = TRUE
    /\ IF aborted THEN Settles(Interrupted, "provisioning")
       ELSE pc' = "connecting" /\ UNCHANGED outcome
    /\ UNCHANGED <<browser, provider, runVars, verdict>> /\ Rigid /\ Signals

CreateFails ==
    /\ pc = "creating" /\ ~aborted
    /\ Settles("failed", "provisioning")
    /\ UNCHANGED <<known, browser, provider, runVars, verdict>> /\ Rigid /\ Signals

CreateInterrupted ==
    /\ pc = "creating" /\ aborted
    /\ Settles(Interrupted, "provisioning")
    /\ UNCHANGED <<known, browser, provider, runVars, verdict>> /\ Rigid /\ Signals

\* connect is not aborted: the signal is looked at when it returns. A browser
\* without a page is unavailable.
Connected ==
    /\ pc = "connecting" /\ browser' = TRUE
    /\ \/ /\ ~aborted
          /\ pc' = IF bootstrap THEN "bootstrap" ELSE "top"
          /\ UNCHANGED outcome
       \/ Settles(IF aborted THEN Interrupted ELSE "failed", "provisioning")
    /\ UNCHANGED <<known, provider, runVars, verdict>> /\ Rigid /\ Signals

ConnectFails ==
    /\ pc = "connecting"
    /\ Settles(IF aborted THEN Interrupted ELSE "failed", "provisioning")
    /\ UNCHANGED <<known, browser, provider, runVars, verdict>> /\ Rigid /\ Signals

-----------------------------------------------------------------------------
(* AutomationRunner.run *)

Outside == UNCHANGED <<known, browser, provider>> /\ Rigid /\ Signals

Returns(v) == /\ verdict' = v
              /\ Settles(CASE v = "completed" -> "completed" [] v = "failed" -> "failed"
                           [] v = "stopped" -> Interrupted, "execution")

Opened ==
    /\ pc = "bootstrap" /\ ~aborted /\ pc' = "top"
    /\ UNCHANGED <<runVars, verdict, outcome>> /\ Outside

OpeningEnds ==
    /\ pc = "bootstrap"
    /\ Returns(IF aborted THEN "stopped" ELSE "failed")
    /\ UNCHANGED runVars /\ Outside

Decided(result) == results' = Append(results, result) /\ at' = at + 1 /\ phase' = 0

\* After the last step nothing is awaited any more: the result follows at once.
GoesOnEarly == IF at + 1 >= Len(steps) THEN Returns("completed")
               ELSE pc' = "top" /\ UNCHANGED <<verdict, outcome>>
GoesOn == IF at = Len(steps) THEN Returns("completed")
          ELSE pc' = "top" /\ UNCHANGED <<verdict, outcome>>

LeavesOut ==
    /\ pc = "top" /\ ~aborted /\ ~CarriedOut(steps, at)
    /\ Decided("skipped") /\ GoesOn
    /\ UNCHANGED <<asserted, failing>> /\ Outside

Begins ==
    /\ pc = "top" /\ ~aborted /\ CarriedOut(steps, at)
    /\ pc' = "phase"
    /\ UNCHANGED <<runVars, verdict, outcome>> /\ Outside

Cancelled ==
    /\ aborted /\ pc \in {"top", "phase"}
    /\ Returns("stopped")
    /\ UNCHANGED runVars /\ Outside

\* executor.runStep: the signal is looked at after every phase (throwIfCancelled).
NeverLooks == TRUE
LooksAtSignal == ~aborted
PhaseDone ==
    /\ pc = "phase" /\ LooksAtSignal
    /\ IF phase + 1 < Len(Phases(steps[at]))
       THEN /\ phase' = phase + 1
            /\ UNCHANGED <<pc, at, results, asserted, verdict, outcome>>
       ELSE /\ Decided("passed")
            /\ asserted' = IF steps[at].kind = "assertion" THEN Append(asserted, TRUE)
                           ELSE asserted
            /\ GoesOn
    /\ UNCHANGED failing /\ Outside

PhaseFails ==
    /\ pc = "phase" /\ ~aborted
    /\ Phases(steps[at])[phase + 1] \in {"acting", "asserting", "condition"}
    /\ failing' = TRUE
    /\ asserted' = IF steps[at].kind = "assertion" THEN Append(asserted, FALSE) ELSE asserted
    /\ Returns("failed")
    /\ UNCHANGED <<at, phase, results>> /\ Outside

-----------------------------------------------------------------------------
(* The end of the worker's run *)

\* captureTerminalScreenshot: two seconds at most, and its errors are dropped.
CaptureEnds ==
    /\ pc = "capture" /\ pc' = "cleanup"
    /\ UNCHANGED <<runVars, verdict, outcome>> /\ Outside

CleanupStatusOptimistic(closed, released) ==
    IF ~known THEN "not_started" ELSE "completed"
CleanupStatus(closed, released) ==
    IF ~known THEN "not_started"
    ELSE IF (browser => closed) /\ released THEN "completed" ELSE "incomplete"

Cleanup ==
    /\ pc = "cleanup"
    /\ \E closed, released \in BOOLEAN :
         /\ known \/ ~released
         /\ outcome' = [outcome EXCEPT !.cleanup = CleanupStatus(closed, released)]
         /\ provider' = IF released THEN "gone" ELSE provider
    /\ pc' = "done"
    /\ UNCHANGED <<known, browser, runVars, verdict>> /\ Rigid /\ Signals

-----------------------------------------------------------------------------
Runner == \/ Opened \/ OpeningEnds \/ LeavesOut \/ Begins \/ Cancelled
          \/ PhaseDone \/ PhaseFails
Worker == \/ Starts \/ CreateInterrupted \/ Connected \/ ConnectFails
          \/ Runner \/ CaptureEnds \/ Cleanup
Reply == SessionMade \/ Created \/ CreateFails

Next == Cancel \/ TimesOut \/ Reply \/ Worker

Spec == Init /\ [][Next]_vars

\* Connecting, acting and waiting have timeouts of their own; a reply of the
\* provider may never come, for that there is the timer of the run.
FairSpec == Spec /\ WF_vars(Worker) /\ WF_vars(TimesOut)

-----------------------------------------------------------------------------
(* Properties *)

Assertions(n) == Cardinality({i \in 1 .. n : steps[i].kind = "assertion"
                                             /\ CarriedOut(steps, i)})

\* What the worker returns agrees with what happened: a run is called completed
\* only when every step was decided, cancelled or timed out exactly when it was
\* aborted before its end, and every assertion that was reached has its result,
\* of which only the last can be a mismatch.
OutcomeAgrees ==
    /\ outcome.status = "completed" =>
         Len(results) = Len(steps) /\ \A i \in 1 .. Len(steps) :
                                        CarriedOut(steps, i) = (results[i] = "passed")
    /\ outcome.status # "none" =>
         (outcome.status \in {"cancelled", "timed_out"}) = aborted
    /\ outcome.status = "timed_out" => timedOut
    /\ verdict # "open" =>
         Len(asserted) = Assertions(Len(results))
                           + IF failing /\ steps[at].kind = "assertion" THEN 1 ELSE 0
    /\ \A i \in 1 .. Len(asserted) : ~asserted[i] => failing /\ i = Len(asserted)

\* A session that is left at the provider is never called cleaned up: either the
\* caller is told that cleanup is incomplete, or the session was made while its
\* request was being given up, and nobody learned its name.
CleanupIsTrue ==
    pc = "done" /\ provider = "running" =>
        \/ outcome.cleanup = "incomplete"
        \/ outcome.cleanup = "not_started" /\ ~known /\ outcome.stage = "provisioning"

\* A run ends, whatever it waits for (timers and the abort signal).
RunEnds == <>(pc = "done")

\* The headless runner decides steps as the interactive one does, and stops at
\* the first that fails: StepSequence.
Sequence == INSTANCE StepSequence WITH
    Interactive <- FALSE,
    plan <- [i \in 1 .. Len(steps) |-> CarriedOut(steps, i)],
    outcome <- results
FollowsPlan == Sequence!Spec

=============================================================================
