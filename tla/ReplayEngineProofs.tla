-------------------------- MODULE ReplayEngineProofs --------------------------
(***************************************************************************)
(* Machine-checked facts about ReplayEngine, for any workflows and any     *)
(* number of commands.                                                     *)
(***************************************************************************)
EXTENDS ReplayEngine, TLAPS

-----------------------------------------------------------------------------
(* What preflight lets through *)

\* With ids that differ, the first step of an id is the only one.
LEMMA FromFacts ==
    ASSUME NEW s \in Seq(Step), NEW id, ~Duplicate(s), From(s, id) # 0, Len(s) > 0
    PROVE  From(s, id) \in 1 .. Len(s)
  <1>1. CASE id = 0
    BY <1>1 DEF From
  <1>2. CASE id # 0
    <2> DEFINE I == {i \in 1 .. Len(s) : s[i].id = id}
    <2>1. From(s, id) = IF I # {} THEN Min(I) ELSE 0
      BY <1>2 DEF From, SelectInSeq
    <2>2. PICK i \in I : TRUE
      BY <2>1
    <2>3. \A j \in I : j = i
      BY DEF Duplicate
    <2>4. i \in 1 .. Len(s) /\ \A y \in I : i =< y
      BY <2>3
    <2>5. Min(I) \in I
      BY <2>2, <2>4 DEF Min
    <2>6. QED
      BY <2>1, <2>2, <2>5
  <1>3. QED
    BY <1>1, <1>2

\* Preflight lets nothing through but a part of the workflow.
LEMMA RangeIsSteps ==
    ASSUME NEW wf \in Workflow, NEW id, ~Preflight(wf, id).error
    PROVE  /\ Preflight(wf, id).range \in Seq(Step) /\ Len(Preflight(wf, id).range) > 0
           /\ Preflight(wf, id).bootstrap \in BOOLEAN
  <1> DEFINE s == wf.steps
             start == From(s, id)
             range == SubSeq(s, start, Len(s))
             first == range[FirstEnabled(range)]
             refused == [error |-> TRUE, range |-> <<>>, bootstrap |-> FALSE]
             taken == [error |-> FALSE, range |-> range, bootstrap |-> first.kind # "navigate"]
  <1>1. s \in Seq(Step)
    BY DEF Workflow
  <1>2. Preflight(wf, id) =
          IF \/ ~wf.valid \/ Duplicate(s) \/ start = 0 \/ FirstEnabled(range) = 0
             \/ first.kind # "navigate" /\ ~wf.startUrl /\ ~first.http
          THEN refused ELSE taken
    BY DEF Preflight
  <1> HIDE DEF first
  <1>3. refused.error = TRUE
    OBVIOUS
  <1> HIDE DEF refused
  <1>4. /\ ~Duplicate(s) /\ start # 0 /\ FirstEnabled(range) # 0
        /\ Preflight(wf, id) = taken
    BY <1>2, <1>3
  <1>5. Preflight(wf, id).range = range /\ Preflight(wf, id).bootstrap \in BOOLEAN
    <2>1. taken.range = range
      OBVIOUS
    <2>2. taken.bootstrap = (first.kind # "navigate")
      OBVIOUS
    <2>3. QED
      BY <1>4, <2>1, <2>2
  <1>6. start \in 1 .. Len(s) + 1
    <2>1. CASE Len(s) > 0
      BY <1>1, <1>4, <2>1, FromFacts
    <2>2. CASE Len(s) = 0
      <3>1. {i \in 1 .. Len(s) : s[i].id = id} = {}
        BY <2>2
      <3>2. id = 0
        BY <1>4, <3>1 DEF From, SelectInSeq
      <3>3. QED
        BY <2>2, <3>2 DEF From
    <2>3. QED
      BY <1>1, <2>1, <2>2
  <1>7. range \in Seq(Step)
    BY <1>1, <1>6
  <1>8. Len(range) > 0
    <2>1. Len(range) = 0 => {i \in 1 .. Len(range) : range[i].enabled} = {}
      OBVIOUS
    <2>2. Len(range) # 0
      BY <1>4, <2>1 DEF FirstEnabled, SelectInSeq
    <2>3. Len(range) \in Nat
      BY <1>7
    <2> HIDE DEF range
    <2>4. QED
      BY <2>2, <2>3
  <1>9. QED
    BY <1>5, <1>7, <1>8

-----------------------------------------------------------------------------
(* The inductive invariant *)

\* Parts of TypeOK that the arguments need, by themselves inductive.
Typed ==
    /\ steps \in Seq(Step) /\ bootstrap \in BOOLEAN
    /\ pc \in {"bootstrap", "top", "boundary", "phase", "recovery", "over"}
    /\ at \in 1 .. Len(steps) + 1
    /\ phase \in Nat
    /\ results \in Seq({"passed", "skipped"})
    /\ acted \in [1 .. Len(steps) -> Nat]
    /\ verdict \in {"open", "completed", "failed", "stopped"}

\* Where the loop is, and what that says of the steps before and after it.
LoopPlace ==
    /\ Len(results) = at - 1
    /\ (pc = "over") = (verdict # "open")
    /\ pc = "bootstrap" => results = <<>>
    /\ pc \in {"boundary", "phase", "recovery"} => at <= Len(steps) /\ CarriedOut(steps, at)

\* The first checkpoint of a step is its one success; the steps to come have none.
ActedOnTheWay ==
    /\ \A i \in 1 .. Len(steps) : acted[i] <= 1
    /\ \A i \in 1 .. Len(steps) : i > at => acted[i] = 0
    /\ at <= Len(steps) => acted[at] = IF phase = 0 THEN 0 ELSE 1
    /\ \A i \in 1 .. Len(results) : results[i] = "passed" => acted[i] = 1

PauseIsRequested == asked => pauseRequested

EngineInv == Typed /\ LoopPlace /\ ActedOnTheWay /\ PauseIsRequested

-----------------------------------------------------------------------------
\* A step of the module leaves the progress as it is, leaves a step out, or
\* completes a phase.
Same == UNCHANGED <<steps, bootstrap, at, phase, results, acted>>
SkipsOne == /\ UNCHANGED <<steps, bootstrap, acted, verdict>> /\ Decided("skipped")
            /\ at <= Len(steps) /\ pc' = "top" /\ pc # "over" /\ pc # "bootstrap"

LEMMA Moves ==
    ASSUME EngineInv, [Next]_vars
    PROVE  Same \/ SkipsOne \/ PhaseDone
  <1> USE DEF Rigid, Flags, Requested, Same, progress
  <1>1. CASE UNCHANGED vars
    BY <1>1 DEF vars
  <1>2. CASE Opened \/ OpeningFails \/ Begins \/ Ends \/ PhaseFails \/ PhaseCancelled
    BY <1>2 DEF Opened, OpeningFails, Begins, Ends, PhaseFails, PhaseCancelled, Checkpoint
  <1>3. CASE LeavesOut
    BY <1>3 DEF LeavesOut, SkipsOne
  <1>4. CASE PhaseDone
    BY <1>4
  <1>5. CASE Pause \/ Resume \/ Retry \/ TakeControl \/ Stop
    BY <1>5 DEF Pause, Resume, Retry, TakeControl, Stop
  <1>6. CASE Skip
    BY <1>6 DEF Skip, SkipsOne, EngineInv, LoopPlace
  <1>7. QED
    BY <1>1, <1>2, <1>3, <1>4, <1>5, <1>6 DEF Next, Run, Commands

LEMMA InitInv == Init => EngineInv
  <1> SUFFICES ASSUME Init PROVE EngineInv
    OBVIOUS
  <1>1. PICK wf, id : /\ wf \in Workflows /\ ~Preflight(wf, id).error
                      /\ steps = Preflight(wf, id).range
                      /\ bootstrap = Preflight(wf, id).bootstrap
    BY DEF Init
  <1>2. steps \in Seq(Step) /\ bootstrap \in BOOLEAN
    BY <1>1, RangeIsSteps, EngineAssumption
  <1>3. Typed
    BY <1>2 DEF Init, Typed
  <1>4. LoopPlace /\ ActedOnTheWay /\ PauseIsRequested
    BY <1>2 DEF Init, LoopPlace, ActedOnTheWay, PauseIsRequested
  <1>5. QED
    BY <1>3, <1>4 DEF EngineInv

LEMMA TypedStep ==
    ASSUME EngineInv, [Next]_vars
    PROVE  Typed'
  <1>1. /\ pc' \in {"bootstrap", "top", "boundary", "phase", "recovery", "over"}
        /\ verdict' \in {"open", "completed", "failed", "stopped"}
    BY DEF EngineInv, Typed, Next, vars, Run, Commands, Opened, OpeningFails, LeavesOut, Begins, Ends,
           PhaseDone, PhaseFails, PhaseCancelled, Pause, Resume, Retry, Skip, TakeControl, Stop,
           Requested, Attempt, End, Rigid, Flags, progress
  <1>2. CASE Same
    BY <1>1, <1>2 DEF EngineInv, Typed, Same
  <1>3. CASE SkipsOne
    BY <1>1, <1>3 DEF EngineInv, Typed, SkipsOne, Decided
  <1>4. CASE PhaseDone
    <2>1. acted' \in [1 .. Len(steps) -> Nat] /\ steps' = steps /\ bootstrap' = bootstrap
      <3>1. acted' = IF phase = 0 THEN [acted EXCEPT ![at] = @ + 1] ELSE acted
        BY <1>4 DEF PhaseDone
      <3>2. acted \in [1 .. Len(steps) -> Nat]
        BY DEF EngineInv, Typed
      <3>3. [acted EXCEPT ![at] = @ + 1] \in [1 .. Len(steps) -> Nat]
        <4>1. at \in 1 .. Len(steps)
          BY <1>4 DEF PhaseDone, EngineInv, Typed, LoopPlace
        <4>2. acted[at] + 1 \in Nat
          BY <3>2, <4>1
        <4>3. QED
          BY <3>2, <4>2
      <3>4. steps' = steps /\ bootstrap' = bootstrap
        BY <1>4 DEF PhaseDone, Rigid
      <3>5. QED
        BY <3>1, <3>2, <3>3, <3>4
    <2>2. at <= Len(steps)
      BY <1>4 DEF PhaseDone, EngineInv, LoopPlace
    <2>3. at' \in 1 .. Len(steps) + 1 /\ phase' \in Nat
      BY <1>4, <2>2 DEF PhaseDone, EngineInv, Typed, Decided
    <2>4. results' \in Seq({"passed", "skipped"})
      <3>1. results' = results \/ results' = Append(results, "passed")
        BY <1>4 DEF PhaseDone, Decided
      <3>2. results \in Seq({"passed", "skipped"})
        BY DEF EngineInv, Typed
      <3>3. Append(results, "passed") \in Seq({"passed", "skipped"})
        BY <3>2
      <3>4. QED
        BY <3>1, <3>2, <3>3
    <2>5. QED
      BY <1>1, <2>1, <2>3, <2>4 DEF EngineInv, Typed
  <1>5. QED
    BY <1>2, <1>3, <1>4, Moves

LEMMA LoopStep ==
    ASSUME EngineInv, [Next]_vars
    PROVE  LoopPlace'
  <1> USE DEF EngineInv, Typed, LoopPlace
  <1>1. CASE SkipsOne
    BY <1>1 DEF SkipsOne, Decided
  <1>2. CASE PhaseDone
    <2>1. UNCHANGED <<steps, verdict>> /\ pc' \in {"top", "phase"} /\ pc = "phase"
      BY <1>2 DEF PhaseDone, Rigid
    <2>2. Len(results') = at' - 1
      BY <1>2 DEF PhaseDone, Decided
    <2>3. pc' = "phase" => at' = at
      BY <1>2 DEF PhaseDone
    <2>4. QED
      BY <2>1, <2>2, <2>3
  <1>3. CASE Same
    <2>1. (pc' = "over") = (verdict' # "open")
      BY DEF Next, vars, Run, Commands, Opened, OpeningFails, LeavesOut, Begins, Ends,
             PhaseDone, PhaseFails, PhaseCancelled, Pause, Resume, Retry, Skip, TakeControl, Stop,
             Requested, Attempt, End
    <2>2. pc' = "bootstrap" => pc = "bootstrap"
      BY DEF Next, vars, Run, Commands, Opened, OpeningFails, LeavesOut, Begins, Ends,
             PhaseDone, PhaseFails, PhaseCancelled, Pause, Resume, Retry, Skip, TakeControl, Stop,
             Requested, Attempt, End
    <2>3. pc' \in {"boundary", "phase", "recovery"}
            => pc \in {"boundary", "phase", "recovery"} \/ (at <= Len(steps) /\ CarriedOut(steps, at))
      BY DEF Next, vars, Run, Commands, Opened, OpeningFails, LeavesOut, Begins, Ends,
             PhaseDone, PhaseFails, PhaseCancelled, Pause, Resume, Retry, Skip, TakeControl, Stop,
             Requested, Attempt, End, Waiting
    <2>4. QED
      BY <1>3, <2>1, <2>2, <2>3 DEF Same
  <1>4. QED
    BY <1>1, <1>2, <1>3, Moves

LEMMA ActedStep ==
    ASSUME EngineInv, [Next]_vars
    PROVE  ActedOnTheWay'
  <1>1. CASE Same
    BY <1>1 DEF Same, EngineInv, ActedOnTheWay
  <1>2. CASE SkipsOne
    <2>1. /\ UNCHANGED <<steps, acted>> /\ results' = Append(results, "skipped")
          /\ at' = at + 1 /\ phase' = 0 /\ at <= Len(steps)
      BY <1>2 DEF SkipsOne, Decided
    <2>2. Len(results') = at /\ \A i \in 1 .. Len(results') :
            results'[i] = IF i < at THEN results[i] ELSE "skipped"
      BY <2>1 DEF EngineInv, Typed, LoopPlace
    <2>3. \A i \in 1 .. Len(results') : results'[i] = "passed" => acted'[i] = 1
      BY <2>1, <2>2 DEF EngineInv, Typed, LoopPlace, ActedOnTheWay
    <2>4. QED
      BY <2>1, <2>3 DEF EngineInv, Typed, ActedOnTheWay
  <1>3. CASE PhaseDone
    <2>1. pc = "phase" /\ at \in 1 .. Len(steps) /\ steps' = steps
      BY <1>3 DEF PhaseDone, EngineInv, Typed, LoopPlace, Rigid
    <2>2. \A i \in 1 .. Len(steps) : acted'[i] = IF i = at THEN 1 ELSE acted[i]
      BY <1>3, <2>1 DEF PhaseDone, EngineInv, Typed, ActedOnTheWay
    <2>3. CASE Decided("passed")
      <3>1. results' = Append(results, "passed") /\ at' = at + 1 /\ phase' = 0
        BY <2>3 DEF Decided
      <3>2. Len(results') = at /\ \A i \in 1 .. Len(results') :
              results'[i] = IF i < at THEN results[i] ELSE "passed"
        BY <3>1 DEF EngineInv, Typed, LoopPlace
      <3>3. \A i \in 1 .. Len(results') : results'[i] = "passed" => acted'[i] = 1
        BY <2>1, <2>2, <3>2 DEF EngineInv, Typed, LoopPlace, ActedOnTheWay
      <3>4. QED
        BY <2>1, <2>2, <3>1, <3>3 DEF EngineInv, Typed, ActedOnTheWay
    <2>4. CASE phase' = phase + 1 /\ UNCHANGED <<at, results>>
      BY <2>1, <2>2, <2>4 DEF EngineInv, Typed, LoopPlace, ActedOnTheWay
    <2>5. QED
      BY <1>3, <2>3, <2>4 DEF PhaseDone
  <1>4. QED
    BY <1>1, <1>2, <1>3, Moves

LEMMA PauseStep ==
    ASSUME EngineInv, [Next]_vars
    PROVE  PauseIsRequested'
  BY DEF EngineInv, PauseIsRequested, Next, vars, Run, Commands, Opened, OpeningFails, LeavesOut,
         Begins, Ends, PhaseDone, PhaseFails, PhaseCancelled, Pause, Resume, Retry, Skip, TakeControl,
         Stop, AfterSkip, Flags

LEMMA EngineInvHolds == Spec => []EngineInv
  <1>1. EngineInv /\ [Next]_vars => EngineInv'
    BY TypedStep, LoopStep, ActedStep, PauseStep DEF EngineInv
  <1>2. QED
    BY InitInv, <1>1, PTL DEF Spec

-----------------------------------------------------------------------------
\* However a replay is paused, fails, is retried, skipped and stopped, the action
\* of a step succeeds at most once, and it did for every step said to have passed
\* (the checkpoints of ReplayEngine.run).
THEOREM ActionsAreNotRepeated == Spec => []ActsOnce
  <1>1. EngineInv => ActsOnce
    BY DEF EngineInv, ActedOnTheWay, ActsOnce
  <1>2. QED
    BY <1>1, EngineInvHolds, PTL

\* For a user who acts on what is shown, no step begins under a pause but the one
\* that failed and is tried again (pauseRequested).
THEOREM PausesAreKept == Spec => PauseIsKept
  <1> DEFINE Kept == prompt /\ asked /\ pc' = "phase" /\ pc # "phase" => ~asked' \/ pc = "recovery"
  <1>1. EngineInv /\ [Next]_vars => Kept
    <2> SUFFICES ASSUME EngineInv, [Next]_vars, prompt, asked, pc' = "phase", pc # "phase"
                 PROVE  ~asked' \/ pc = "recovery"
      OBVIOUS
    <2>1. pauseRequested
      BY DEF EngineInv, PauseIsRequested
    <2>2. CASE Run
      BY <2>1, <2>2 DEF Run, Opened, OpeningFails, LeavesOut, Begins, Ends, PhaseDone, PhaseFails,
                        PhaseCancelled, End
    <2>3. CASE Commands
      BY <2>3 DEF Commands, Pause, Resume, Retry, Skip, TakeControl, Stop, Requested, Offered,
                  CurrentFailed, Waiting, Attempt
    <2>4. QED
      BY <2>2, <2>3 DEF Next, vars
  <1>2. EngineInv /\ [Next]_vars => [Kept]_vars
    BY <1>1
  <1>3. QED
    BY <1>2, EngineInvHolds, PTL DEF Spec, PauseIsKept

-----------------------------------------------------------------------------
(* What the replay does is what StepSequence promises. *)

Planned == [i \in 1 .. Len(steps) |-> CarriedOut(steps, i)]
SequenceVars == <<Planned, results, pc = "recovery", verdict>>

LEMMA PlannedFacts ==
    ASSUME steps \in Seq(Step)
    PROVE  /\ Planned \in Seq(BOOLEAN) /\ Len(Planned) = Len(steps)
           /\ \A i \in 1 .. Len(steps) : Planned[i] = CarriedOut(steps, i)
  <1>1. \A i \in 1 .. Len(steps) : CarriedOut(steps, i) \in BOOLEAN
    BY DEF CarriedOut, Step
  <1>2. Len(steps) \in Nat
    OBVIOUS
  <1>3. QED
    BY <1>1, <1>2 DEF Planned

LEMMA SequenceInit == Init => Sequence!Init
  <1> SUFFICES ASSUME Init PROVE Sequence!Init
    OBVIOUS
  <1>1. steps \in Seq(Step)
    BY InitInv DEF EngineInv, Typed
  <1>2. Planned \in Seq(BOOLEAN)
    BY <1>1, PlannedFacts
  <1>3. pc # "recovery" /\ results = <<>> /\ verdict = "open"
    BY DEF Init
  <1>4. QED
    BY <1>2, <1>3 DEF Sequence!Init, Planned

\* Its own steps and the user's commands, each as the promise knows it.
LEMMA SequenceStep ==
    ASSUME EngineInv, [Next]_vars
    PROVE  Sequence!Next \/ UNCHANGED SequenceVars
  <1>1. steps' = steps
    BY Moves DEF Same, SkipsOne, PhaseDone, Rigid
  <1>2. Planned' = Planned
    BY <1>1 DEF Planned
  <1>3. /\ Len(Planned) = Len(steps) /\ Len(results) = at - 1 /\ at \in Nat /\ Len(steps) \in Nat
        /\ at \in 1 .. Len(steps) => Planned[at] = CarriedOut(steps, at)
    BY PlannedFacts DEF EngineInv, Typed, LoopPlace
  <1>4. Sequence!Turn = at
    BY <1>3 DEF Sequence!Turn
  <1>5. Sequence!Open <=> verdict = "open" /\ at <= Len(steps)
    BY <1>3, <1>4 DEF Sequence!Open, Planned
  <1>6. (pc = "over") = (verdict # "open")
    BY DEF EngineInv, LoopPlace
  <1>7. ASSUME NEW r, results' = Append(results, r), pc' # "recovery", verdict' = "open"
        PROVE  Sequence!Decide(r)
    BY <1>2, <1>7 DEF Sequence!Decide, Planned
  <1>8. CASE UNCHANGED <<results, verdict>> /\ pc # "recovery" /\ pc' # "recovery"
    BY <1>2, <1>8 DEF SequenceVars
  <1>9. CASE Ends \/ OpeningFails
    <2>1. CASE verdict' = "stopped"
      BY <1>2, <1>9, <2>1, <1>6
         DEF Ends, OpeningFails, End, progress, Sequence!Next, Sequence!Stop, Planned
    <2>2. CASE Ends /\ verdict' # "stopped"
      <3>1. at > Len(steps) /\ verdict = "open" /\ verdict' = "completed"
        BY <2>2, <1>6 DEF Ends, End
      <3>2. Sequence!Turn > Len(Planned)
        BY <3>1, <1>3, <1>4
      <3>3. QED
        BY <1>2, <2>2, <3>1, <3>2 DEF Ends, End, progress, Sequence!Next, Sequence!Complete, Planned
    <2>3. CASE OpeningFails /\ verdict' # "stopped"
      <3>1. results = <<>> /\ verdict = "open" /\ verdict' = "failed"
        BY <2>3, <1>6 DEF OpeningFails, End, EngineInv, LoopPlace
      <3>2. QED
        BY <1>2, <2>3, <3>1
           DEF OpeningFails, End, progress, Sequence!Next, Sequence!NeverBegin, Planned
    <2>4. QED
      BY <1>9, <2>1, <2>2, <2>3
  <1>10. CASE LeavesOut
    <2>1. verdict = "open" /\ verdict' = "open" /\ pc' # "recovery" /\ results' = Append(results, "skipped")
      BY <1>10, <1>6 DEF LeavesOut, Decided
    <2>2. at \in 1 .. Len(steps) /\ ~Planned[at]
      BY <1>10, <1>3 DEF LeavesOut, EngineInv, Typed
    <2>3. QED
      BY <2>1, <2>2, <1>4, <1>5, <1>7 DEF Sequence!Next, Sequence!Leave, Planned
  <1>11. CASE PhaseDone
    <2>1. /\ verdict = "open" /\ verdict' = "open" /\ pc # "recovery" /\ pc' # "recovery"
          /\ results' = Append(results, "passed") \/ results' = results
      BY <1>11, <1>6 DEF PhaseDone, Decided
    <2>2. at \in 1 .. Len(steps) /\ Planned[at]
      <3>1. at \in 1 .. Len(steps) /\ CarriedOut(steps, at)
        BY <1>11 DEF PhaseDone, EngineInv, Typed, LoopPlace
      <3>2. QED
        BY <1>3, <3>1
    <2>3. QED
      BY <1>2, <2>1, <2>2, <1>4, <1>5, <1>7 DEF Sequence!Next, Sequence!Pass, SequenceVars, Planned
  <1>12. CASE PhaseFails
    <2>1. /\ verdict = "open" /\ verdict' = "open" /\ pc' = "recovery" /\ results' = results
      BY <1>12, <1>6 DEF PhaseFails
    <2>2. at \in 1 .. Len(steps) /\ Planned[at]
      <3>1. at \in 1 .. Len(steps) /\ CarriedOut(steps, at)
        BY <1>12 DEF PhaseFails, EngineInv, Typed, LoopPlace
      <3>2. QED
        BY <1>3, <3>1
    <2>3. QED
      BY <1>2, <2>1, <2>2, <1>4, <1>5 DEF Sequence!Next, Sequence!Fail, Planned
  <1>13. CASE Commands /\ pc = "recovery"
    <2>1. verdict = "open" /\ verdict' = "open" /\ at \in 1 .. Len(steps)
      BY <1>13, <1>6 DEF EngineInv, Typed, LoopPlace, Commands, Pause, Resume, Retry, Skip,
                         TakeControl, Stop, Requested
    <2>2. CASE Skip
      <3>1. CASE results' = Append(results, "skipped") /\ pc' = "top"
        BY <2>1, <3>1, <1>13, <1>5, <1>7 DEF Sequence!Next, Sequence!Leave
      <3>2. CASE results' = results /\ pc' = pc
        BY <1>2, <2>1, <3>2 DEF SequenceVars
      <3>3. QED
        BY <1>13, <2>2, <3>1, <3>2 DEF Skip, Decided
    <2>3. CASE ~Skip
      <3>1. results' = results
        BY <1>13, <2>3 DEF Commands, Pause, Resume, Retry, TakeControl, Stop
      <3>2. CASE pc' = "recovery"
        BY <1>2, <1>13, <2>1, <3>1, <3>2 DEF SequenceVars
      <3>3. CASE pc' # "recovery"
        BY <1>2, <1>13, <2>1, <3>1, <3>3, <1>5 DEF Sequence!Next, Sequence!TryAgain, Planned
      <3>4. QED
        BY <3>2, <3>3
    <2>4. QED
      BY <2>2, <2>3
  <1>14. CASE Commands /\ pc # "recovery"
    BY <1>8, <1>14 DEF Commands, Pause, Resume, Retry, Skip, TakeControl, Stop, Requested, Attempt
  <1>15. CASE Opened \/ Begins \/ PhaseCancelled
    BY <1>8, <1>15 DEF Opened, Begins, PhaseCancelled, Attempt, progress
  <1>16. CASE UNCHANGED vars
    BY <1>2, <1>16 DEF vars, progress, SequenceVars
  <1>17. QED
    BY <1>9, <1>10, <1>11, <1>12, <1>13, <1>14, <1>15, <1>16 DEF Next, Run

\* The engine implements the promise: each step is decided in its turn and once,
\* and none is left out but those that are not to be carried out and those the
\* user skips after they failed (run, skip).
THEOREM ReplayFollowsPlan == Spec => FollowsPlan
  <1>1. EngineInv /\ [Next]_vars => [Sequence!Next]_SequenceVars
    BY SequenceStep
  <1>2. QED
    BY SequenceInit, <1>1, EngineInvHolds, PTL
       DEF Spec, FollowsPlan, Sequence!Spec, SequenceVars, Planned

=============================================================================
