------------------------ MODULE BrowserbaseWorkerProofs ------------------------
(***************************************************************************)
(* Machine-checked facts about BrowserbaseWorker, for any workflows, given *)
(* values, cancellations and time-outs.                                    *)
(***************************************************************************)
EXTENDS BrowserbaseWorker, TLAPS, FiniteSetTheorems

-----------------------------------------------------------------------------
(* What preflight lets through *)

\* With ids that differ, the first step of an id is the only one.
LEMMA FromFacts ==
    ASSUME NEW s \in Seq(Step), NEW id, ~Duplicate(s), From(s, id) # 0, Len(s) > 0
    PROVE  From(s, id) \in 1 .. Len(s)
  <1>1. CASE id = 0
    BY <1>1 DEF From
  <1>2. CASE id # 0
    <2> DEFINE I == {i \in 1 .. Len(s) : s[i].id = id}
    <2>1. From(s, id) = IF I # {} THEN Min(I) ELSE 0
      BY <1>2 DEF From, SelectInSeq
    <2>2. PICK i \in I : TRUE
      BY <2>1
    <2>3. \A j \in I : j = i
      BY DEF Duplicate
    <2>4. i \in 1 .. Len(s) /\ \A y \in I : i =< y
      BY <2>3
    <2>5. Min(I) \in I
      BY <2>2, <2>4 DEF Min
    <2>6. QED
      BY <2>1, <2>2, <2>5
  <1>3. QED
    BY <1>1, <1>2

\* Preflight lets nothing through but a part of the workflow.
LEMMA RangeIsSteps ==
    ASSUME NEW wf \in Workflow, NEW id, ~Preflight(wf, id).error
    PROVE  /\ Preflight(wf, id).range \in Seq(Step) /\ Len(Preflight(wf, id).range) > 0
           /\ Preflight(wf, id).bootstrap \in BOOLEAN
  <1> DEFINE s == wf.steps
             start == From(s, id)
             range == SubSeq(s, start, Len(s))
             first == range[FirstEnabled(range)]
             refused == [error |-> TRUE, range |-> <<>>, bootstrap |-> FALSE]
             taken == [error |-> FALSE, range |-> range, bootstrap |-> first.kind # "navigate"]
  <1>1. s \in Seq(Step)
    BY DEF Workflow
  <1>2. Preflight(wf, id) =
          IF \/ ~wf.valid \/ Duplicate(s) \/ start = 0 \/ FirstEnabled(range) = 0
             \/ first.kind # "navigate" /\ ~wf.startUrl /\ ~first.http
          THEN refused ELSE taken
    BY DEF Preflight
  <1> HIDE DEF first
  <1>3. refused.error = TRUE
    OBVIOUS
  <1> HIDE DEF refused
  <1>4. /\ ~Duplicate(s) /\ start # 0 /\ FirstEnabled(range) # 0
        /\ Preflight(wf, id) = taken
    BY <1>2, <1>3
  <1>5. Preflight(wf, id).range = range /\ Preflight(wf, id).bootstrap \in BOOLEAN
    <2>1. taken.range = range
      OBVIOUS
    <2>2. taken.bootstrap = (first.kind # "navigate")
      OBVIOUS
    <2>3. QED
      BY <1>4, <2>1, <2>2
  <1>6. start \in 1 .. Len(s) + 1
    <2>1. CASE Len(s) > 0
      BY <1>1, <1>4, <2>1, FromFacts
    <2>2. CASE Len(s) = 0
      <3>1. {i \in 1 .. Len(s) : s[i].id = id} = {}
        BY <2>2
      <3>2. id = 0
        BY <1>4, <3>1 DEF From, SelectInSeq
      <3>3. QED
        BY <2>2, <3>2 DEF From
    <2>3. QED
      BY <1>1, <2>1, <2>2
  <1>7. range \in Seq(Step)
    BY <1>1, <1>6
  <1>8. Len(range) > 0
    <2>1. Len(range) = 0 => {i \in 1 .. Len(range) : range[i].enabled} = {}
      OBVIOUS
    <2>2. Len(range) # 0
      BY <1>4, <2>1 DEF FirstEnabled, SelectInSeq
    <2>3. Len(range) \in Nat
      BY <1>7
    <2> HIDE DEF range
    <2>4. QED
      BY <2>2, <2>3
  <1>9. QED
    BY <1>5, <1>7, <1>8

-----------------------------------------------------------------------------
(* The inductive invariant *)

\* Parts of TypeOK that the arguments need, by themselves inductive.
Typed ==
    /\ steps \in Seq(Step) /\ bootstrap \in BOOLEAN
    /\ pc \in {"start", "creating", "connecting", "bootstrap", "top", "phase", "capture",
               "cleanup", "done"}
    /\ aborted \in BOOLEAN /\ timedOut \in BOOLEAN /\ (timedOut => aborted)
    /\ known \in BOOLEAN /\ browser \in BOOLEAN
    /\ provider \in {"none", "running", "gone"}
    /\ at \in 1 .. Len(steps) + 1
    /\ results \in Seq({"passed", "skipped"}) /\ asserted \in Seq(BOOLEAN)
    /\ failing \in BOOLEAN
    /\ verdict \in {"open", "completed", "failed", "stopped"}
    /\ outcome \in Outcome

\* Where the worker is, and what that says of the run.
Place ==
    /\ Len(results) = at - 1
    /\ pc \in {"start", "creating", "connecting", "bootstrap"} => results = <<>> /\ Len(steps) > 0
    /\ pc \in {"top", "phase"} => at <= Len(steps)
    /\ pc = "phase" => CarriedOut(steps, at)
    /\ pc \notin {"capture", "cleanup", "done"} =>
         verdict = "open" /\ ~failing /\ outcome.status = "none"
    /\ failing => at <= Len(steps)

\* What was decided is what was to be carried out, and was counted.
Tally ==
    /\ \A i \in 1 .. Len(results) : (CarriedOut(steps, i) <=> results[i] = "passed")
    /\ Len(asserted) = Assertions(Len(results))
                         + IF failing /\ steps[at].kind = "assertion" THEN 1 ELSE 0
    /\ \A i \in 1 .. Len(asserted) : ~asserted[i] => failing /\ i = Len(asserted)

\* The outcome was settled when the signal stood as it still does.
Settled ==
    /\ outcome.status = "completed" => at = Len(steps) + 1
    /\ outcome.status # "none" => (outcome.status \in {"cancelled", "timed_out"}) = aborted
    /\ outcome.status = "timed_out" => timedOut

\* A session whose name nobody knows was asked for, and not used.
SessionKnown ==
    /\ pc = "start" => provider = "none"
    /\ ~known => \/ pc \in {"start", "creating", "done"}
                 \/ pc = "cleanup" /\ outcome.stage = "provisioning"
    /\ CleanupIsTrue

WorkerInv == Typed /\ Place /\ Tally /\ Settled /\ SessionKnown

-----------------------------------------------------------------------------
(* Counting the assertions *)

LEMMA AppendFacts ==
    ASSUME NEW S, NEW s \in Seq(S), NEW e \in S
    PROVE  /\ Append(s, e) \in Seq(S) /\ Len(Append(s, e)) = Len(s) + 1
           /\ \A i \in 1 .. Len(s) : Append(s, e)[i] = s[i]
           /\ Append(s, e)[Len(s) + 1] = e
  OBVIOUS

LEMMA AssertedFacts ==
    ASSUME asserted \in Seq(BOOLEAN), NEW e \in BOOLEAN
    PROVE  /\ Append(asserted, e) \in Seq(BOOLEAN) /\ Len(Append(asserted, e)) = Len(asserted) + 1
           /\ \A i \in 1 .. Len(asserted) : Append(asserted, e)[i] = asserted[i]
           /\ Append(asserted, e)[Len(asserted) + 1] = e
  BY AppendFacts

Counted(n) == {i \in 1 .. n : steps[i].kind = "assertion" /\ CarriedOut(steps, i)}

LEMMA CountFacts ==
    ASSUME NEW n \in Nat
    PROVE  /\ Assertions(n) = Cardinality(Counted(n)) /\ Assertions(n) \in Nat
           /\ Assertions(n + 1) = Assertions(n) + IF n + 1 \in Counted(n + 1) THEN 1 ELSE 0
           /\ Assertions(0) = 0
  <1>1. \A k : Assertions(k) = Cardinality(Counted(k))
    BY DEF Assertions, Counted
  <1>2. IsFiniteSet(Counted(n)) /\ n + 1 \notin Counted(n)
    <2>1. 1 \in Int /\ n \in Int
      OBVIOUS
    <2>2. IsFiniteSet(1 .. n)
      BY <2>1, FS_Interval
    <2>3. Counted(n) \in SUBSET (1 .. n) /\ n + 1 \notin Counted(n)
      BY DEF Counted
    <2>4. QED
      BY <2>2, <2>3, FS_Subset
  <1>3. Counted(n + 1) = Counted(n) \cup (IF n + 1 \in Counted(n + 1) THEN {n + 1} ELSE {})
    BY DEF Counted
  <1>4. Cardinality(Counted(n)) \in Nat
    BY <1>2, FS_CardinalityType
  <1>5. Cardinality(Counted(n + 1)) = Cardinality(Counted(n)) + IF n + 1 \in Counted(n + 1) THEN 1 ELSE 0
    BY <1>2, <1>3, <1>4, FS_AddElement
  <1>6. Cardinality(Counted(0)) = 0
    BY FS_EmptySet DEF Counted
  <1>7. QED
    BY <1>1, <1>4, <1>5, <1>6

-----------------------------------------------------------------------------
LEMMA InitInv == Init => WorkerInv
  <1> SUFFICES ASSUME Init PROVE WorkerInv
    OBVIOUS
  <1>1. PICK wf, id, values :
          LET refused == Prepared(wf, id, values).code # "none" IN
          /\ wf \in Workflows
          /\ steps = IF refused THEN <<>> ELSE Preflight(wf, id).range
          /\ bootstrap = (~refused /\ Preflight(wf, id).bootstrap)
          /\ pc = IF refused THEN "done" ELSE "start"
          /\ outcome = IF refused
                       THEN [status |-> "failed", stage |-> "validation", cleanup |-> "not_started"]
                       ELSE NoOutcome
    BY DEF Init
  <1>2. Prepared(wf, id, values).code = "none" => ~Preflight(wf, id).error
    BY DEF Prepared
  <1>3. /\ at = 1 /\ results = <<>> /\ asserted = <<>> /\ failing = FALSE /\ verdict = "open"
        /\ known = FALSE /\ browser = FALSE /\ provider = "none" /\ timedOut = FALSE
        /\ aborted \in BOOLEAN /\ (pc = "done" => ~aborted)
    BY DEF Init
  <1>4. \/ /\ steps \in Seq(Step) /\ Len(steps) > 0 /\ bootstrap \in BOOLEAN
           /\ pc = "start" /\ outcome = NoOutcome
        \/ /\ steps = <<>> /\ bootstrap = FALSE /\ pc = "done"
           /\ outcome = [status |-> "failed", stage |-> "validation", cleanup |-> "not_started"]
    BY <1>1, <1>2, RangeIsSteps, WorkerAssumption
  <1>5. Typed
    <2>1. outcome \in Outcome
      BY <1>4 DEF NoOutcome, Outcome
    <2>2. results \in Seq({"passed", "skipped"}) /\ asserted \in Seq(BOOLEAN)
      BY <1>3
    <2>3. steps \in Seq(Step) /\ bootstrap \in BOOLEAN /\ pc \in {"start", "done"}
      <3>1. <<>> \in Seq(Step)
        OBVIOUS
      <3>2. QED
        BY <1>4, <3>1
    <2>4. at \in 1 .. Len(steps) + 1
      BY <1>3, <2>3
    <2>5. QED
      BY <1>3, <2>1, <2>2, <2>3, <2>4 DEF Typed
  <1>6. Place
    BY <1>3, <1>4 DEF Place, NoOutcome
  <1>7. Tally
    <2>1. Assertions(0) = 0
      BY CountFacts
    <2>2. Len(results) = 0 /\ Len(asserted) = 0
      BY <1>3
    <2>3. QED
      BY <1>3, <2>1, <2>2 DEF Tally
  <1>8. Settled /\ SessionKnown
    BY <1>3, <1>4 DEF Settled, SessionKnown, CleanupIsTrue, NoOutcome
  <1>9. QED
    BY <1>5, <1>6, <1>7, <1>8 DEF WorkerInv

-----------------------------------------------------------------------------
(* Cancelling, timing out, and provisioning *)

Provisions ==
    \/ Starts \/ SessionMade \/ Created \/ CreateFails \/ CreateInterrupted \/ Connected \/ ConnectFails

LEMMA SignalStep ==
    ASSUME WorkerInv, Cancel \/ TimesOut
    PROVE  WorkerInv'
  <1>1. /\ UNCHANGED <<steps, bootstrap, pc, known, browser, provider, at, phase, results, asserted,
                       failing, verdict, outcome>>
        /\ aborted' = TRUE /\ timedOut' \in BOOLEAN
        /\ Running
    BY DEF Cancel, TimesOut, runVars, WorkerInv, Typed
  <1>2. outcome.status = "none"
    BY <1>1 DEF Running, WorkerInv, Place
  <1>3. Typed' /\ Place' /\ SessionKnown'
    BY <1>1 DEF WorkerInv, Typed, Place, SessionKnown, CleanupIsTrue
  <1>4. Tally'
    BY <1>1 DEF WorkerInv, Tally, Assertions
  <1>5. Settled'
    BY <1>1, <1>2 DEF Settled
  <1>6. QED
    BY <1>3, <1>4, <1>5 DEF WorkerInv

\* An outcome settled before there is a runner, or what follows it.
LEMMA ProvisionFacts ==
    ASSUME WorkerInv, Provisions
    PROVE  /\ UNCHANGED <<steps, bootstrap, aborted, timedOut, at, phase, results, asserted, failing,
                          verdict>>
           /\ pc \in {"start", "creating", "connecting"}
           /\ known' \in BOOLEAN /\ browser' \in BOOLEAN /\ provider' \in {"none", "running", "gone"}
           /\ \/ pc' \in {"creating", "connecting", "bootstrap", "top"} /\ outcome' = outcome
              \/ /\ pc' = "cleanup"
                 /\ \E status \in {"failed", Interrupted} :
                      /\ outcome' = [status |-> status, stage |-> "provisioning", cleanup |-> "none"]
                      /\ (status = "failed") = ~aborted
           /\ pc' \in {"creating", "cleanup"} \/ known'
           /\ pc' # "start"
  <1> USE DEF Rigid, Signals, runVars, Settles, NoOutcome, Interrupted, WorkerInv, Typed
  <1>1. CASE Starts
    BY <1>1 DEF Starts
  <1>2. CASE SessionMade
    BY <1>2 DEF SessionMade
  <1>3. CASE Created
    BY <1>3 DEF Created
  <1>4. CASE CreateFails
    BY <1>4 DEF CreateFails
  <1>5. CASE CreateInterrupted
    BY <1>5 DEF CreateInterrupted
  <1>6. CASE Connected
    BY <1>6 DEF Connected, SessionKnown
  <1>7. CASE ConnectFails
    BY <1>7 DEF ConnectFails, SessionKnown
  <1>8. QED
    BY <1>1, <1>2, <1>3, <1>4, <1>5, <1>6, <1>7 DEF Provisions

LEMMA ProvisionStep ==
    ASSUME WorkerInv, Provisions
    PROVE  WorkerInv'
  <1>1. outcome' \in Outcome
    BY ProvisionFacts DEF WorkerInv, Typed, Outcome, Interrupted
  <1>2. Typed'
    BY <1>1, ProvisionFacts DEF WorkerInv, Typed
  <1>3. pc' \notin {"cleanup"} => outcome'.status = "none"
    BY ProvisionFacts DEF WorkerInv, Place
  <1>4. Place'
    BY <1>3, ProvisionFacts DEF WorkerInv, Typed, Place
  <1>5. Tally'
    <2>1. UNCHANGED <<steps, at, results, asserted, failing>>
      BY ProvisionFacts
    <2>2. QED
      BY <2>1 DEF WorkerInv, Tally, Assertions
  <1>6. Settled'
    BY <1>3, ProvisionFacts DEF WorkerInv, Typed, Place, Settled, Interrupted
  <1>7. SessionKnown'
    BY ProvisionFacts DEF SessionKnown, CleanupIsTrue
  <1>8. QED
    BY <1>2, <1>4, <1>5, <1>6, <1>7 DEF WorkerInv

-----------------------------------------------------------------------------
(* The runner *)

\* The runner returns, or goes on to another step.
EndsAs(v) ==
    /\ verdict' = v /\ pc' = "capture"
    /\ outcome' = [status |-> CASE v = "completed" -> "completed" [] v = "failed" -> "failed"
                                [] v = "stopped" -> Interrupted,
                   stage |-> "execution", cleanup |-> "none"]
GoesOnOrCompletes ==
    \/ at = Len(steps) /\ EndsAs("completed")
    \/ at # Len(steps) /\ pc' = "top" /\ UNCHANGED <<verdict, outcome>>

LEMMA ReturnsFacts ==
    ASSUME NEW v, Returns(v)
    PROVE  EndsAs(v)
  BY DEF Returns, Settles, EndsAs, NoOutcome

LEMMA EndsFacts ==
    ASSUME NEW v \in {"completed", "failed", "stopped"}, EndsAs(v), aborted \in BOOLEAN,
           timedOut \in BOOLEAN
    PROVE  /\ outcome' \in Outcome /\ verdict' = v
           /\ outcome'.stage = "execution" /\ outcome'.status # "none"
           /\ outcome'.status \in {"cancelled", "timed_out"} <=> v = "stopped"
           /\ outcome'.status = "completed" <=> v = "completed"
           /\ outcome'.status = "timed_out" => timedOut
  <1> DEFINE status == CASE v = "completed" -> "completed" [] v = "failed" -> "failed"
                         [] v = "stopped" -> Interrupted
  <1>1. /\ status \in {"completed", "failed", "cancelled", "timed_out"}
        /\ status \in {"cancelled", "timed_out"} <=> v = "stopped"
        /\ status = "completed" <=> v = "completed"
        /\ status = "timed_out" => timedOut
    BY DEF Interrupted
  <1> HIDE DEF status
  <1>2. outcome' = [status |-> status, stage |-> "execution", cleanup |-> "none"] /\ verdict' = v
    BY DEF EndsAs, status
  <1>3. [status |-> status, stage |-> "execution", cleanup |-> "none"] \in Outcome
    BY <1>1 DEF Outcome
  <1>4. QED
    BY <1>1, <1>2, <1>3

LEMMA RunnerKeeps ==
    ASSUME WorkerInv, Runner
    PROVE  /\ UNCHANGED <<steps, bootstrap, aborted, timedOut, known, browser, provider>>
           /\ pc \in {"bootstrap", "top", "phase"} /\ known
  BY DEF Runner, Opened, OpeningEnds, LeavesOut, Begins, Cancelled, PhaseDone, PhaseFails, Outside,
         Rigid, Signals, WorkerInv, SessionKnown

\* A runner's step: it goes on, ends without deciding, or decides the step.
LEMMA RunnerMoves ==
    ASSUME WorkerInv, Runner
    PROVE  \/ /\ UNCHANGED <<at, results, asserted, failing, verdict, outcome>> /\ ~aborted
              /\ \/ pc = "bootstrap" /\ pc' = "top"
                 \/ pc \in {"top", "phase"} /\ pc' = "phase" /\ CarriedOut(steps, at)
           \/ /\ UNCHANGED <<at, results, asserted, failing>>
              /\ \/ aborted /\ EndsAs("stopped")
                 \/ ~aborted /\ pc = "bootstrap" /\ EndsAs("failed")
           \/ LeavesOut /\ ~aborted /\ GoesOnOrCompletes
           \/ PhaseDone /\ Decided("passed") /\ ~aborted /\ GoesOnOrCompletes
           \/ PhaseFails /\ ~aborted /\ EndsAs("failed")
  <1>1. CASE Opened
    BY <1>1 DEF Opened, runVars
  <1>2. CASE OpeningEnds
    <2>1. EndsAs(IF aborted THEN "stopped" ELSE "failed")
      BY <1>2, ReturnsFacts DEF OpeningEnds
    <2>2. QED
      BY <1>2, <2>1 DEF OpeningEnds, runVars, WorkerInv, Typed
  <1>3. CASE LeavesOut
    BY <1>3, ReturnsFacts DEF LeavesOut, GoesOn, GoesOnOrCompletes
  <1>4. CASE Begins
    BY <1>4 DEF Begins, runVars
  <1>5. CASE Cancelled
    BY <1>5, ReturnsFacts DEF Cancelled, runVars
  <1>6. CASE PhaseDone
    <2>1. CASE Decided("passed") /\ GoesOn
      BY <1>6, <2>1, ReturnsFacts DEF PhaseDone, LooksAtSignal, GoesOn, GoesOnOrCompletes
    <2>2. CASE UNCHANGED <<pc, at, results, asserted, verdict, outcome>>
      BY <1>6, <2>2 DEF PhaseDone, LooksAtSignal, WorkerInv, Place
    <2>3. QED
      BY <1>6, <2>1, <2>2 DEF PhaseDone
  <1>7. CASE PhaseFails
    BY <1>7, ReturnsFacts DEF PhaseFails
  <1>8. QED
    BY <1>1, <1>2, <1>3, <1>4, <1>5, <1>6, <1>7 DEF Runner

\* Deciding a step counts it, and its assertion if it is one.
LEMMA DecidedFacts ==
    ASSUME WorkerInv, NEW result \in {"passed", "skipped"}, Decided(result),
           at <= Len(steps), (CarriedOut(steps, at) <=> result = "passed"),
           steps' = steps, ~failing, failing' = failing,
           asserted' = IF result = "passed" /\ steps[at].kind = "assertion"
                       THEN Append(asserted, TRUE) ELSE asserted
    PROVE  /\ at' = at + 1 /\ at' \in 1 .. Len(steps) + 1
           /\ results' \in Seq({"passed", "skipped"}) /\ Len(results') = at' - 1
           /\ asserted' \in Seq(BOOLEAN) /\ Tally'
  <1>1. /\ at \in 1 .. Len(steps) /\ Len(steps) \in Nat /\ at' = at + 1
        /\ results' = Append(results, result) /\ Len(results) = at - 1
        /\ results \in Seq({"passed", "skipped"}) /\ asserted \in Seq(BOOLEAN)
    BY DEF Decided, WorkerInv, Typed, Place
  <1>2. /\ results' \in Seq({"passed", "skipped"}) /\ Len(results') = at
        /\ \A i \in 1 .. at : results'[i] = IF i < at THEN results[i] ELSE result
    BY <1>1
  <1>3. /\ asserted' \in Seq(BOOLEAN)
        /\ Len(asserted') = Len(asserted)
                             + IF result = "passed" /\ steps[at].kind = "assertion" THEN 1 ELSE 0
    <2>1. CASE result = "passed" /\ steps[at].kind = "assertion"
      <3>1. asserted' = Append(asserted, TRUE)
        BY <2>1, <1>1
      <3>2. QED
        BY <2>1, <3>1, <1>1, AssertedFacts
    <2>2. CASE ~(result = "passed" /\ steps[at].kind = "assertion")
      <3>1. asserted' = asserted
        BY <2>2, <1>1
      <3>2. asserted \in Seq(BOOLEAN) /\ Len(asserted) \in Nat
        BY <1>1
      <3>3. asserted' \in Seq(BOOLEAN) /\ Len(asserted') = Len(asserted)
        BY <3>1, <3>2, Zenon
      <3>4. Len(asserted) = Len(asserted) + 0
        BY <3>2
      <3>5. QED
        BY <2>2, <3>3, <3>4, Zenon
    <2>3. QED
      BY <2>1, <2>2
  <1>4. \A i \in 1 .. Len(results') : (CarriedOut(steps, i) <=> results'[i] = "passed")
    <2>1. \A i \in 1 .. at - 1 : (CarriedOut(steps, i) <=> results[i] = "passed")
      BY <1>1 DEF WorkerInv, Tally
    <2>2. QED
      BY <1>1, <1>2, <2>1
  <1>5. Assertions(at) = Assertions(at - 1) + IF at \in Counted(at) THEN 1 ELSE 0
    <2>1. at - 1 \in Nat /\ (at - 1) + 1 = at
      BY <1>1
    <2>2. QED
      BY <2>1, CountFacts
  <1>6. at \in Counted(at) <=> result = "passed" /\ steps[at].kind = "assertion"
    BY <1>1 DEF Counted
  <1>7. Len(asserted) = Assertions(at - 1)
    <2>1. Assertions(at - 1) \in Nat
      <3>1. at - 1 \in Nat
        BY <1>1
      <3>2. QED
        BY <3>1, CountFacts
    <2>2. QED
      BY <2>1, <1>1 DEF WorkerInv, Tally
  <1>8. Len(asserted') = Len(asserted) + IF at \in Counted(at) THEN 1 ELSE 0
    BY <1>3, <1>6
  <1>9. Len(asserted') = Assertions(at)
    BY <1>5, <1>7, <1>8
  <1>10. \A n : Assertions(n)' = Assertions(n)
    BY DEF Assertions
  <1>11. \A i \in 1 .. Len(asserted') : asserted'[i]
    <2>1. \A i \in 1 .. Len(asserted) : asserted[i]
      BY DEF WorkerInv, Tally
    <2>2. CASE asserted' = Append(asserted, TRUE)
      BY <1>1, <2>1, <2>2, AssertedFacts
    <2>3. CASE asserted' = asserted
      BY <2>1, <2>3
    <2>4. QED
      BY <2>2, <2>3
  <1>12. Assertions(Len(results))' = Assertions(at)
    BY <1>2, <1>10
  <1>13. Tally'
    BY <1>4, <1>9, <1>11, <1>12 DEF Tally
  <1>14. at' \in 1 .. Len(steps) + 1 /\ Len(results') = at' - 1
    BY <1>1, <1>2
  <1>15. QED
    BY <1>1, <1>2, <1>3, <1>13, <1>14

\* The reached assertion that does not match is the last one.
LEMMA FailedFacts ==
    ASSUME WorkerInv, PhaseFails
    PROVE  /\ asserted' \in Seq(BOOLEAN) /\ Tally' /\ failing' = TRUE
           /\ UNCHANGED <<at, results>> /\ at <= Len(steps)
  <1>1. /\ failing' = TRUE /\ ~failing /\ UNCHANGED <<steps, at, results>> /\ at <= Len(steps)
        /\ asserted' = IF steps[at].kind = "assertion" THEN Append(asserted, FALSE) ELSE asserted
        /\ asserted \in Seq(BOOLEAN)
    BY DEF PhaseFails, Outside, Rigid, WorkerInv, Typed, Place
  <1>2. /\ asserted' \in Seq(BOOLEAN)
        /\ Len(asserted') = Len(asserted) + IF steps[at].kind = "assertion" THEN 1 ELSE 0
    <2>1. CASE steps[at].kind = "assertion"
      <3>1. asserted' = Append(asserted, FALSE)
        BY <2>1, <1>1
      <3>2. QED
        BY <2>1, <3>1, <1>1, AssertedFacts
    <2>2. CASE ~(steps[at].kind = "assertion")
      <3>1. asserted' = asserted
        BY <2>2, <1>1
      <3>2. asserted \in Seq(BOOLEAN) /\ Len(asserted) \in Nat
        BY <1>1
      <3>3. asserted' \in Seq(BOOLEAN) /\ Len(asserted') = Len(asserted)
        BY <3>1, <3>2, Zenon
      <3>4. Len(asserted) = Len(asserted) + 0
        BY <3>2
      <3>5. QED
        BY <2>2, <3>3, <3>4, Zenon
    <2>3. QED
      BY <2>1, <2>2
  <1>3. Assertions(Len(results))' = Assertions(Len(results))
    BY <1>1 DEF Assertions
  <1>4. Len(asserted) = Assertions(Len(results)) /\ \A i \in 1 .. Len(asserted) : asserted[i]
    <2>1. Assertions(Len(results)) \in Nat
      BY CountFacts DEF WorkerInv, Typed
    <2>2. QED
      BY <2>1, <1>1 DEF WorkerInv, Tally
  <1>5. Len(asserted') = Len(asserted) + IF steps[at].kind = "assertion" THEN 1 ELSE 0
    BY <1>2
  <1>6. \A i \in 1 .. Len(asserted') : ~asserted'[i] => i = Len(asserted')
    <2>1. CASE asserted' = Append(asserted, FALSE)
      BY <1>1, <1>4, <2>1, AssertedFacts
    <2>2. CASE asserted' = asserted
      BY <1>4, <2>2
    <2>3. QED
      BY <1>1, <2>1, <2>2
  <1>7. \A i \in 1 .. Len(results') : (CarriedOut(steps', i) <=> results'[i] = "passed")
    BY <1>1 DEF WorkerInv, Tally
  <1>8. Tally'
    BY <1>1, <1>3, <1>4, <1>5, <1>6, <1>7 DEF Tally
  <1>9. QED
    BY <1>1, <1>2, <1>8

\* What an end or a next step means for the rest of the invariant.
LEMMA RunnerEnds ==
    ASSUME WorkerInv, Runner, NEW v \in {"completed", "failed", "stopped"}, EndsAs(v),
           (v = "stopped") = aborted, v = "completed" => at' = Len(steps) + 1,
           at' \in 1 .. Len(steps) + 1, Len(results') = at' - 1, failing' => at' <= Len(steps),
           failing' \in BOOLEAN, Tally',
           results' \in Seq({"passed", "skipped"}), asserted' \in Seq(BOOLEAN)
    PROVE  WorkerInv'
  <1>1. /\ outcome' \in Outcome /\ verdict' = v /\ pc' = "capture"
        /\ outcome'.stage = "execution"
        /\ outcome'.status \in {"cancelled", "timed_out"} <=> v = "stopped"
        /\ outcome'.status = "completed" <=> v = "completed"
        /\ outcome'.status = "timed_out" => timedOut
    BY EndsFacts DEF WorkerInv, Typed, EndsAs
  <1>2. /\ UNCHANGED <<steps, bootstrap, aborted, timedOut, known, browser, provider>> /\ known
    BY RunnerKeeps
  <1>3. Typed' /\ Place'
    BY <1>1, <1>2 DEF WorkerInv, Typed, Place
  <1>4. Settled'
    BY <1>1, <1>2 DEF Settled
  <1>5. SessionKnown'
    BY <1>1, <1>2 DEF SessionKnown, CleanupIsTrue
  <1>6. QED
    BY <1>3, <1>4, <1>5 DEF WorkerInv

LEMMA RunnerContinues ==
    ASSUME WorkerInv, Runner, pc' \in {"top", "phase"}, UNCHANGED <<verdict, outcome, failing>>,
           at' \in 1 .. Len(steps), Len(results') = at' - 1, Tally',
           pc' = "phase" => CarriedOut(steps, at'),
           results' \in Seq({"passed", "skipped"}), asserted' \in Seq(BOOLEAN)
    PROVE  WorkerInv'
  <1>1. /\ UNCHANGED <<steps, bootstrap, aborted, timedOut, known, browser, provider>> /\ known
        /\ pc \in {"bootstrap", "top", "phase"}
    BY RunnerKeeps
  <1>2. verdict' = "open" /\ ~failing' /\ outcome'.status = "none" /\ Len(steps) \in Nat
    BY <1>1 DEF WorkerInv, Place, Typed
  <1>3. Typed'
    BY <1>1, <1>2 DEF WorkerInv, Typed
  <1>4. Place' /\ Settled' /\ SessionKnown'
    BY <1>1, <1>2 DEF Place, Settled, SessionKnown, CleanupIsTrue
  <1>5. QED
    BY <1>3, <1>4 DEF WorkerInv

LEMMA RunnerStep ==
    ASSUME WorkerInv, Runner
    PROVE  WorkerInv'
  <1> USE RunnerKeeps
  <1>1. /\ Len(results) = at - 1 /\ at \in 1 .. Len(steps) + 1 /\ Len(steps) \in Nat /\ ~failing
        /\ results \in Seq({"passed", "skipped"}) /\ asserted \in Seq(BOOLEAN) /\ Tally
        /\ pc = "bootstrap" => at = 1 /\ Len(steps) > 0
        /\ pc \in {"top", "phase"} => at <= Len(steps)
    BY DEF WorkerInv, Typed, Place
  <1>2. ASSUME UNCHANGED <<at, results, asserted, failing>> PROVE Tally'
    <2>1. UNCHANGED <<steps, at, results, asserted, failing>>
      BY <1>2
    <2>2. QED
      BY <2>1 DEF WorkerInv, Tally, Assertions
  <1>3. CASE /\ UNCHANGED <<at, results, asserted, failing, verdict, outcome>> /\ ~aborted
             /\ \/ pc = "bootstrap" /\ pc' = "top"
                \/ pc \in {"top", "phase"} /\ pc' = "phase" /\ CarriedOut(steps, at)
    BY <1>1, <1>2, <1>3, RunnerContinues
  <1>4. CASE /\ UNCHANGED <<at, results, asserted, failing>>
             /\ \/ aborted /\ EndsAs("stopped")
                \/ ~aborted /\ pc = "bootstrap" /\ EndsAs("failed")
    BY <1>1, <1>2, <1>4, RunnerEnds DEF WorkerInv, Typed
  <1>5. CASE (LeavesOut \/ (PhaseDone /\ Decided("passed"))) /\ ~aborted /\ GoesOnOrCompletes
    <2>1. /\ at' = at + 1 /\ at' \in 1 .. Len(steps) + 1
          /\ results' \in Seq({"passed", "skipped"}) /\ Len(results') = at' - 1
          /\ asserted' \in Seq(BOOLEAN) /\ Tally' /\ failing' = failing
      <3>1. CASE LeavesOut
        <4>1. ~CarriedOut(steps, at) /\ Decided("skipped") /\ UNCHANGED <<asserted, failing>>
              /\ pc = "top"
          BY <3>1 DEF LeavesOut
        <4>2. QED
          BY <4>1, <1>1, DecidedFacts
      <3>2. CASE PhaseDone /\ Decided("passed")
        <4>1. CarriedOut(steps, at) /\ pc = "phase"
          BY <3>2 DEF PhaseDone, WorkerInv, Place
        <4>2. failing' = failing
          BY <3>2 DEF PhaseDone
        <4>3. asserted' = IF steps[at].kind = "assertion" THEN Append(asserted, TRUE) ELSE asserted
          <5>1. at' # at
            BY <3>2, <1>1 DEF Decided
          <5>2. QED
            BY <3>2, <5>1 DEF PhaseDone
        <4>4. QED
          BY <3>2, <4>1, <4>2, <4>3, <1>1, DecidedFacts
      <3>3. QED
        BY <1>5, <3>1, <3>2
    <2>2. CASE at = Len(steps) /\ EndsAs("completed")
      BY <1>1, <1>5, <2>1, <2>2, RunnerEnds DEF WorkerInv, Typed
    <2>3. CASE at # Len(steps) /\ pc' = "top" /\ UNCHANGED <<verdict, outcome>>
      <3>1. at <= Len(steps)
        BY <1>1, <1>5 DEF LeavesOut, PhaseDone
      <3>2. at' \in 1 .. Len(steps)
        BY <1>1, <2>1, <2>3, <3>1
      <3>3. QED
        BY <2>1, <2>3, <3>2, RunnerContinues
    <2>4. QED
      BY <1>5, <2>2, <2>3 DEF GoesOnOrCompletes
  <1>6. CASE PhaseFails /\ ~aborted /\ EndsAs("failed")
    <2>1. /\ asserted' \in Seq(BOOLEAN) /\ Tally' /\ failing' = TRUE
          /\ UNCHANGED <<at, results>> /\ at <= Len(steps)
      BY <1>6, FailedFacts
    <2>2. QED
      BY <1>1, <1>6, <2>1, RunnerEnds DEF WorkerInv, Typed
  <1>7. CASE LeavesOut /\ ~aborted /\ GoesOnOrCompletes
    BY <1>5, <1>7
  <1>8. CASE PhaseDone /\ Decided("passed") /\ ~aborted /\ GoesOnOrCompletes
    BY <1>5, <1>8
  <1>9. QED
    BY <1>3, <1>4, <1>6, <1>7, <1>8, RunnerMoves

-----------------------------------------------------------------------------
(* The end *)

LEMMA EndStep ==
    ASSUME WorkerInv, CaptureEnds \/ Cleanup \/ UNCHANGED vars
    PROVE  WorkerInv'
  <1>1. UNCHANGED <<steps, bootstrap, aborted, timedOut, known, browser, at, results, asserted,
                    failing, verdict>>
    BY DEF CaptureEnds, Cleanup, vars, runVars, Outside, Rigid, Signals
  <1>2. Tally'
    BY <1>1 DEF WorkerInv, Tally, Assertions
  <1>3. CASE CaptureEnds \/ UNCHANGED vars
    <2>1. /\ outcome' = outcome /\ provider' = provider
          /\ pc' = pc \/ (pc = "capture" /\ pc' = "cleanup")
      BY <1>3 DEF CaptureEnds, vars, Outside
    <2>2. Typed' /\ Place' /\ Settled' /\ SessionKnown'
      BY <1>1, <2>1 DEF WorkerInv, Typed, Place, Settled, SessionKnown, CleanupIsTrue
    <2>3. QED
      BY <1>2, <2>2 DEF WorkerInv
  <1>4. CASE Cleanup
    <2>1. PICK closed, released \in BOOLEAN :
            /\ known \/ ~released
            /\ outcome' = [outcome EXCEPT !.cleanup = CleanupStatus(closed, released)]
            /\ provider' = IF released THEN "gone" ELSE provider
      BY <1>4 DEF Cleanup
    <2>2. pc = "cleanup" /\ pc' = "done"
      BY <1>4 DEF Cleanup
    <2>3. CleanupStatus(closed, released) \in {"not_started", "completed", "incomplete"}
      BY DEF CleanupStatus
    <2>4. /\ outcome' \in Outcome /\ outcome'.status = outcome.status /\ outcome'.stage = outcome.stage
          /\ outcome'.cleanup = CleanupStatus(closed, released)
      BY <2>1, <2>3 DEF WorkerInv, Typed, Outcome
    <2>5. Typed' /\ Place' /\ Settled'
      BY <1>1, <2>1, <2>2, <2>4 DEF WorkerInv, Typed, Place, Settled
    <2>6. provider' = "running" => ~released
      BY <2>1
    <2>7. SessionKnown'
      BY <1>1, <2>2, <2>4, <2>6 DEF WorkerInv, SessionKnown, CleanupIsTrue, CleanupStatus
    <2>8. QED
      BY <1>2, <2>5, <2>7 DEF WorkerInv
  <1>5. QED
    BY <1>3, <1>4

LEMMA WorkerInvHolds == Spec => []WorkerInv
  <1>1. WorkerInv /\ [Next]_vars => WorkerInv'
    BY SignalStep, ProvisionStep, RunnerStep, EndStep DEF Next, Worker, Reply, Provisions
  <1>2. QED
    BY InitInv, <1>1, PTL DEF Spec

\* Wherever a run is cancelled or timed out and whatever fails, the outcome the
\* worker returns agrees with what was decided, aborted and asserted (run, runStep).
THEOREM OutcomesAgree == Spec => []OutcomeAgrees
  <1>1. WorkerInv => OutcomeAgrees
    <2> SUFFICES ASSUME WorkerInv PROVE OutcomeAgrees
      OBVIOUS
    <2>1. \A i \in 1 .. Len(steps) : CarriedOut(steps, i) \in BOOLEAN
      BY DEF WorkerInv, Typed, CarriedOut, Step
    <2>2. outcome.status = "completed" =>
            Len(results) = Len(steps) /\ \A i \in 1 .. Len(steps) :
                                           CarriedOut(steps, i) = (results[i] = "passed")
      BY <2>1 DEF WorkerInv, Typed, Place, Tally, Settled
    <2>3. QED
      BY <2>2 DEF WorkerInv, Tally, Settled, OutcomeAgrees
  <1>2. QED
    BY <1>1, WorkerInvHolds, PTL

\* No outcome calls a session cleaned up that is left at the provider
\* (releaseSession, cleanupStatus).
THEOREM CleanupsAreTrue == Spec => []CleanupIsTrue
  <1>1. WorkerInv => CleanupIsTrue
    BY DEF WorkerInv, SessionKnown
  <1>2. QED
    BY <1>1, WorkerInvHolds, PTL

-----------------------------------------------------------------------------
(* What the runner does is what StepSequence promises. *)

Planned == [i \in 1 .. Len(steps) |-> CarriedOut(steps, i)]
SequenceVars == <<Planned, results, failing, verdict>>

LEMMA PlannedFacts ==
    ASSUME steps \in Seq(Step)
    PROVE  /\ Planned \in Seq(BOOLEAN) /\ Len(Planned) = Len(steps)
           /\ \A i \in 1 .. Len(steps) : Planned[i] = CarriedOut(steps, i)
  <1>1. \A i \in 1 .. Len(steps) : CarriedOut(steps, i) \in BOOLEAN
    BY DEF CarriedOut, Step
  <1>2. Len(steps) \in Nat
    OBVIOUS
  <1>3. QED
    BY <1>1, <1>2 DEF Planned

LEMMA SequenceInit == Init => Sequence!Init
  <1> SUFFICES ASSUME Init PROVE Sequence!Init
    OBVIOUS
  <1>1. Planned \in Seq(BOOLEAN)
    BY InitInv, PlannedFacts DEF WorkerInv, Typed
  <1>2. results = <<>> /\ failing = FALSE /\ verdict = "open"
    BY DEF Init
  <1>3. QED
    BY <1>1, <1>2 DEF Sequence!Init, Planned

LEMMA SequenceStep ==
    ASSUME WorkerInv, [Next]_vars
    PROVE  Sequence!Next \/ UNCHANGED SequenceVars
  <1>1. CASE Cancel \/ TimesOut \/ Provisions \/ CaptureEnds \/ Cleanup \/ UNCHANGED vars
    <2>1. UNCHANGED <<steps, results, failing, verdict>>
      BY <1>1, ProvisionFacts DEF Cancel, TimesOut, CaptureEnds, Cleanup, vars, runVars, Outside, Rigid
    <2>2. QED
      BY <2>1 DEF SequenceVars, Planned
  <1>2. CASE Runner
    <2>1. steps' = steps /\ Planned' = Planned
      BY <1>2, RunnerKeeps DEF Planned
    <2>2. /\ Len(results) = at - 1 /\ at \in 1 .. Len(steps) + 1 /\ Len(steps) \in Nat
          /\ verdict = "open" /\ ~failing /\ Len(Planned) = Len(steps)
          /\ pc = "bootstrap" => results = <<>>
          /\ pc \in {"top", "phase"} => at <= Len(steps)
      BY <1>2, RunnerKeeps, PlannedFacts DEF WorkerInv, Typed, Place
    <2>3. Sequence!Turn = at
      BY <2>2 DEF Sequence!Turn
    <2>4. Sequence!Open <=> at <= Len(steps)
      BY <2>2, <2>3 DEF Sequence!Open, Planned
    <2>5. ASSUME NEW r, results' = Append(results, r), failing' = FALSE, GoesOnOrCompletes
          PROVE  Sequence!Decide(r)
      <3>1. verdict' = "open" \/ (at = Len(Planned) /\ verdict' = "completed")
        BY <2>2, <2>5 DEF GoesOnOrCompletes, EndsAs
      <3>2. QED
        BY <2>1, <2>3, <2>5, <3>1 DEF Sequence!Decide, Planned
    <2>6. failing = FALSE
      BY <2>2 DEF WorkerInv, Typed
    <2>7. CASE UNCHANGED <<at, results, asserted, failing, verdict, outcome>>
      BY <2>1, <2>7 DEF SequenceVars
    <2>8. CASE UNCHANGED <<at, results, asserted, failing>> /\ EndsAs("stopped")
      BY <2>1, <2>2, <2>8 DEF EndsAs, Sequence!Next, Sequence!Stop, Planned
    <2>9. CASE UNCHANGED <<at, results, asserted, failing>> /\ pc = "bootstrap" /\ EndsAs("failed")
      BY <2>1, <2>2, <2>9 DEF EndsAs, Sequence!Next, Sequence!NeverBegin, Planned
    <2>10. CASE LeavesOut /\ GoesOnOrCompletes
      <3>1. /\ results' = Append(results, "skipped") /\ failing' = FALSE /\ ~CarriedOut(steps, at)
            /\ pc = "top"
        BY <2>6, <2>10 DEF LeavesOut, Decided
      <3>2. at \in 1 .. Len(steps)
        BY <2>2, <3>1
      <3>3. Sequence!Open
        BY <2>4, <3>2
      <3>4. Sequence!Decide("skipped")
        BY <2>5, <2>10, <3>1
      <3>5. ~Planned[Sequence!Turn]
        BY <2>3, <3>1, <3>2, PlannedFacts DEF WorkerInv, Typed
      <3>6. QED
        BY <3>3, <3>4, <3>5 DEF Sequence!Next, Sequence!Leave, Planned
    <2>11. CASE PhaseDone /\ Decided("passed") /\ GoesOnOrCompletes
      <3>1. /\ results' = Append(results, "passed") /\ failing' = FALSE /\ CarriedOut(steps, at)
            /\ pc = "phase"
        BY <2>6, <2>11 DEF PhaseDone, Decided, WorkerInv, Place
      <3>2. at \in 1 .. Len(steps)
        BY <2>2, <3>1
      <3>3. Sequence!Open
        BY <2>4, <3>2
      <3>4. Sequence!Decide("passed")
        BY <2>5, <2>11, <3>1
      <3>5. Planned[Sequence!Turn]
        BY <2>3, <3>1, <3>2, PlannedFacts DEF WorkerInv, Typed
      <3>6. QED
        BY <3>3, <3>4, <3>5 DEF Sequence!Next, Sequence!Pass, Planned
    <2>12. CASE PhaseFails /\ EndsAs("failed")
      <3>1. failing' = TRUE /\ UNCHANGED results /\ CarriedOut(steps, at) /\ pc = "phase"
            /\ verdict' = "failed"
        BY <2>12 DEF PhaseFails, EndsAs, WorkerInv, Place
      <3>2. at \in 1 .. Len(steps)
        BY <2>2, <3>1
      <3>3. Planned[Sequence!Turn] /\ Sequence!Open
        BY <2>3, <2>4, <3>1, <3>2, PlannedFacts DEF WorkerInv, Typed
      <3>4. QED
        BY <2>1, <3>1, <3>3 DEF Sequence!Next, Sequence!Fail, Planned
    <2>13. QED
      BY <1>2, <2>7, <2>8, <2>9, <2>10, <2>11, <2>12, RunnerMoves
  <1>3. QED
    BY <1>1, <1>2 DEF Next, Reply, Worker, Provisions

\* The headless runner implements the promise the interactive one does, without a
\* user: it stops at the first step that fails (AutomationRunner.run).
THEOREM RunnerFollowsPlan == Spec => FollowsPlan
  <1>1. WorkerInv /\ [Next]_vars => [Sequence!Next]_SequenceVars
    BY SequenceStep
  <1>2. QED
    BY SequenceInit, <1>1, WorkerInvHolds, PTL
       DEF Spec, FollowsPlan, Sequence!Spec, SequenceVars, Planned

=============================================================================
