----------------------------- MODULE StepSequence -----------------------------
(***************************************************************************)
(* What a runner promises of the steps of a workflow: each is decided in   *)
(* its turn and once, a step that is not to be carried out is left out, no *)
(* other is left out unless its user says so after it failed, and a run is *)
(* complete only when every step is decided.                               *)
(***************************************************************************)
EXTENDS Naturals, Sequences

CONSTANT Interactive    \* whether a user decides about a failed step

VARIABLES
    plan,       \* of each step, whether it is to be carried out
    outcome,    \* what became of the steps decided so far
    failing,    \* whether the step whose turn it is has failed
    verdict     \* what became of the run

Init == /\ plan \in Seq(BOOLEAN) /\ outcome = <<>>
        /\ failing = FALSE /\ verdict = "open"

Turn == Len(outcome) + 1
Open == verdict = "open" /\ Turn <= Len(plan)

\* The last step may end the run, or leave that to Complete.
Decide(result) ==
    /\ outcome' = Append(outcome, result) /\ failing' = FALSE
    /\ verdict' \in {"open"} \cup (IF Turn = Len(plan) THEN {"completed"} ELSE {})
    /\ UNCHANGED plan

Pass == Open /\ plan[Turn] /\ Decide("passed")

Leave == /\ Open /\ (~plan[Turn] \/ (Interactive /\ failing))
         /\ Decide("skipped")

Fail == /\ Open /\ plan[Turn] /\ failing' = TRUE
        /\ verdict' = IF Interactive THEN "open" ELSE "failed"
        /\ UNCHANGED <<plan, outcome>>

TryAgain == /\ Open /\ Interactive /\ failing /\ failing' = FALSE
            /\ UNCHANGED <<plan, outcome, verdict>>

\* The first page does not open.
NeverBegin == /\ verdict = "open" /\ outcome = <<>> /\ verdict' = "failed"
              /\ UNCHANGED <<plan, outcome, failing>>

Complete == /\ verdict = "open" /\ Turn > Len(plan) /\ verdict' = "completed"
            /\ UNCHANGED <<plan, outcome, failing>>

Stop == /\ verdict = "open" /\ verdict' = "stopped"
        /\ UNCHANGED <<plan, outcome, failing>>

Next == Pass \/ Leave \/ Fail \/ TryAgain \/ NeverBegin \/ Complete \/ Stop

Spec == Init /\ [][Next]_<<plan, outcome, failing, verdict>>

=============================================================================
