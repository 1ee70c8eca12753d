---------------------------- MODULE RecordedChannel ----------------------------
(***************************************************************************)
(* What the recorder promises about the actions of a recording: they reach *)
(* the workflow in the order they were recorded, each once and none left   *)
(* out, or else the user is told that some may be missing.                 *)
(***************************************************************************)
EXTENDS Naturals, Sequences

VARIABLES
    recorded,   \* numbers of the actions recorded so far
    received,   \* those that became steps of the workflow
    told        \* whether the user was told that events could not be recovered

Init == recorded = <<>> /\ received = <<>> /\ told = FALSE

Record ==
    /\ recorded' = Append(recorded, Len(recorded) + 1)
    /\ UNCHANGED <<received, told>>

\* The next action arrives; once the user was told, a later one may.
Receive ==
    /\ \E n \in Len(received) + 1 .. Len(recorded) :
         /\ told \/ n = Len(received) + 1
         /\ \A i \in 1 .. Len(received) : received[i] < recorded[n]
         /\ received' = Append(received, recorded[n])
    /\ UNCHANGED <<recorded, told>>

Tell == told' = TRUE /\ UNCHANGED <<recorded, received>>

Next == Record \/ Receive \/ Tell

Spec == Init /\ [][Next]_<<recorded, received, told>>

=============================================================================
