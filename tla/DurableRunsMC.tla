---------------------------- MODULE DurableRunsMC ----------------------------
(* Small instances of DurableRuns for TLC. *)
EXTENDS DurableRuns, TLC

CONSTANTS o1, o2, w1, w2

TwoOwners == {o1, o2}
OneOwner == {o1}
OneWorkflow == {w1}
TwoWorkflows == {w1, w2}

\* Trackers are interchangeable, and so are the workflows of a batch.
Symmetry == Permutations(Owner) \cup Permutations(Workflow)
=============================================================================
