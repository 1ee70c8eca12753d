---------------------------- MODULE RecorderPagesMC ----------------------------
(* Small instances of RecorderPages for TLC. *)
EXTENDS RecorderPages, TLC

CONSTANTS p1, p2, q1, q2

TwoPages == {p1, p2}
Requests == {q1, q2}

Symmetry == Permutations(Page) \cup Permutations(Request)
=============================================================================
