--------------------------- MODULE RecorderSessionMC ---------------------------
(* Small instances of RecorderSession for TLC. *)
EXTENDS RecorderSession, TLC

CONSTANTS c1, c2, h1, h2, r1, r2, r3, s1, s2

TwoSockets == {c1, c2}
OneSocket == {c1}
OneHandler == {h1}
TwoHandlers == {h1, h2}
Runtimes == {r1, r2, r3}
TwoRuntimes == {r1, r2}
Sessions == {s1, s2}
OneSession == {s1}

Symmetry == Permutations(Socket) \cup Permutations(Runtime) \cup Permutations(Session)
            \cup Permutations(Handler)
=============================================================================
