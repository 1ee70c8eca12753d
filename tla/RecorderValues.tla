----------------------------- MODULE RecorderValues -----------------------------
(* What the modules about the recorder share: the value of what is absent. *)

CONSTANT None  \* null, or undefined

=============================================================================
