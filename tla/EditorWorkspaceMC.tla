--------------------------- MODULE EditorWorkspaceMC ---------------------------
(* A small instance of EditorWorkspace for TLC. *)
EXTENDS EditorWorkspace

Bindings3 == {"recorded", "profile", "runtime"}
=============================================================================
