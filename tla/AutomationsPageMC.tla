-------------------------- MODULE AutomationsPageMC --------------------------
(* A small instance of AutomationsPage for TLC. *)
EXTENDS AutomationsPage, TLC
=============================================================================
