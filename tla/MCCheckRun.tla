------------------------------ MODULE MCCheckRun ------------------------------
(* CheckRun for TLC. *)
EXTENDS CheckRun
=============================================================================
