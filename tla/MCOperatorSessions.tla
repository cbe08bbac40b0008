------------------------- MODULE MCOperatorSessions -------------------------
(* OperatorSessions for TLC. *)
EXTENDS OperatorSessions
=============================================================================
