----------------------------- MODULE MCWorkspace -----------------------------
(* Workspace for TLC. *)
EXTENDS Workspace
=============================================================================
