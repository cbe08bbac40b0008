-------------------------- MODULE MCRunnerOperations --------------------------
(* RunnerOperations for TLC. *)
EXTENDS RunnerOperations
=============================================================================
