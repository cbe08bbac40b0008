------------------------- MODULE MCRepositoryPolicy -------------------------
(* Instances of RepositoryPolicy for TLC. *)
EXTENDS RepositoryPolicy

CONSTANTS r1, r2, s1, s2
=============================================================================
