-------------------------- MODULE MCReviewLifecycle --------------------------
(***************************************************************************)
(* Small instances of ReviewLifecycle for TLC.  The values of the          *)
(* constants are in the .cfg files; heads and dispatchers are model values *)
(* that the specification only compares, so permuting them is a symmetry   *)
(* of every run that checks no liveness property.                          *)
(***************************************************************************)
EXTENDS ReviewLifecycle, TLC

Symmetry == Permutations(Heads) \cup Permutations(Dispatchers)
=============================================================================
