-------------------------- MODULE MCApprovalDispatch --------------------------
(* A small instance of ApprovalDispatch for TLC: a run with two findings and *)
(* one with a single finding.                                                *)
EXTENDS ApprovalDispatch, TLC

CONSTANTS r1, r2, f1, f2, f3

TwoFindingsAndOne == r1 :> {f1, f2} @@ r2 :> {f3}
=============================================================================
