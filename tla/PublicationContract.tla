------------------------- MODULE PublicationContract -------------------------
(***************************************************************************)
(* What docs/security.md and docs/production-readiness.md promise about    *)
(* the publication of one approved review: it appears on the pull request  *)
(* at most once, and the publication is reported as done only when it is   *)
(* there.  A publication that is given up may still leave its review.      *)
(***************************************************************************)
EXTENDS Naturals

VARIABLES posted,     \* reviews on the pull request
          verdict     \* what the workflow was told

Init == posted = 0 /\ verdict = "running"

Post == posted = 0 /\ posted' = 1 /\ UNCHANGED verdict

Conclude ==
  /\ verdict = "running"
  /\ \/ verdict' = "published" /\ posted = 1
     \/ verdict' = "failed"
  /\ UNCHANGED posted

Next == Post \/ Conclude

Spec == Init /\ [][Next]_<<posted, verdict>>
=============================================================================
