--------------------------- MODULE MCWebhookIntake ---------------------------
(* WebhookIntake for TLC. *)
EXTENDS WebhookIntake
=============================================================================
