---------------------------- MODULE MCWebhookAlerts ----------------------------
(***************************************************************************)
(* An instance of WebhookAlerts for TLC.                                   *)
(***************************************************************************)
EXTENDS WebhookAlerts

CONSTANTS n1, a1
=============================================================================
