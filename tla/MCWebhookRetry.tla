---------------------------- MODULE MCWebhookRetry ----------------------------
(***************************************************************************)
(* Instances of WebhookRetry for TLC.                                      *)
(***************************************************************************)
EXTENDS WebhookRetry, TLC

CONSTANTS n1, n2, a1

InstanceSymmetry == Permutations(Instances)
=============================================================================
