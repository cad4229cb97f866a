---------------------------- MODULE MCOnRampWebhook ----------------------------
(***************************************************************************)
(* Instances of OnRampWebhook for TLC: two deliveries, of one payment or of*)
(* two, and a pool that they can use up.                                   *)
(***************************************************************************)
EXTENDS OnRampWebhook, TLC

CONSTANTS w1, alice, bob, d1, d2, evt, evt2

OneOwner == w1 :> alice

Payment(id, user, n, status, ok) ==
  [externalId |-> id, user |-> user, amount |-> n, status |-> status,
   verified |-> ok]

(* A payment that completes, an earlier notice of it, a payment of nothing,*)
(* one of a user without a wallet, and one with a wrong secret.            *)
MCEvents ==
  {Payment(evt, alice, 3, "completed", TRUE),
   Payment(evt, alice, 3, "pending", TRUE),
   Payment(evt2, alice, 0, "completed", TRUE),
   Payment(evt2, bob, 1, "completed", TRUE),
   Payment(evt, alice, 3, "completed", FALSE)}

MCCalls    == {CreditCall(e) : e \in MCEvents}
=============================================================================
