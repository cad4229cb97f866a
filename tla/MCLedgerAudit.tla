---------------------------- MODULE MCLedgerAudit ----------------------------
(***************************************************************************)
(* Instances of LedgerAudit for TLC: a credit that keeps balance and       *)
(* ledger in step, a transaction that does not, one reader.                *)
(***************************************************************************)
EXTENDS LedgerAudit, TLC

CONSTANTS w1, w2, alice, bob, r1, r2, j1, g1, evt, k1

BothOwners == (w1 :> alice) @@ (w2 :> bob)
AsksW1     == g1 :> w1

(* One credit is enough for the audit and the reader to race with.         *)
CreditCalls ==
  {[op |-> "credit", wallet |-> w1, amount |-> 2, type |-> "deposit",
    ref |-> evt, source |-> "webhook", user |-> alice, trusted |-> TRUE]}

AuditTasks ==
  {[kind |-> "transact", wallet |-> w1, amount |-> 1, user |-> alice, key |-> k1],
   [kind |-> "manual", wallet |-> w1, amount |-> 1]}
=============================================================================
