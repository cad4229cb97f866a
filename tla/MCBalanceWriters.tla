--------------------------- MODULE MCBalanceWriters ---------------------------
(***************************************************************************)
(* Instances of BalanceWriters for TLC: one wallet, where writers meet; two*)
(* requests and two jobs; the credit is the same call for both requests.   *)
(***************************************************************************)
EXTENDS BalanceWriters, TLC

CONSTANTS w1, alice, bob, r1, r2, j1, j2, evt, tx, k1, a1

OneOwner == w1 :> alice

WriterCalls ==
  {[op |-> "credit", wallet |-> w1, amount |-> 3, type |-> "deposit",
    ref |-> evt, source |-> "webhook", user |-> alice, trusted |-> TRUE],
   [op |-> "debit", wallet |-> w1, amount |-> 2, type |-> "withdrawal",
    ref |-> tx, source |-> "user", user |-> alice, trusted |-> TRUE]}

Manual(n) == [kind |-> "manual", wallet |-> w1, amount |-> n]
Transact(n, user, key) ==
  [kind |-> "transact", wallet |-> w1, amount |-> n, user |-> user, key |-> key]
Replay == [kind |-> "replay", wallet |-> w1, amount |-> 2, alert |-> a1]
Fix    == [kind |-> "fix", wallet |-> w1]

TransactTasks == {Transact(2, alice, k1), Transact(1, alice, NoTxKey),
                  Transact(1, bob, k1)}
AllTasks      == {Manual(2), Manual(0), Replay, Fix} \cup TransactTasks

WriterSymmetry == Permutations(Requests) \cup Permutations(Jobs)
=============================================================================
