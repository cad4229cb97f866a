--------------------------- MODULE MCWalletService ---------------------------
(***************************************************************************)
(* Instances of WalletService for TLC: one or two wallets, three requests, *)
(* a few calls that meet each other (the same key, the same wallet, more   *)
(* debits than funds, another user's wallet, an amount of zero, a credit   *)
(* that calls itself a withdrawal, a wallet that does not exist).          *)
(***************************************************************************)
EXTENDS WalletRefinement, TLC

CONSTANTS w1, w2, w3, alice, bob, r1, r2, r3, r4, evt, tx

MCOwnerOf == (w1 :> alice) @@ (w2 :> bob) @@ (w3 :> bob)
OneOwner  == w1 :> alice

Credit(w, n, t, ref, source, ok) ==
  [op |-> "credit", wallet |-> w, amount |-> n, type |-> t, ref |-> ref,
   source |-> source, user |-> alice, trusted |-> ok]

Debit(w, n, t, ref, user) ==
  [op |-> "debit", wallet |-> w, amount |-> n, type |-> t, ref |-> ref,
   source |-> "user", user |-> user, trusted |-> TRUE]

(* The calls of the safety runs.                                           *)
MCCalls ==
  {Credit(w1, 3, "deposit", evt, "webhook", TRUE),
   Credit(w1, 0, "deposit", evt, "webhook", TRUE),
   Credit(w1, 2, "transfer_in", NoRef, "admin", TRUE),
   Credit(w1, 2, "deposit", tx, "admin", FALSE),
   Debit(w1, 2, "trading", tx, alice),
   Debit(w1, 1, "withdrawal", NoRef, bob),
   Credit(w2, 1, "deposit", evt, "webhook", TRUE),
   Credit(w2, 1, "withdrawal", NoRef, "admin", TRUE),
   Credit(w3, 1, "transfer_in", NoRef, "admin", TRUE)}

(* The same call sent again.                                               *)
RetriedDebits == {Credit(w1, 3, "deposit", evt, "webhook", TRUE),
                  Debit(w1, 1, "withdrawal", tx, alice)}

(* The calls of the liveness runs.                                         *)
LiveCalls == {Credit(w1, 3, "deposit", evt, "webhook", TRUE),
              Debit(w1, 2, "withdrawal", tx, alice)}

(* "User double-click: Second request sees existing key -> no duplicate    *)
(* debit" (docs/DATA_INTEGRITY.md:186).                                    *)
DebitedOncePerKey ==
  \A w \in Wallets : \A i, j \in DOMAIN ledger[w] :
    LET c == call[ledger[w][i].by]
        d == call[ledger[w][j].by]
    IN  (c.op = "debit" /\ d.op = "debit" /\ c.ref # NoRef /\ KeyOf(c) = KeyOf(d))
          => i = j

(* Without faults: no transaction times out and nothing dies.              *)
CalmNext == (\E p \in Requests : Step(p)) \/ Quiescent
CalmSpec ==
  /\ Init /\ [][CalmNext]_vars
  /\ \A p \in Requests : WF_vars(Step(p)) /\ SF_vars(LockWallet(p))

(* "Credit wallet ... Update balance, Record ledger entry"                 *)
(* (wallet.service.ts:124-129): with no fault, a permitted credit is in    *)
(* the ledger in the end, by this delivery or by another one.              *)
PermittedCreditsLand ==
  \A p \in Requests :
    <>(call[p].op = "credit" /\ Permitted(call[p])
         => Written(p) \/ Stored(KeyOf(call[p])))

Symmetry == Permutations(Requests)
=============================================================================
