---------------------------- MODULE LedgerTotals ----------------------------
(***************************************************************************)
(* The totals WalletLedgerService computes over the entries of a wallet.   *)
(* The direction of an entry is read from its type, never from the sign of *)
(* the amount.                                                             *)
(***************************************************************************)
EXTENDS Lists

CreditTypes == {"deposit", "transfer_in"}
DebitTypes  == {"withdrawal", "transfer_out", "trading"}

(* aggregate({ where: { type: { in: types } }, _sum: { amount } }).        *)
Counted(e, types) == IF e.type \in types THEN e.amount ELSE 0

SumOfTypes(entries, types) ==
  SumOf([i \in DOMAIN entries |-> Counted(entries[i], types)])

getTotalCredits(entries) == SumOfTypes(entries, CreditTypes)
getTotalDebits(entries)  == SumOfTypes(entries, DebitTypes)

LedgerBalance(entries) == getTotalCredits(entries) - getTotalDebits(entries)
=============================================================================
