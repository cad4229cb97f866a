-------------------------- MODULE WalletRefinement --------------------------
(***************************************************************************)
(* WalletService implements AbstractWallet.  The effect of a request is    *)
(* the commit of its transaction: the requests that have taken effect are  *)
(* the authors of the ledger entries, and the answers are the final values *)
(* of pc, every failure being the same to the abstract account.            *)
(***************************************************************************)
EXTENDS WalletService

AnswerOf(stage) ==
  IF stage \in Stages THEN "none"
  ELSE IF stage \in Failures THEN "failed"
  ELSE stage

WrittenBy == {p \in Requests : Written(p)}

Account == INSTANCE AbstractWallet WITH
  funds <- balance,
  applied <- WrittenBy,
  answered <- [p \in Requests |-> AnswerOf(pc[p])]

(* Every behaviour of the service is one of the abstract account: the key  *)
(* lookup, the row lock, the unique index and the rollbacks together make  *)
(* each credit take effect at most once and each answer true.              *)
ImplementsAccount == Account!ASpec
=============================================================================
