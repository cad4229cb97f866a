---------------------------- MODULE MCApiRequests ----------------------------
(***************************************************************************)
(* An instance of ApiRequests for TLC: an administrator, a user and        *)
(* somebody without a token, all at one address; a window of two ticks.    *)
(***************************************************************************)
EXTENDS ApiRequests, TLC

CONSTANTS alice, bob, carol, office, r1, r2, r3

OneAddress == [u \in {alice, bob, carol} |-> office]
TokenRoles ==
  [u \in {alice, bob, carol} |-> IF u = alice THEN "ADMIN" ELSE "USER"]

(* Two lenient tiers and the strict one stand for all.                     *)
MCMaxRequests ==
  [tier \in {"AUTH", "WALLET_READ", "WALLET_WRITE", "TRANSACTION", "ONRAMP",
             "ADMIN_EMERGENCY"} |-> IF tier = "ADMIN_EMERGENCY" THEN 1 ELSE 2]

(* One handler of each kind: the others differ from these in their tier.   *)
OneOfEachKind ==
  {getAllWallets, getDLQStats, manualCredit,
   replayMissingWebhook, getMyWallet, debitWallet, signup,
   handleWebhook}

RequestSymmetry == Permutations(Requests)
=============================================================================
