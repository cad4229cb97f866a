--------------------------- MODULE AbstractWallet ---------------------------
(***************************************************************************)
(* What creditWallet and debitWallet promise, without keys in a table,     *)
(* row locks, transactions or crashes: each request takes effect at most   *)
(* once, at one instant between its arrival and its answer; a credit with  *)
(* a reference takes effect at most once for all its deliveries; no effect *)
(* makes the funds of a wallet negative; and an answer never lies about    *)
(* the effect.                                                             *)
(***************************************************************************)
EXTENDS Integers

CONSTANTS
  Wallets,    (* the accounts                                               *)
  OwnerOf,    (* the user an account belongs to                             *)
  Requests,   (* one element per request                                    *)
  Calls,      (* what a request may ask for                                 *)
  NoRef       (* the reference of a request that has none                   *)

VARIABLES
  call,       (* what each request asks for                                 *)
  funds,      (* the money in each account                                  *)
  applied,    (* the requests that have taken effect                        *)
  answered    (* the answer of each request, "none" before it has one       *)

avars == <<call, funds, applied, answered>>

Change(c) == IF c.op = "credit" THEN c.amount ELSE -c.amount

(* Two deliveries of one credit.                                           *)
SameCredit(c, d) ==
  /\ c.op = "credit" /\ d.op = "credit"
  /\ c.ref # NoRef
  /\ c.ref = d.ref /\ c.source = d.source /\ c.wallet = d.wallet

AInit ==
  /\ call \in [Requests -> Calls]
  /\ funds = [w \in Wallets |-> 0]
  /\ applied = {}
  /\ answered = [p \in Requests |-> "none"]

Apply(p) ==
  LET c == call[p]
  IN  /\ answered[p] = "none"
      /\ p \notin applied
      /\ \A q \in applied : ~SameCredit(c, call[q])
      /\ c.op = "debit" => c.user = OwnerOf[c.wallet]
      /\ c.op = "credit" => c.trusted
      /\ funds[c.wallet] + Change(c) >= 0
      /\ funds' = [funds EXCEPT ![c.wallet] = @ + Change(c)]
      /\ applied' = applied \cup {p}
      /\ UNCHANGED <<call, answered>>

(* "ok" needs the effect, of this request or of another delivery of it.    *)
Confirm(p) ==
  /\ answered[p] = "none"
  /\ p \in applied \/ \E q \in applied : SameCredit(call[p], call[q])
  /\ answered' = [answered EXCEPT ![p] = "ok"]
  /\ UNCHANGED <<call, funds, applied>>

(* A failure is final: the request has not taken effect and never will.    *)
Fail(p) ==
  /\ answered[p] = "none"
  /\ p \notin applied
  /\ answered' = [answered EXCEPT ![p] = "failed"]
  /\ UNCHANGED <<call, funds, applied>>

(* The caller hears nothing and knows nothing.                             *)
Vanish(p) ==
  /\ answered[p] = "none"
  /\ answered' = [answered EXCEPT ![p] = "unknown"]
  /\ UNCHANGED <<call, funds, applied>>

ANext == \E p \in Requests : Apply(p) \/ Confirm(p) \/ Fail(p) \/ Vanish(p)

ASpec == AInit /\ [][ANext]_avars
=============================================================================
