---------------------------- MODULE OnRampWebhook ----------------------------
(***************************************************************************)
(* OnRampService.processEvent around creditWallet.  A delivery of a payment*)
(* webhook opens a transaction, looks the provider's event id up, calls    *)
(* creditWallet and records the id.  creditWallet does not join that       *)
(* transaction: it runs on connections of its own, commits on its own and  *)
(* goes on when the outer transaction has timed out.                       *)
(*                                                                         *)
(* A delivery is a request of WalletService; its credit call runs while    *)
(* the delivery is at "credit".  All connections come from the one pool of *)
(* PrismaService, whose clients wait for a free one without a timeout.     *)
(***************************************************************************)
EXTENDS WalletService, FiniteSets

CONSTANTS
  Events,     (* what a delivery may carry, a subset of Event               *)
  PoolSize    (* pg.Pool's max                                              *)

Event == [externalId : References, user : Users, amount : Int,
          status : {"completed", "pending", "failed", "refunded"},
          verified : BOOLEAN]

HasWallet(u) == \E w \in Wallets : OwnerOf[w] = u

WalletFor(u) ==
  IF HasWallet(u) THEN CHOOSE w \in Wallets : OwnerOf[w] = u
  ELSE CHOOSE w \in Wallets : TRUE

(* The argument processEvent passes to creditWallet.                       *)
CreditCall(e) ==
  [op |-> "credit", wallet |-> WalletFor(e.user), amount |-> e.amount,
   type |-> "deposit", ref |-> e.externalId, source |-> "webhook",
   user |-> e.user, trusted |-> TRUE]

(* Its wallets come from a lookup, so they exist.                          *)
ASSUME WalletsAssumption == Created = Wallets
ASSUME EventsAssumption ==
  /\ Events \subseteq Event
  /\ {CreditCall(e) : e \in Events} \subseteq Calls
(* The deliveries of one event id are about one payment of one user.       *)
ASSUME PaymentsAssumption ==
  \A e, f \in Events :
    (e.externalId = f.externalId /\ HasWallet(e.user) /\ HasWallet(f.user))
      => WalletFor(e.user) = WalletFor(f.user)
ASSUME PoolAssumption == PoolSize \in Nat \ {0}

VARIABLES
  event,          (* what each delivery carries                             *)
  opc,            (* how far a delivery is, or its answer                   *)
  conns,          (* connections in use: <<d, "outer">> and <<d, "inner">>  *)
  webhookEvents   (* WebhookEvent.externalId of the rows                    *)

ovars == <<vars, event, opc, conns, webhookEvents>>

DeliveryOpen == {"new", "lookup", "credit"}
DeliveryAnswers == {"ok", "failed", "unknown"}

-----------------------------------------------------------------------------
Outer(d) == <<d, "outer">>
Inner(d) == <<d, "inner">>
Free     == Cardinality(conns) < PoolSize

(* verifyWebhookSecret, then isCreditableEvent.                            *)
Creditable(e) == e.verified /\ e.status = "completed"

OInit ==
  /\ event \in [Requests -> Events]
  /\ call = [d \in Requests |-> CreditCall(event[d])]
  /\ Init
  /\ opc = [d \in Requests |-> "new"]
  /\ conns = {}
  /\ webhookEvents = {}

(* The delivery ends: the outer transaction is over, and its connection    *)
(* goes back to the pool.                                                  *)
Finish(d, answer) ==
  /\ opc' = [opc EXCEPT ![d] = answer]
  /\ conns' = conns \ {Outer(d)}

RejectUnverified(d) ==
  /\ opc[d] = "new"
  /\ ~event[d].verified
  /\ Finish(d, "failed")
  /\ UNCHANGED <<vars, event, webhookEvents>>

(* A verified event that moves no money is acknowledged and forgotten.     *)
IgnoreStatus(d) ==
  /\ opc[d] = "new"
  /\ event[d].verified
  /\ event[d].status # "completed"
  /\ Finish(d, "ok")
  /\ UNCHANGED <<vars, event, webhookEvents>>

OpenTransaction(d) ==
  /\ opc[d] = "new"
  /\ Creditable(event[d])
  /\ Free
  /\ conns' = conns \cup {Outer(d)}
  /\ opc' = [opc EXCEPT ![d] = "lookup"]
  /\ UNCHANGED <<vars, event, webhookEvents>>

(* No connection within maxWait.                                           *)
OpenTimesOut(d) ==
  /\ opc[d] = "new"
  /\ Creditable(event[d])
  /\ Finish(d, "failed")
  /\ UNCHANGED <<vars, event, webhookEvents>>

(* The event is recorded already, or the user has no wallet, or the credit *)
(* is tried.                                                               *)
AlreadyProcessed(d) ==
  /\ opc[d] = "lookup"
  /\ event[d].externalId \in webhookEvents
  /\ Finish(d, "ok")
  /\ UNCHANGED <<vars, event, webhookEvents>>

NoWallet(d) ==
  /\ opc[d] = "lookup"
  /\ event[d].externalId \notin webhookEvents
  /\ ~HasWallet(event[d].user)
  /\ Finish(d, "failed")
  /\ UNCHANGED <<vars, event, webhookEvents>>

(* Slip: the event is recorded, and committed, ahead of the credit.        *)
RecordBeforeCredit(d) ==
  /\ opc[d] = "lookup"
  /\ event[d].externalId \notin webhookEvents
  /\ HasWallet(event[d].user)
  /\ webhookEvents' = webhookEvents \cup {event[d].externalId}
  /\ opc' = [opc EXCEPT ![d] = "credit"]
  /\ UNCHANGED <<vars, event, conns>>

StartCredit(d) ==
  /\ opc[d] = "lookup"
  /\ event[d].externalId \notin webhookEvents
  /\ HasWallet(event[d].user)
  /\ opc' = [opc EXCEPT ![d] = "credit"]
  /\ UNCHANGED <<vars, event, conns, webhookEvents>>

(* The steps of creditWallet outside its transaction need a connection for *)
(* a moment.                                                               *)
CreditLookup(d) ==
  /\ opc[d] = "credit"
  /\ Free
  /\ AnswerDuplicate(d) \/ RejectArguments(d) \/ CheckIdempotency(d)
  /\ UNCHANGED <<event, opc, conns, webhookEvents>>

CreditBegin(d) ==
  /\ opc[d] = "credit"
  /\ pc[d] = "begin"
  /\ Inner(d) \notin conns
  /\ Free
  /\ conns' = conns \cup {Inner(d)}
  /\ UNCHANGED <<vars, event, opc, webhookEvents>>

CreditLock(d) ==
  /\ opc[d] = "credit"
  /\ Inner(d) \in conns
  /\ LockWallet(d)
  /\ UNCHANGED <<event, opc, conns, webhookEvents>>

CreditEnd(d) ==
  /\ opc[d] = "credit"
  /\ Inner(d) \in conns
  /\ LockWalletFails(d) \/ Commit(d) \/ Conflict(d)
  /\ conns' = conns \ {Inner(d)}
  /\ UNCHANGED <<event, opc, webhookEvents>>

CreditRespond(d) ==
  /\ opc[d] = "credit"
  /\ Respond(d)
  /\ UNCHANGED <<event, opc, conns, webhookEvents>>

(* Slip: a credit that timed out is tried again by the same delivery.      *)
CreditRetried(d) ==
  /\ opc[d] = "credit"
  /\ pc[d] \in {"begin", "locked"}
  /\ pc' = [pc EXCEPT ![d] = "new"]
  /\ rowLock' = Released(d)
  /\ conns' = conns \ {Inner(d)}
  /\ UNCHANGED <<call, balance, ledger, seen, event, opc, webhookEvents>>

(* The inner transaction gets no connection within maxWait or times out.   *)
CreditAbort(d) ==
  /\ opc[d] = "credit"
  /\ Abort(d)
  /\ conns' = conns \ {Inner(d)}
  /\ UNCHANGED <<event, opc, webhookEvents>>

(* creditWallet returned, the outer transaction is still open and the      *)
(* insert of the event id meets no other one: COMMIT.                      *)
Record(d) ==
  /\ opc[d] = "credit"
  /\ pc[d] = "ok"
  /\ Outer(d) \in conns
  /\ event[d].externalId \notin webhookEvents
  /\ webhookEvents' = webhookEvents \cup {event[d].externalId}
  /\ Finish(d, "ok")
  /\ UNCHANGED <<vars, event>>

(* The insert breaks the unique index, or the transaction is closed.       *)
RecordFails(d) ==
  /\ opc[d] = "credit"
  /\ pc[d] = "ok"
  /\ Outer(d) \notin conns \/ event[d].externalId \in webhookEvents
  /\ Finish(d, "failed")
  /\ UNCHANGED <<vars, event, webhookEvents>>

(* Slip: the error is logged and the webhook acknowledged.                 *)
CreditFailureAcknowledged(d) ==
  /\ opc[d] = "credit"
  /\ pc[d] \in Failures
  /\ Finish(d, "ok")
  /\ UNCHANGED <<vars, event, webhookEvents>>

(* creditWallet threw, and so does the transaction around it.              *)
CreditFailed(d) ==
  /\ opc[d] = "credit"
  /\ pc[d] \in Failures
  /\ Finish(d, "failed")
  /\ UNCHANGED <<vars, event, webhookEvents>>

(* Slip: the client of an expired transaction is not released.             *)
ExpireKeepsClient(d) ==
  /\ Outer(d) \in conns
  /\ opc' = [opc EXCEPT ![d] = IF @ = "lookup" THEN "failed" ELSE @]
  /\ UNCHANGED <<vars, event, conns, webhookEvents>>

(* The outer transaction is older than its timeout: Prisma rolls it back.  *)
(* The credit call knows nothing of it.                                    *)
Expire(d) ==
  /\ Outer(d) \in conns
  /\ conns' = conns \ {Outer(d)}
  /\ opc' = [opc EXCEPT ![d] = IF @ = "lookup" THEN "failed" ELSE @]
  /\ UNCHANGED <<vars, event, webhookEvents>>

DeliveryCrash(d) ==
  /\ opc[d] \in DeliveryOpen
  /\ opc' = [opc EXCEPT ![d] = "unknown"]
  /\ conns' = conns \ {Outer(d), Inner(d)}
  /\ \/ opc[d] = "credit" /\ Crash(d)
     \/ (opc[d] # "credit" \/ pc[d] \in Answers) /\ UNCHANGED vars
  /\ UNCHANGED <<event, webhookEvents>>

DeliveryStep(d) ==
  \/ RejectUnverified(d) \/ IgnoreStatus(d)
  \/ OpenTransaction(d)
  \/ AlreadyProcessed(d) \/ NoWallet(d) \/ StartCredit(d)
  \/ CreditLookup(d) \/ CreditBegin(d) \/ CreditLock(d)
  \/ CreditEnd(d) \/ CreditRespond(d)
  \/ Record(d) \/ RecordFails(d) \/ CreditFailed(d)

Delivered ==
  /\ \A d \in Requests : opc[d] \in DeliveryAnswers
  /\ UNCHANGED ovars

ONext ==
  \/ \E d \in Requests : \/ DeliveryStep(d)
                         \/ OpenTimesOut(d) \/ CreditAbort(d) \/ Expire(d)
                         \/ DeliveryCrash(d)
  \/ Delivered

OSpec == OInit /\ [][ONext]_ovars

(* The event loop runs what can run, the pool and PostgreSQL serve their   *)
(* waiters in turn, and Prisma's timer ends an outer transaction that      *)
(* stays open.  Nothing else is assumed to fail.                           *)
OFairSpec ==
  /\ OSpec
  /\ \A d \in Requests :
       /\ WF_ovars(DeliveryStep(d))
       /\ SF_ovars(OpenTransaction(d))
       /\ SF_ovars(CreditLookup(d))
       /\ SF_ovars(CreditBegin(d))
       /\ SF_ovars(CreditLock(d))
       /\ WF_ovars(Expire(d))
-----------------------------------------------------------------------------
(* The ledger entries that credit a payment.                               *)
CreditsOf(id) ==
  {p \in UNION {{w} \X DOMAIN ledger[w] : w \in Wallets} :
     event[ledger[p[1]][p[2]].by].externalId = id}

(* A payment is credited at most once, however often, in whatever order    *)
(* and however concurrently its webhook is delivered, and although the     *)
(* credit and the record of the event are two transactions.                *)
PaymentCreditedOnce ==
  \A id \in References : Cardinality(CreditsOf(id)) <= 1

(* The provider stops redelivering once it gets a 2xx: an acknowledged     *)
(* completed payment is in the ledger.                                     *)
AcknowledgedIsCredited ==
  \A d \in Requests :
    opc[d] = "ok" /\ Creditable(event[d]) => CreditsOf(event[d].externalId) # {}

(* A recorded event hides every later delivery, so it must not be recorded *)
(* ahead of its credit.                                                    *)
RecordedIsCredited == \A id \in webhookEvents : CreditsOf(id) # {}

(* The pool cannot deadlock for good: when the open deliveries hold every  *)
(* connection while their credits wait for one, the timeouts of the outer  *)
(* transactions free the pool, and every delivery ends.                    *)
EveryDeliveryEnds == \A d \in Requests : <>(opc[d] \in DeliveryAnswers)
=============================================================================
