------------------------- MODULE OnRampWebhookProofs -------------------------
(***************************************************************************)
(* Theorems about OnRampWebhook, for any wallets, events, deliveries and   *)
(* pool.  The credits made by deliveries are behaviours of WalletService   *)
(* (WebhooksAreRequests), so what is proved of it holds here; what a       *)
(* delivery promises its provider follows from that and from the order of  *)
(* the credit and the record of the event (OInv).                          *)
(***************************************************************************)
EXTENDS OnRampWebhook, WalletServiceProofs, FiniteSetTheorems

(* What is known of the credits from WalletService.                        *)
CreditInv == TypeOK /\ EntriesInv /\ AnswersMatchLedger /\ CreditedOncePerKey

OTypes ==
  /\ event \in [Requests -> Events]
  /\ call = [d \in Requests |-> CreditCall(event[d])]
  /\ opc \in [Requests -> DeliveryOpen \cup DeliveryAnswers]
  /\ webhookEvents \subseteq References

(* Only payments of users with a wallet get as far as a credit.            *)
CreditedHaveWallet ==
  \A d \in Requests :
    pc[d] # "new" \/ opc[d] = "credit" => HasWallet(event[d].user)

OInv ==
  /\ OTypes
  /\ CreditedHaveWallet
  /\ RecordedIsCredited
  /\ AcknowledgedIsCredited

-----------------------------------------------------------------------------
(* Every step is one of a request, or none.                                *)
LEMMA StepsAreRequests == [ONext]_ovars => [Next]_vars
<1> SUFFICES ASSUME ONext PROVE [Next]_vars
  BY DEF ovars, vars
<1>1. ASSUME NEW d \in Requests, DeliveryStep(d)
      PROVE  Step(d) \/ UNCHANGED vars
  BY <1>1 DEF DeliveryStep, RejectUnverified, IgnoreStatus, OpenTransaction,
     AlreadyProcessed, NoWallet, StartCredit, CreditLookup, CreditBegin,
     CreditLock, CreditEnd, CreditRespond, Record, RecordFails, CreditFailed,
     Step
<1>2. ASSUME NEW d \in Requests,
             OpenTimesOut(d) \/ CreditAbort(d) \/ Expire(d) \/ DeliveryCrash(d)
      PROVE  Abort(d) \/ Crash(d) \/ UNCHANGED vars
  BY <1>2 DEF OpenTimesOut, CreditAbort, Expire, DeliveryCrash
<1>3. CASE Delivered
  BY <1>3 DEF Delivered, ovars
<1> QED
  BY <1>1, <1>2, <1>3 DEF ONext, Next

(* creditWallet called by processEvent is creditWallet: the transaction    *)
(* around it, the pool and its timeouts only order and end the calls.      *)
THEOREM WebhooksAreRequests == OSpec => Spec
<1>1. OInit => Init
  BY DEF OInit
<1> QED
  BY <1>1, StepsAreRequests, PTL DEF OSpec, Spec

(* What WalletService guarantees.                                          *)
LEMMA CreditsCorrect == OSpec => []CreditInv
BY WebhooksAreRequests, TypeCorrect, EntriesCorrect, AnswersAreTrue,
   CreditAppliedOnce, PTL DEF CreditInv

-----------------------------------------------------------------------------
(* An entry is about the event of its author.                              *)
LEMMA EntryOfEvent ==
  ASSUME CreditInv, OTypes, NEW w \in Wallets, NEW i \in DOMAIN ledger[w]
  PROVE  \A d : d = ledger[w][i].by =>
           /\ d \in Requests
           /\ event[d] \in Events
           /\ event[d].externalId \in References
           /\ call[d] = CreditCall(event[d])
           /\ w = WalletFor(event[d].user)
           /\ pc[d] # "new"
           /\ ledger[w][i].key = KeyOf(call[d])
<1> SUFFICES ASSUME NEW d, d = ledger[w][i].by
    PROVE  /\ d \in Requests
           /\ event[d] \in Events
           /\ event[d].externalId \in References
           /\ call[d] = CreditCall(event[d])
           /\ w = WalletFor(event[d].user)
           /\ pc[d] # "new"
           /\ ledger[w][i].key = KeyOf(call[d])
  OBVIOUS
<1>1. EntryOK(call, pc, w, ledger[w][i])
  BY DEF CreditInv, EntriesInv
<1>2. d \in Requests /\ call[d].wallet = w /\ pc[d] # "new"
      /\ ledger[w][i].key = RowKey(call[d])
  BY <1>1 DEF EntryOK, Entry
<1>3. event[d] \in Events /\ event[d] \in Event
      /\ call[d] = CreditCall(event[d])
  BY <1>2, EventsAssumption DEF OTypes
<1> QED
  BY <1>2, <1>3 DEF CreditCall, RowKey, Event

LEMMA EntryIsCredit ==
  ASSUME NEW w \in Wallets, NEW i \in DOMAIN ledger[w]
  PROVE  <<w, i>> \in CreditsOf(event[ledger[w][i].by].externalId)
<1> DEFINE p == <<w, i>>
<1>1. p \in {w} \X DOMAIN ledger[w]
  OBVIOUS
<1>2. p \in UNION {{v} \X DOMAIN ledger[v] : v \in Wallets}
  BY <1>1, Zenon
<1>3. event[ledger[p[1]][p[2]].by].externalId
        = event[ledger[w][i].by].externalId
  OBVIOUS
<1> QED
  BY <1>2, <1>3 DEF CreditsOf

LEMMA CreditIsEntry ==
  ASSUME NEW id, NEW p \in CreditsOf(id)
  PROVE  /\ p[1] \in Wallets
         /\ p[2] \in DOMAIN ledger[p[1]]
         /\ p = <<p[1], p[2]>>
         /\ event[ledger[p[1]][p[2]].by].externalId = id
<1>1. /\ p \in UNION {{w} \X DOMAIN ledger[w] : w \in Wallets}
      /\ event[ledger[p[1]][p[2]].by].externalId = id
  BY DEF CreditsOf
<1>2. PICK w \in Wallets : p \in {w} \X DOMAIN ledger[w]
  BY <1>1, Zenon
<1> QED
  BY <1>1, <1>2

(* A credit that succeeded, now or for an earlier delivery, is in the      *)
(* ledger.                                                                 *)
LEMMA SuccessIsCredited ==
  ASSUME CreditInv, OTypes, NEW d \in Requests, pc[d] = "ok"
  PROVE  CreditsOf(event[d].externalId) # {}
<1>1. call[d] = CreditCall(event[d]) /\ event[d] \in Event
  BY EventsAssumption DEF OTypes
<1>2. Written(d) \/ Stored(KeyOf(call[d]))
  BY DEF CreditInv, AnswersMatchLedger
<1>3. CASE Written(d)
  <2>1. PICK w \in Wallets : \E i \in DOMAIN ledger[w] : ledger[w][i].by = d
    BY <1>3 DEF Written
  <2>2. PICK i \in DOMAIN ledger[w] : ledger[w][i].by = d
    BY <2>1
  <2> QED
    BY <2>2, EntryIsCredit
<1>4. CASE Stored(KeyOf(call[d]))
  <2>0. PICK w \in Wallets : \E i \in DOMAIN ledger[w] :
          ledger[w][i].key = KeyOf(call[d])
    BY <1>4 DEF Stored
  <2>1. PICK i \in DOMAIN ledger[w] : ledger[w][i].key = KeyOf(call[d])
    BY <2>0
  <2> DEFINE c == ledger[w][i].by
  <2>2. /\ call[c] = CreditCall(event[c])
        /\ KeyOf(call[c]) = KeyOf(call[d])
        /\ event[c].externalId \in References
    BY <2>1, EntryOfEvent
  <2>3. event[d].externalId \in References
    BY <1>1 DEF Event
  <2>4. event[c].externalId = event[d].externalId
    BY <1>1, <2>2, <2>3, NullAssumption DEF KeyOf, CreditCall
  <2> QED
    BY <2>4, EntryIsCredit
<1> QED
  BY <1>2, <1>3, <1>4

(* No credit goes away.                                                    *)
LEMMA CreditsStay ==
  ASSUME CreditInv, [ONext]_ovars, NEW id, CreditsOf(id) # {}
  PROVE  CreditsOf(id)' # {}
<1> PICK p \in CreditsOf(id) : TRUE
  OBVIOUS
<1> DEFINE w == p[1]
           i == p[2]
<1>1. w \in Wallets /\ i \in DOMAIN ledger[w]
      /\ event[ledger[w][i].by].externalId = id
  BY CreditIsEntry
<1>2. i \in DOMAIN ledger'[w] /\ ledger'[w][i] = ledger[w][i]
  BY <1>1, StepsAreRequests, LedgerGrows DEF CreditInv
<1>3. event' = event
  BY DEF ONext, ovars, DeliveryStep, RejectUnverified, IgnoreStatus,
     OpenTransaction, AlreadyProcessed, NoWallet, StartCredit, CreditLookup,
     CreditBegin, CreditLock, CreditEnd, CreditRespond, Record, RecordFails,
     CreditFailed, OpenTimesOut, CreditAbort, Expire, DeliveryCrash, Delivered
<1>4. event'[ledger'[w][i].by].externalId = id
  BY <1>1, <1>2, <1>3
<1>5. <<w, i>> \in {w} \X DOMAIN ledger'[w]
  BY <1>2
<1>6. <<w, i>> \in UNION {{v} \X DOMAIN ledger'[v] : v \in Wallets}
  BY <1>1, <1>5, Zenon
<1>7. <<w, i>>[1] = w /\ <<w, i>>[2] = i
  OBVIOUS
<1> QED
  BY <1>4, <1>6, <1>7 DEF CreditsOf

-----------------------------------------------------------------------------
(* What one step does to the answers and to the recorded events.           *)
LEMMA DeliveriesMove ==
  ASSUME CreditInv, OTypes, [ONext]_ovars
  PROVE  /\ event' = event /\ call' = call
         /\ opc' \in [Requests -> DeliveryOpen \cup DeliveryAnswers]
         /\ \A q \in Requests :
              /\ pc'[q] # pc[q] => opc[q] = "credit"
              /\ opc'[q] = "credit" =>
                   opc[q] = "credit" \/ HasWallet(event[q].user)
              /\ opc'[q] = "ok" => \/ opc[q] = "ok"
                                   \/ ~Creditable(event[q])
                                   \/ event[q].externalId \in webhookEvents
                                   \/ pc[q] = "ok"
         /\ \A id \in webhookEvents' :
              \/ id \in webhookEvents
              \/ \E q \in Requests : pc[q] = "ok" /\ id = event[q].externalId
<1> DEFINE Q ==
      /\ event' = event /\ call' = call
      /\ opc' \in [Requests -> DeliveryOpen \cup DeliveryAnswers]
      /\ \A q \in Requests :
           /\ pc'[q] # pc[q] => opc[q] = "credit"
           /\ opc'[q] = "credit" =>
                opc[q] = "credit" \/ HasWallet(event[q].user)
           /\ opc'[q] = "ok" => \/ opc[q] = "ok"
                                \/ ~Creditable(event[q])
                                \/ event[q].externalId \in webhookEvents
                                \/ pc[q] = "ok"
      /\ \A id \in webhookEvents' :
           \/ id \in webhookEvents
           \/ \E q \in Requests : pc[q] = "ok" /\ id = event[q].externalId
<1> USE DEF TypeOK, CreditInv, OTypes, DeliveryOpen, DeliveryAnswers
<1>1. CASE UNCHANGED ovars
  BY <1>1 DEF ovars, vars
<1>2. ASSUME NEW d \in Requests,
             RejectUnverified(d) \/ IgnoreStatus(d) \/ OpenTransaction(d)
               \/ OpenTimesOut(d) \/ AlreadyProcessed(d) \/ NoWallet(d)
               \/ StartCredit(d) \/ RecordFails(d) \/ CreditFailed(d)
      PROVE  Q
  BY <1>2 DEF RejectUnverified, IgnoreStatus, OpenTransaction, OpenTimesOut,
     AlreadyProcessed, NoWallet, StartCredit, RecordFails, CreditFailed,
     Finish, Creditable, vars
<1>3. ASSUME NEW d \in Requests,
             CreditLookup(d) \/ CreditBegin(d) \/ CreditLock(d)
               \/ CreditEnd(d) \/ CreditRespond(d) \/ CreditAbort(d)
      PROVE  Q
  BY <1>3 DEF CreditLookup, CreditBegin, CreditLock, CreditEnd, CreditRespond,
     CreditAbort, AnswerDuplicate, RejectArguments, CheckIdempotency,
     LockWallet, LockWalletFails, Commit, Conflict, Respond, Abort, vars
<1>4. ASSUME NEW d \in Requests, Record(d)
      PROVE  Q
  BY <1>4 DEF Record, Finish, vars
<1>5. ASSUME NEW d \in Requests, Expire(d)
      PROVE  Q
  BY <1>5 DEF Expire, vars
<1>6. ASSUME NEW d \in Requests, DeliveryCrash(d)
      PROVE  Q
  BY <1>6 DEF DeliveryCrash, Crash, vars
<1>7. CASE Delivered
  BY <1>1, <1>7 DEF Delivered
<1> QED
  BY <1>1, <1>2, <1>3, <1>4, <1>5, <1>6, <1>7 DEF ONext, DeliveryStep

LEMMA OStep ==
  ASSUME CreditInv, OInv, [ONext]_ovars
  PROVE  OInv'
<1>0. OTypes
  BY DEF OInv
<1>1. OTypes'
  <2>1. webhookEvents' \subseteq References
    BY <1>0, DeliveriesMove, EventsAssumption DEF OTypes, Event
  <2>2. call' = [d \in Requests |-> CreditCall(event'[d])]
    BY <1>0, DeliveriesMove DEF OTypes
  <2> QED
    BY <1>0, <2>1, <2>2, DeliveriesMove DEF OTypes
<1>2. CreditedHaveWallet'
  BY <1>0, DeliveriesMove DEF OInv, CreditedHaveWallet
<1>3. ASSUME NEW id \in webhookEvents'
      PROVE  CreditsOf(id)' # {}
  <2>1. CASE id \in webhookEvents
    BY <2>1, CreditsStay DEF OInv, RecordedIsCredited
  <2>2. ASSUME NEW q \in Requests, pc[q] = "ok", id = event[q].externalId
        PROVE  CreditsOf(id)' # {}
    BY <1>0, <2>2, SuccessIsCredited, CreditsStay
  <2> QED
    BY <1>0, <2>1, <2>2, DeliveriesMove
<1>4. ASSUME NEW q \in Requests, opc'[q] = "ok", Creditable(event[q]),
             NEW id, id = event[q].externalId
      PROVE  CreditsOf(id)' # {}
  <2>1. CreditsOf(id) # {}
    <3>1. CASE opc[q] = "ok"
      BY <1>4, <3>1 DEF OInv, AcknowledgedIsCredited
    <3>2. CASE id \in webhookEvents
      BY <3>2 DEF OInv, RecordedIsCredited
    <3>3. CASE pc[q] = "ok"
      BY <1>0, <1>4, <3>3, SuccessIsCredited
    <3> QED
      BY <1>0, <1>4, <3>1, <3>2, <3>3, DeliveriesMove
  <2> QED
    BY <2>1, CreditsStay
<1>5. RecordedIsCredited'
  BY <1>3 DEF RecordedIsCredited
<1>6. AcknowledgedIsCredited'
  BY <1>0, <1>4, DeliveriesMove DEF AcknowledgedIsCredited, Creditable
<1> QED
  BY <1>1, <1>2, <1>5, <1>6 DEF OInv

LEMMA OCorrect == OSpec => [](CreditInv /\ OInv)
<1>1. OInit => OInv
  BY DEF OInit, Init, OInv, OTypes, CreditedHaveWallet, RecordedIsCredited,
     AcknowledgedIsCredited, DeliveryOpen
<1> QED
  BY <1>1, OStep, CreditsCorrect, PTL DEF OSpec

(* The unique id of a WebhookEvent row never outruns the credit it stands  *)
(* for: processEvent may answer "already processed" from the row alone.    *)
THEOREM RecordsAreCredits == OSpec => []RecordedIsCredited
BY OCorrect, PTL DEF OInv

(* A 2xx for a completed payment means the payment is in the ledger: the   *)
(* provider may forget it.                                                 *)
THEOREM AcknowledgementsAreCredits == OSpec => []AcknowledgedIsCredited
BY OCorrect, PTL DEF OInv

-----------------------------------------------------------------------------
(* The key of a credit names its payment, and with it its wallet.          *)
LEMMA OneCredit ==
  ASSUME CreditInv, OInv, NEW id, NEW p \in CreditsOf(id), NEW q \in CreditsOf(id)
  PROVE  p = q
<1> DEFINE c == ledger[p[1]][p[2]].by
           d == ledger[q[1]][q[2]].by
<1>1. /\ p[1] \in Wallets /\ p[2] \in DOMAIN ledger[p[1]] /\ p = <<p[1], p[2]>>
      /\ q[1] \in Wallets /\ q[2] \in DOMAIN ledger[q[1]] /\ q = <<q[1], q[2]>>
      /\ event[c].externalId = id /\ event[d].externalId = id
  BY CreditIsEntry
<1>2. OTypes
  BY DEF OInv
<1>3. /\ c \in Requests /\ event[c] \in Events /\ pc[c] # "new"
      /\ call[c] = CreditCall(event[c]) /\ p[1] = WalletFor(event[c].user)
      /\ id \in References
  BY <1>1, <1>2, EntryOfEvent
<1>4. /\ d \in Requests /\ event[d] \in Events /\ pc[d] # "new"
      /\ call[d] = CreditCall(event[d]) /\ q[1] = WalletFor(event[d].user)
  BY <1>1, <1>2, EntryOfEvent
<1>5. HasWallet(event[c].user) /\ HasWallet(event[d].user)
  BY <1>3, <1>4 DEF OInv, CreditedHaveWallet
<1>6. p[1] = q[1]
  BY <1>1, <1>3, <1>4, <1>5, PaymentsAssumption
<1>7. /\ call[c].op = "credit" /\ call[d].op = "credit"
      /\ call[c].ref = id /\ call[d].ref = id
      /\ call[c].source = "webhook" /\ call[d].source = "webhook"
      /\ call[c].wallet = p[1] /\ call[d].wallet = q[1]
  BY <1>1, <1>3, <1>4 DEF CreditCall
<1>8. call[c].ref # NoRef /\ KeyOf(call[c]) = KeyOf(call[d])
  BY <1>3, <1>6, <1>7, NullAssumption DEF KeyOf
<1>9. p[2] = q[2]
  BY <1>1, <1>6, <1>7, <1>8 DEF CreditInv, CreditedOncePerKey
<1> QED
  BY <1>1, <1>6, <1>9

(* However often and in whatever order the webhook of a payment arrives,   *)
(* and whether or not the outer transaction that records it survives, the  *)
(* payment is credited at most once.                                       *)
THEOREM PaymentsCreditedOnce == OSpec => []PaymentCreditedOnce
<1>1. CreditInv /\ OInv => PaymentCreditedOnce
  <2> SUFFICES ASSUME CreditInv, OInv, NEW id \in References
      PROVE  Cardinality(CreditsOf(id)) <= 1
    BY DEF PaymentCreditedOnce
  <2>1. CASE CreditsOf(id) = {}
    BY <2>1, FS_EmptySet
  <2>2. ASSUME NEW p \in CreditsOf(id) PROVE Cardinality(CreditsOf(id)) <= 1
    <3>1. CreditsOf(id) = {p}
      BY OneCredit
    <3> QED
      BY <3>1, FS_Singleton
  <2> QED
    BY <2>1, <2>2
<1> QED
  BY <1>1, OCorrect, PTL
=============================================================================
