-------------------------- MODULE WebhookRetryProofs --------------------------
(***************************************************************************)
(* Theorems about WebhookRetry, for any rows, instances, administrators,   *)
(* limit and batch size, and about the alerts of WebhookAlerts, for any    *)
(* threshold, window and spacing.                                          *)
(*                                                                         *)
(* That a dead letter has its item needs to be known between the two       *)
(* statements of moveToDeadLetter (MarkInv).  The bound on the retries is  *)
(* not inductive: what counts is the counter together with the instances   *)
(* that are still going to raise it (BoundInv).  Alerts are decided before *)
(* an await and noted after it, so SpacedInv and BurstInv speak of those   *)
(* that are on their way.                                                  *)
(***************************************************************************)
EXTENDS WebhookAlerts, ListLemmas, FiniteSetTheorems, SequenceTheorems, TLAPS

Row  == [id : Webhooks, count : Nat]
Item == [event : Webhooks, retries : Nat, status : ItemStatuses]

(* No batch has a row twice.                                               *)
DistinctInv ==
  \A n \in Instances : \A i, j \in DOMAIN batch[n] :
    i # j => batch[n][i].id # batch[n][j].id

(* What is about to be marked is in the queue.                             *)
MarkInv ==
  \A n \in Instances : stage[n] = "mark" => Items(Head(batch[n]).id) # {}

(* The instances that are going to raise the counter of a row.             *)
Raises(n, e) ==
  \E k \in DOMAIN batch[n] : batch[n][k].id = e /\ ~Exhausted(batch[n][k])

Raisers(e) == {n \in Instances : Raises(n, e)}

Bound(e) ==
  \/ retryCount[e] = 0 /\ Raisers(e) = {}
  \/ /\ 2 <= MaxRetries
     /\ retryCount[e] + Cardinality(Raisers(e))
          <= MaxRetries - 2 + Cardinality(Instances)

BoundInv == \A e \in Webhooks : Bound(e)

RInv == RTypeOK /\ DistinctInv /\ MarkInv /\ DeadLettersAreQueued /\ BoundInv

-----------------------------------------------------------------------------
(* Raisers are finitely many.                                              *)
LEMMA RaisersFinite ==
  ASSUME NEW e
  PROVE  /\ IsFiniteSet(Raisers(e)) /\ Cardinality(Raisers(e)) \in Nat
         /\ Cardinality(Raisers(e)) <= Cardinality(Instances)
         /\ Cardinality(Instances) \in Nat
BY WebhooksAssumption, FS_Subset, FS_CardinalityType DEF Raisers

(* The same of the next state.                                             *)
LEMMA RaisersFinitePrime ==
  ASSUME NEW e
  PROVE  /\ IsFiniteSet(Raisers(e)') /\ Cardinality(Raisers(e)') \in Nat
         /\ Cardinality(Raisers(e)') <= Cardinality(Instances)
<1>1. Raisers(e)' \in SUBSET Instances
  BY DEF Raisers
<1> QED
  BY <1>1, WebhooksAssumption, FS_Subset, FS_CardinalityType

(* With fewer raisers and no higher a counter the bound is kept.           *)
LEMMA BoundKept ==
  ASSUME NEW e, Bound(e), Raisers(e)' \subseteq Raisers(e),
         retryCount[e] \in Nat, retryCount'[e] \in Nat,
         retryCount'[e] <= retryCount[e]
  PROVE  Bound(e)'
<1>1. CASE retryCount[e] = 0 /\ Raisers(e) = {}
  BY <1>1 DEF Bound
<1>2. CASE /\ 2 <= MaxRetries
           /\ retryCount[e] + Cardinality(Raisers(e))
                <= MaxRetries - 2 + Cardinality(Instances)
  <2>1. Cardinality(Raisers(e)') <= Cardinality(Raisers(e))
    BY RaisersFinite, FS_Subset
  <2>2. retryCount'[e] + Cardinality(Raisers(e)')
          <= MaxRetries - 2 + Cardinality(Instances)
    <3>1. /\ Cardinality(Raisers(e)) \in Nat
          /\ Cardinality(Raisers(e)') \in Nat
          /\ Cardinality(Instances) \in Nat
      BY RaisersFinite, RaisersFinitePrime
    <3> QED
      BY <1>2, <2>1, <3>1, LimitsAssumption
  <2> QED
    BY <1>2, <2>2 DEF Bound
<1> QED
  BY <1>1, <1>2 DEF Bound

(* A batch is made of rows of the table, each once, as they are.           *)
LEMMA BatchShape ==
  ASSUME RTypeOK, NEW s \in SetToSeqs(Retryables), Retryables # {}
  PROVE  /\ Batch(s) \in Seq(Row) /\ Batch(s) # <<>>
         /\ \A i, j \in DOMAIN Batch(s) : i # j => Batch(s)[i].id # Batch(s)[j].id
         /\ \A k \in DOMAIN Batch(s) : Batch(s)[k].count = retryCount[Batch(s)[k].id]
<1> DEFINE D == 1 .. Cardinality(Retryables)
           m == IF Len(s) < BatchSize THEN Len(s) ELSE BatchSize
<1>1. Retryables \subseteq Webhooks
  BY DEF Retryables
<1>2. Cardinality(Retryables) \in Nat \ {0}
  BY <1>1, WebhooksAssumption, FS_Subset, FS_CardinalityType, FS_EmptySet
<1>3. s \in [D -> Retryables] /\ \A i, j \in D : i # j => s[i] # s[j]
  BY DEF SetToSeqs
<1>4. Len(s) = Cardinality(Retryables)
  BY <1>2, <1>3
<1>5. m \in Nat \ {0} /\ 1 .. m \subseteq D
  BY <1>2, <1>4, LimitsAssumption
<1>6. \A k \in 1 .. m : s[k] \in Webhooks /\ retryCount[s[k]] \in Nat
  BY <1>1, <1>3, <1>5 DEF RTypeOK
<1>7. Batch(s) = [k \in 1 .. m |-> [id |-> s[k], count |-> retryCount[s[k]]]]
  BY DEF Batch
<1> HIDE DEF m, D
<1>8. Batch(s) \in [1 .. m -> Row]
  BY <1>6, <1>7 DEF Row
<1>9. Batch(s) \in Seq(Row) /\ Len(Batch(s)) = m
  <2>1. \A i \in Nat : [1 .. i -> Row] \subseteq Seq(Row)
    OBVIOUS
  <2> QED
    BY <1>5, <1>8, <2>1
<1>10. \A k \in DOMAIN Batch(s) : k \in 1 .. m /\ k \in D
  BY <1>5, <1>8
<1>11. \A k \in DOMAIN Batch(s) :
         Batch(s)[k].id = s[k] /\ Batch(s)[k].count = retryCount[s[k]]
  BY <1>7, <1>10
<1> QED
  BY <1>3, <1>5, <1>9, <1>10, <1>11

(* The initial states.                                                     *)
LEMMA RInitInv == RInit => RInv
<1> SUFFICES ASSUME RInit PROVE RInv
  OBVIOUS
<1> USE DEF RInit
<1>1. RTypeOK
  <2>1. batch \in [Instances -> Seq([id : Webhooks, count : Nat])]
    OBVIOUS
  <2>2. queue \in Seq([event : Webhooks, retries : Nat, status : ItemStatuses])
    OBVIOUS
  <2> QED
    BY <2>1, <2>2, LimitsAssumption DEF RTypeOK, Statuses, Retryable
<1>2. DistinctInv
  BY DEF DistinctInv
<1>3. MarkInv /\ DeadLettersAreQueued
  BY DEF MarkInv, DeadLettersAreQueued
<1>4. BoundInv
  BY DEF BoundInv, Bound, Raisers, Raises
<1> QED
  BY <1>1, <1>2, <1>3, <1>4 DEF RInv

-----------------------------------------------------------------------------
(* The parts of the invariant that only batches and counters decide.       *)
BatchesOK ==
  /\ batch \in [Instances -> Seq(Row)]
  /\ stage \in [Instances -> {"idle", "next", "mark"}]
  /\ \A n \in Instances : stage[n] = "idle" <=> batch[n] = <<>>
  /\ DistinctInv

TablesOK ==
  /\ status \in [Webhooks -> Statuses]
  /\ retryCount \in [Webhooks -> Nat]
  /\ queue \in Seq(Item)
  /\ admin \in [Admins -> Webhooks \cup {0}]
  /\ events \in 0 .. MaxEvents

LEMMA TypesSplit == (RTypeOK /\ DistinctInv) <=> (BatchesOK /\ TablesOK)
BY DEF RTypeOK, BatchesOK, TablesOK, Row, Item

(* One more event is still within the bound.                               *)
LEMMA EventfulType ==
  ASSUME events \in 0 .. MaxEvents, Eventful
  PROVE  events' \in 0 .. MaxEvents
BY LimitsAssumption DEF Eventful

(* Going on to the next row takes the first away, and nothing else.        *)
LEMMA AdvanceShape ==
  ASSUME BatchesOK, NEW n \in Instances, stage[n] # "idle", Advance(n)
  PROVE  /\ BatchesOK'
         /\ stage'[n] # "mark"
         /\ \A m \in Instances : m # n => batch'[m] = batch[m] /\ stage'[m] = stage[m]
         /\ \A e : Raisers(e)' \subseteq Raisers(e)
         /\ Head(batch[n]) \in Row /\ 1 \in DOMAIN batch[n]
         /\ Head(batch[n]) = batch[n][1]
         /\ \A e : e = Head(batch[n]).id => ~ Raises(n, e)'
<1> DEFINE rest == Tail(batch[n])
<1>1. batch \in [Instances -> Seq(Row)] /\ batch[n] \in Seq(Row) /\ batch[n] # <<>>
  BY DEF BatchesOK
<1>2. /\ rest \in Seq(Row) /\ Head(batch[n]) \in Row /\ 1 \in DOMAIN batch[n]
      /\ Head(batch[n]) = batch[n][1]
      /\ \A k \in DOMAIN rest : k + 1 \in DOMAIN batch[n] /\ k + 1 # 1
                                /\ rest[k] = batch[n][k + 1]
      /\ Len(batch[n]) = 1 <=> rest = <<>>
      /\ \A k \in DOMAIN rest : k \in Nat
  <2>1. /\ rest \in Seq(Row) /\ Len(rest) = Len(batch[n]) - 1
        /\ Head(batch[n]) \in Row /\ Head(batch[n]) = batch[n][1]
        /\ Len(batch[n]) \in Nat \ {0}
    BY <1>1
  <2>2. /\ DOMAIN rest = 1 .. Len(batch[n]) - 1
        /\ DOMAIN batch[n] = 1 .. Len(batch[n])
    BY <1>1, <2>1
  <2>3. \A k \in DOMAIN rest : rest[k] = batch[n][k + 1]
    BY <1>1, <2>2
  <2> HIDE DEF rest
  <2>4. Len(batch[n]) = 1 <=> rest = <<>>
    <3>1. Len(rest) = 0 => rest = <<>>
      BY <2>1, EmptySeq
    <3>2. rest = <<>> => Len(rest) = 0
      BY EmptySeq
    <3> QED
      BY <2>1, <3>1, <3>2
  <2> QED
    BY <2>1, <2>2, <2>3, <2>4
<1>3. batch' = [batch EXCEPT ![n] = rest]
  BY DEF Advance
<1>4. stage' = [stage EXCEPT ![n] = IF Len(batch[n]) = 1 THEN "idle" ELSE "next"]
  BY DEF Advance
<1> HIDE DEF rest
<1>5. /\ batch' \in [Instances -> Seq(Row)] /\ batch'[n] = rest
      /\ \A m \in Instances : m # n => batch'[m] = batch[m]
  BY <1>1, <1>2, <1>3
<1>6. /\ stage' \in [Instances -> {"idle", "next", "mark"}]
      /\ stage'[n] = IF Len(batch[n]) = 1 THEN "idle" ELSE "next"
      /\ \A m \in Instances : m # n => stage'[m] = stage[m]
  BY <1>4 DEF BatchesOK
<1>7. \A m \in Instances : stage'[m] = "idle" <=> batch'[m] = <<>>
  BY <1>2, <1>5, <1>6 DEF BatchesOK
<1>8. DistinctInv'
  <2> SUFFICES ASSUME NEW m \in Instances, NEW i \in DOMAIN batch'[m],
                      NEW j \in DOMAIN batch'[m], i # j
               PROVE  batch'[m][i].id # batch'[m][j].id
    BY DEF DistinctInv
  <2>1. CASE m # n
    BY <1>5, <2>1 DEF BatchesOK, DistinctInv
  <2>2. CASE m = n
    <3>1. /\ i + 1 \in DOMAIN batch[n] /\ j + 1 \in DOMAIN batch[n] /\ i + 1 # j + 1
          /\ batch'[m][i] = batch[n][i + 1] /\ batch'[m][j] = batch[n][j + 1]
      BY <1>2, <1>5, <2>2
    <3> QED
      BY <3>1 DEF BatchesOK, DistinctInv
  <2> QED
    BY <2>1, <2>2
<1>9. ASSUME NEW e, NEW m \in Instances, Raises(m, e)'
      PROVE  Raises(m, e)
  <2>1. PICK k \in DOMAIN batch'[m] :
          batch'[m][k].id = e /\ ~Exhausted(batch'[m][k])
    BY <1>9 DEF Raises, Exhausted
  <2>2. \E l \in DOMAIN batch[m] : batch[m][l] = batch'[m][k]
    <3>1. CASE m = n
      BY <1>2, <1>5, <3>1
    <3>2. CASE m # n
      BY <1>5, <3>2
    <3> QED
      BY <3>1, <3>2
  <2> QED
    BY <2>1, <2>2 DEF Raises
<1>10. \A e : e = Head(batch[n]).id => ~ Raises(n, e)'
  <2> SUFFICES ASSUME NEW k \in DOMAIN batch'[n], batch'[n][k].id = batch[n][1].id
               PROVE  FALSE
    BY <1>2 DEF Raises
  <2>1. k + 1 \in DOMAIN batch[n] /\ k + 1 # 1 /\ batch[n][k + 1].id = batch[n][1].id
    BY <1>2, <1>5
  <2> QED
    BY <1>2, <2>1 DEF BatchesOK, DistinctInv
<1> QED
  BY <1>2, <1>5, <1>6, <1>7, <1>8, <1>9, <1>10 DEF BatchesOK, Raisers

(* What stays of the invariant when a job gives up a row: it needs no item *)
(* of the queue to go away and no counter to rise.                         *)
LEMMA GoesOn ==
  ASSUME RInv, NEW n \in Instances, stage[n] # "idle", Advance(n),
         TablesOK', \A e \in Webhooks : retryCount'[e] <= retryCount[e],
         \A e : Items(e) # {} => Items(e)' # {},
         DeadLettersAreQueued'
  PROVE  RInv'
<1>1. BatchesOK /\ TablesOK /\ MarkInv /\ BoundInv
  BY TypesSplit DEF RInv
<1>2. RTypeOK' /\ DistinctInv'
  BY <1>1, AdvanceShape, TypesSplit DEF RTypeOK, BatchesOK, TablesOK, Row, Item
<1>3. MarkInv'
  BY <1>1, AdvanceShape DEF MarkInv
<1>4. BoundInv'
  <2> SUFFICES ASSUME NEW e \in Webhooks PROVE Bound(e)'
    BY DEF BoundInv
  <2>1. Raisers(e)' \subseteq Raisers(e)
    BY <1>1, AdvanceShape
  <2>2. retryCount[e] \in Nat /\ retryCount'[e] \in Nat
    BY <1>1 DEF TablesOK
  <2> QED
    BY <1>1, <2>1, <2>2, BoundKept DEF BoundInv
<1> QED
  BY <1>2, <1>3, <1>4 DEF RInv

-----------------------------------------------------------------------------
(* One lemma per kind of step.                                             *)

(* A new batch: the instance becomes a raiser of rows whose counters are   *)
(* low, of others it does not.                                             *)
LEMMA TickKeeps ==
  ASSUME RInv, NEW n \in Instances, Tick(n)
  PROVE  RInv'
<1>1. BatchesOK /\ TablesOK /\ MarkInv /\ BoundInv /\ RTypeOK
  BY TypesSplit DEF RInv
<1>2. PICK s \in SetToSeqs(Retryables) : batch' = [batch EXCEPT ![n] = Batch(s)]
  BY DEF Tick
<1>3. /\ stage' = [stage EXCEPT ![n] = "next"] /\ batch[n] = <<>>
      /\ Retryables # {}
      /\ UNCHANGED <<status, retryCount, queue, admin, events>>
  BY <1>1 DEF Tick, BatchesOK
<1>4. /\ Batch(s) \in Seq(Row) /\ Batch(s) # <<>>
      /\ \A i, j \in DOMAIN Batch(s) : i # j => Batch(s)[i].id # Batch(s)[j].id
      /\ \A k \in DOMAIN Batch(s) : Batch(s)[k].count = retryCount[Batch(s)[k].id]
  BY <1>1, <1>3, BatchShape
<1>5. /\ batch' \in [Instances -> Seq(Row)] /\ batch'[n] = Batch(s)
      /\ \A m \in Instances : m # n => batch'[m] = batch[m]
      /\ stage' \in [Instances -> {"idle", "next", "mark"}] /\ stage'[n] = "next"
      /\ \A m \in Instances : m # n => stage'[m] = stage[m]
  BY <1>1, <1>2, <1>3, <1>4 DEF BatchesOK
<1>6. DistinctInv'
  <2> SUFFICES ASSUME NEW m \in Instances, NEW i \in DOMAIN batch'[m],
                      NEW j \in DOMAIN batch'[m], i # j
               PROVE  batch'[m][i].id # batch'[m][j].id
    BY DEF DistinctInv
  <2>1. CASE m = n
    BY <1>4, <1>5, <2>1
  <2>2. CASE m # n
    BY <1>1, <1>5, <2>2 DEF BatchesOK, DistinctInv
  <2> QED
    BY <2>1, <2>2
<1>7. BatchesOK'
  BY <1>1, <1>4, <1>5, <1>6 DEF BatchesOK
<1>8. TablesOK'
  BY <1>1, <1>3 DEF TablesOK
<1>9. RTypeOK'
  BY <1>7, <1>8 DEF RTypeOK, BatchesOK, TablesOK, Row, Item
<1>10. MarkInv' /\ DeadLettersAreQueued'
  BY <1>1, <1>3, <1>5 DEF RInv, MarkInv, DeadLettersAreQueued, Items
<1>11. BoundInv'
  <2> SUFFICES ASSUME NEW e \in Webhooks PROVE Bound(e)'
    BY DEF BoundInv
  <2>1. retryCount[e] \in Nat /\ retryCount'[e] = retryCount[e]
    BY <1>1, <1>3 DEF TablesOK
  <2>2. \A m \in Instances : m # n => (Raises(m, e)' <=> Raises(m, e))
    BY <1>5 DEF Raises, Exhausted
  <2>3. CASE Raises(n, e)'
    <3>1. PICK k \in DOMAIN Batch(s) :
            Batch(s)[k].id = e /\ ~Exhausted(Batch(s)[k])
      BY <1>5, <2>3 DEF Raises, Exhausted
    <3>2. ~(retryCount[e] + 1 >= MaxRetries)
      BY <1>4, <3>1 DEF Exhausted
    <3>3. 2 <= MaxRetries /\ retryCount[e] <= MaxRetries - 2
      BY <2>1, <3>2, LimitsAssumption
    <3>4. retryCount'[e] + Cardinality(Raisers(e)')
            <= MaxRetries - 2 + Cardinality(Instances)
      <4>1. /\ Cardinality(Raisers(e)') \in Nat /\ Cardinality(Instances) \in Nat
            /\ Cardinality(Raisers(e)') <= Cardinality(Instances)
        BY RaisersFinite, RaisersFinitePrime
      <4> QED
        BY <2>1, <3>3, <4>1, LimitsAssumption
    <3> QED
      BY <3>3, <3>4 DEF Bound
  <2>4. CASE ~Raises(n, e)'
    <3>1. Raisers(e)' \subseteq Raisers(e)
      BY <2>2, <2>4 DEF Raisers
    <3> QED
      BY <1>1, <2>1, <3>1, BoundKept DEF BoundInv
  <2> QED
    BY <2>3, <2>4
<1> QED
  BY <1>6, <1>9, <1>10, <1>11 DEF RInv

(* The counter rises by one, and with it the instance is a raiser no more. *)
LEMMA RetryKeeps ==
  ASSUME RInv, NEW n \in Instances, Retry(n)
  PROVE  RInv'
<1> DEFINE x == Head(batch[n]).id
<1>1. BatchesOK /\ TablesOK /\ MarkInv /\ BoundInv
  BY TypesSplit DEF RInv
<1>2. /\ stage[n] # "idle" /\ Advance(n) /\ ~Exhausted(Head(batch[n]))
      /\ retryCount' = [retryCount EXCEPT ![x] = @ + 1]
      /\ UNCHANGED <<status, queue, admin, events>>
  BY DEF Retry
<1>3. /\ BatchesOK' /\ stage'[n] # "mark"
      /\ \A m \in Instances : m # n => batch'[m] = batch[m] /\ stage'[m] = stage[m]
      /\ \A e : Raisers(e)' \subseteq Raisers(e)
      /\ Head(batch[n]) \in Row /\ 1 \in DOMAIN batch[n]
      /\ Head(batch[n]) = batch[n][1]
      /\ \A e : e = x => ~ Raises(n, e)'
  BY <1>1, <1>2, AdvanceShape
<1>4. x \in Webhooks
  BY <1>3 DEF Row
<1>5. Raises(n, x)
  BY <1>2, <1>3 DEF Raises
<1> HIDE DEF x
<1>6. /\ retryCount' \in [Webhooks -> Nat] /\ retryCount'[x] = retryCount[x] + 1
      /\ \A e \in Webhooks : e # x => retryCount'[e] = retryCount[e]
  BY <1>1, <1>2, <1>4 DEF TablesOK
<1>7. TablesOK'
  BY <1>1, <1>2, <1>6 DEF TablesOK
<1>8. RTypeOK' /\ DistinctInv'
  BY <1>3, <1>7 DEF RTypeOK, BatchesOK, TablesOK, Row, Item
<1>9. MarkInv' /\ DeadLettersAreQueued'
  BY <1>1, <1>2, <1>3 DEF RInv, MarkInv, DeadLettersAreQueued, Items
<1>10. ASSUME NEW e \in Webhooks PROVE Bound(e)'
  <2>1. CASE e # x
    BY <1>1, <1>3, <1>6, <2>1, BoundKept DEF BoundInv, TablesOK
  <2>2. CASE e = x
    <3>1. n \in Raisers(e) /\ Raisers(e)' \subseteq Raisers(e) \ {n}
      <4>1. ~ Raises(n, e)'
        BY <1>3, <2>2
      <4> QED
        BY <1>3, <1>5, <2>2, <4>1 DEF Raisers
    <3>2. Cardinality(Raisers(e)') <= Cardinality(Raisers(e)) - 1
      <4>1. IsFiniteSet(Raisers(e) \ {n})
            /\ Cardinality(Raisers(e) \ {n}) = Cardinality(Raisers(e)) - 1
        BY <3>1, RaisersFinite, FS_RemoveElement
      <4> QED
        BY <3>1, <4>1, FS_Subset
    <3>3. 2 <= MaxRetries /\ retryCount[e] + Cardinality(Raisers(e))
                               <= MaxRetries - 2 + Cardinality(Instances)
      BY <1>1, <3>1 DEF BoundInv, Bound
    <3>4. retryCount'[e] + Cardinality(Raisers(e)')
            <= MaxRetries - 2 + Cardinality(Instances)
      <4>1. retryCount[e] \in Nat /\ retryCount'[e] = retryCount[e] + 1
        BY <1>1, <1>6, <2>2 DEF TablesOK
      <4> QED
        <5>1. /\ Cardinality(Raisers(e)) \in Nat
              /\ Cardinality(Raisers(e)') \in Nat
              /\ Cardinality(Instances) \in Nat
          BY RaisersFinite, RaisersFinitePrime
        <5> QED
          BY <3>2, <3>3, <4>1, <5>1, LimitsAssumption
    <3> QED
      BY <3>3, <3>4 DEF Bound
  <2> QED
    BY <2>1, <2>2
<1> QED
  BY <1>8, <1>9, <1>10 DEF RInv, BoundInv

(* The item comes first ...                                                *)
LEMMA AddToQueueKeeps ==
  ASSUME RInv, NEW n \in Instances, AddToQueue(n)
  PROVE  RInv'
<1> DEFINE item == NewItem(Head(batch[n]).id)
<1>1. BatchesOK /\ TablesOK /\ MarkInv /\ BoundInv
  BY TypesSplit DEF RInv
<1>2. /\ stage[n] = "next" /\ queue' = Append(queue, item)
      /\ stage' = [stage EXCEPT ![n] = "mark"]
      /\ UNCHANGED <<status, retryCount, batch, admin, events>>
  BY DEF AddToQueue
<1>3. Head(batch[n]) \in Row
  BY <1>1, <1>2 DEF BatchesOK
<1>4. item \in Item /\ item.event = Head(batch[n]).id
  BY <1>1, <1>3 DEF NewItem, Item, Row, TablesOK, ItemStatuses
<1>5. queue \in Seq(Item)
  BY <1>1 DEF TablesOK
<1> HIDE DEF item
<1>6. /\ queue' \in Seq(Item) /\ Len(queue) + 1 \in DOMAIN queue'
      /\ queue'[Len(queue) + 1] = item
      /\ \A k \in DOMAIN queue : k \in DOMAIN queue' /\ queue'[k] = queue[k]
  BY <1>2, <1>4, <1>5, AppendProperties
<1>7. \A e : Items(e) # {} => Items(e)' # {}
  BY <1>6 DEF Items
<1>8. \A e : e = Head(batch[n]).id => Items(e)' # {}
  BY <1>4, <1>6 DEF Items
<1>9. /\ stage' \in [Instances -> {"idle", "next", "mark"}]
      /\ \A m \in Instances : stage'[m] = "idle" <=> stage[m] = "idle"
      /\ \A m \in Instances : stage'[m] = "mark" => m = n \/ stage[m] = "mark"
  BY <1>1, <1>2 DEF BatchesOK
<1>10. BatchesOK' /\ TablesOK'
  <2>1. DistinctInv'
    BY <1>1, <1>2 DEF BatchesOK, DistinctInv
  <2> QED
    BY <1>1, <1>2, <1>6, <1>9, <2>1 DEF BatchesOK, TablesOK
<1>11. RTypeOK' /\ DistinctInv'
  BY <1>10 DEF RTypeOK, BatchesOK, TablesOK, Row, Item
<1>12. MarkInv'
  BY <1>1, <1>2, <1>7, <1>8, <1>9 DEF MarkInv
<1>13. DeadLettersAreQueued'
  BY <1>2, <1>7 DEF RInv, DeadLettersAreQueued
<1>14. BoundInv'
  BY <1>1, <1>2 DEF BoundInv, Bound, Raisers, Raises, Exhausted
<1> QED
  BY <1>11, <1>12, <1>13, <1>14 DEF RInv

(* ... and the status after it, when the item is there.                    *)
LEMMA MarkDeadLetterKeeps ==
  ASSUME RInv, NEW n \in Instances, MarkDeadLetter(n)
  PROVE  RInv'
<1> DEFINE x == Head(batch[n]).id
<1>1. BatchesOK /\ TablesOK /\ MarkInv
  BY TypesSplit DEF RInv
<1>2. /\ stage[n] = "mark" /\ Advance(n)
      /\ status' = [status EXCEPT ![x] = "dead_letter"]
      /\ UNCHANGED <<retryCount, queue, admin, events>>
  BY DEF MarkDeadLetter
<1>3. Items(x) # {}
  BY <1>1, <1>2 DEF MarkInv
<1> HIDE DEF x
<1>4. TablesOK'
  BY <1>1, <1>2 DEF TablesOK, Statuses
<1>5. \A e : Items(e) # {} => Items(e)' # {}
  BY <1>2 DEF Items
<1>6. DeadLettersAreQueued'
  BY <1>1, <1>2, <1>3, <1>5 DEF RInv, DeadLettersAreQueued, TablesOK
<1>7. \A e \in Webhooks : retryCount'[e] <= retryCount[e]
  BY <1>1, <1>2 DEF TablesOK
<1> QED
  BY <1>2, <1>4, <1>5, <1>6, <1>7, GoesOn

(* A row is skipped.                                                       *)
LEMMA StatementFailsKeeps ==
  ASSUME RInv, NEW n \in Instances, StatementFails(n)
  PROVE  RInv'
<1>1. BatchesOK /\ TablesOK
  BY TypesSplit DEF RInv
<1>2. /\ stage[n] # "idle" /\ Advance(n) /\ Eventful
      /\ UNCHANGED <<status, retryCount, queue, admin>>
  BY DEF StatementFails
<1>3. TablesOK'
  BY <1>1, <1>2, EventfulType DEF TablesOK
<1>4. \A e : Items(e) # {} => Items(e)' # {}
  BY <1>2 DEF Items
<1>5. DeadLettersAreQueued'
  BY <1>2, <1>4 DEF RInv, DeadLettersAreQueued
<1>6. \A e \in Webhooks : retryCount'[e] <= retryCount[e]
  BY <1>1, <1>2 DEF TablesOK
<1> QED
  BY <1>2, <1>3, <1>4, <1>5, <1>6, GoesOn

(* A restart: the batch is gone.                                           *)
LEMMA RestartKeeps ==
  ASSUME RInv, NEW n \in Instances, Restart(n)
  PROVE  RInv'
<1>1. BatchesOK /\ TablesOK /\ MarkInv /\ BoundInv
  BY TypesSplit DEF RInv
<1>2. /\ Eventful
      /\ stage' = [stage EXCEPT ![n] = "idle"]
      /\ batch' = [batch EXCEPT ![n] = <<>>]
      /\ UNCHANGED <<status, retryCount, queue, admin>>
  BY DEF Restart
<1>3. /\ batch' \in [Instances -> Seq(Row)] /\ batch'[n] = <<>>
      /\ \A m \in Instances : m # n => batch'[m] = batch[m]
      /\ stage' \in [Instances -> {"idle", "next", "mark"}] /\ stage'[n] = "idle"
      /\ \A m \in Instances : m # n => stage'[m] = stage[m]
  <2>1. <<>> \in Seq(Row)
    OBVIOUS
  <2> QED
    BY <1>1, <1>2, <2>1 DEF BatchesOK
<1>4. BatchesOK'
  <2>1. \A m \in Instances : batch'[m] = <<>> \/ batch'[m] = batch[m]
    BY <1>3
  <2>2. DistinctInv'
    BY <1>1, <2>1 DEF BatchesOK, DistinctInv
  <2>3. \A m \in Instances : stage'[m] = "idle" <=> batch'[m] = <<>>
    BY <1>1, <1>3 DEF BatchesOK
  <2> QED
    BY <1>3, <2>2, <2>3 DEF BatchesOK
<1>5. TablesOK'
  BY <1>1, <1>2, EventfulType DEF TablesOK
<1>6. RTypeOK' /\ DistinctInv'
  BY <1>4, <1>5 DEF RTypeOK, BatchesOK, TablesOK, Row, Item
<1>7. MarkInv' /\ DeadLettersAreQueued'
  BY <1>1, <1>2, <1>3 DEF RInv, MarkInv, DeadLettersAreQueued, Items
<1>8. BoundInv'
  <2> SUFFICES ASSUME NEW e \in Webhooks PROVE Bound(e)'
    BY DEF BoundInv
  <2>1. Raisers(e)' \subseteq Raisers(e)
    BY <1>3 DEF Raisers, Raises, Exhausted
  <2> QED
    BY <1>1, <1>2, <2>1, BoundKept DEF BoundInv, TablesOK
<1> QED
  BY <1>6, <1>7, <1>8 DEF RInv

(* Administrators touch no batch, and set counters to zero.                *)
LEMMA AdminStepKeeps ==
  ASSUME RInv, AdminStep
  PROVE  RInv'
<1>1. BatchesOK /\ TablesOK /\ MarkInv /\ BoundInv
  BY TypesSplit DEF RInv
<1>2. UNCHANGED <<stage, batch>>
  BY DEF AdminStep, RetryRead, RetryReset, ResolveItem, ArchiveItem
<1>3. /\ TablesOK'
      /\ \A e \in Webhooks : retryCount'[e] \in Nat /\ retryCount'[e] <= retryCount[e]
      /\ \A e \in Webhooks : status'[e] = "dead_letter" => status[e] = "dead_letter"
      /\ \A e : Items(e) # {} => Items(e)' # {}
  <2>1. ASSUME NEW a \in Admins, NEW e \in Webhooks, RetryRead(a, e)
        PROVE  /\ TablesOK' /\ UNCHANGED <<status, retryCount, queue>>
    BY <1>1, <2>1, EventfulType DEF RetryRead, TablesOK
  <2>2. ASSUME NEW a \in Admins, RetryReset(a)
        PROVE  /\ TablesOK' /\ UNCHANGED queue
               /\ \A e \in Webhooks : retryCount'[e] \in Nat /\ retryCount'[e] <= retryCount[e]
               /\ \A e \in Webhooks : status'[e] = "dead_letter" => status[e] = "dead_letter"
    <3>1. admin[a] \in Webhooks
      BY <1>1, <2>2 DEF RetryReset, TablesOK
    <3>2. status' \in [Webhooks -> Statuses] /\ retryCount' \in [Webhooks -> Nat]
      BY <1>1, <2>2, <3>1 DEF RetryReset, TablesOK, Statuses, Retryable
    <3>3. admin' \in [Admins -> Webhooks \cup {0}]
      BY <1>1, <2>2 DEF RetryReset, TablesOK
    <3>4. TablesOK'
      BY <1>1, <2>2, <3>2, <3>3 DEF RetryReset, TablesOK
    <3>5. \A e \in Webhooks : retryCount'[e] = 0 \/ retryCount'[e] = retryCount[e]
      BY <1>1, <2>2, <3>1 DEF RetryReset, TablesOK
    <3>6. \A e \in Webhooks : status'[e] = "dead_letter" => status[e] = "dead_letter"
      BY <1>1, <2>2, <3>1 DEF RetryReset, TablesOK
    <3> QED
      BY <1>1, <2>2, <3>4, <3>5, <3>6 DEF RetryReset, TablesOK
  <2>3. ASSUME NEW k \in DOMAIN queue, ResolveItem(k) \/ ArchiveItem(k)
        PROVE  /\ TablesOK' /\ UNCHANGED <<status, retryCount>>
               /\ \A e : Items(e) # {} => Items(e)' # {}
    <3>1. queue \in Seq(Item) /\ queue[k] \in Item
      BY <1>1 DEF TablesOK
    <3>2. PICK v \in ItemStatuses : queue' = [queue EXCEPT ![k] = [queue[k] EXCEPT !.status = v]]
      BY <2>3 DEF ResolveItem, ArchiveItem, ItemStatuses
    <3> DEFINE item == [queue[k] EXCEPT !.status = v]
    <3>3. item \in Item /\ item.event = queue[k].event
      BY <3>1 DEF Item
    <3>4. queue' = [queue EXCEPT ![k] = item]
      BY <3>2
    <3> HIDE DEF item
    <3>5. /\ queue' \in Seq(Item) /\ DOMAIN queue' = DOMAIN queue
          /\ \A i \in DOMAIN queue : queue'[i].event = queue[i].event
      BY <3>1, <3>3, <3>4
    <3>6. TablesOK'
      BY <1>1, <2>3, <3>5, EventfulType DEF ResolveItem, ArchiveItem, TablesOK
    <3> QED
      BY <2>3, <3>5, <3>6 DEF ResolveItem, ArchiveItem, Items
  <2>4. \/ \E a \in Admins, e \in Webhooks : RetryRead(a, e)
        \/ \E a \in Admins : RetryReset(a)
        \/ \E k \in DOMAIN queue : ResolveItem(k) \/ ArchiveItem(k)
    BY DEF AdminStep
  <2>5. \A e \in Webhooks : retryCount[e] \in Nat
    BY <1>1 DEF TablesOK
  <2>6. UNCHANGED queue => \A e : Items(e) # {} => Items(e)' # {}
    BY DEF Items
  <2> QED
    BY <2>1, <2>2, <2>3, <2>4, <2>5, <2>6
<1>4. RTypeOK' /\ DistinctInv'
  BY <1>1, <1>2, <1>3 DEF RTypeOK, BatchesOK, DistinctInv, TablesOK, Row, Item
<1>5. MarkInv' /\ DeadLettersAreQueued'
  BY <1>1, <1>2, <1>3 DEF RInv, MarkInv, DeadLettersAreQueued
<1>6. BoundInv'
  <2> SUFFICES ASSUME NEW e \in Webhooks PROVE Bound(e)'
    BY DEF BoundInv
  <2>1. Raisers(e)' \subseteq Raisers(e)
    BY <1>2 DEF Raisers, Raises, Exhausted
  <2> QED
    BY <1>1, <1>3, <2>1, BoundKept DEF BoundInv, TablesOK
<1> QED
  BY <1>4, <1>5, <1>6 DEF RInv

(* The invariant is inductive.                                             *)
LEMMA RInductive == RInv /\ [RNext]_rvars => RInv'
<1> SUFFICES ASSUME RInv, [RNext]_rvars PROVE RInv'
  OBVIOUS
<1>1. CASE UNCHANGED rvars
  BY <1>1 DEF rvars, RInv, RTypeOK, DistinctInv, MarkInv, DeadLettersAreQueued,
     Items, BoundInv, Bound, Raisers, Raises, Exhausted
<1>2. CASE RNext
  BY <1>2, TickKeeps, RetryKeeps, AddToQueueKeeps, MarkDeadLetterKeeps,
     StatementFailsKeeps, RestartKeeps, AdminStepKeeps DEF RNext, JobStep
<1> QED
  BY <1>1, <1>2

-----------------------------------------------------------------------------
(* RInv is an invariant.                                                   *)
LEMMA RInvariant == RSpec => []RInv
<1>1. RInit => RInv
  BY RInitInv
<1>2. RInv /\ [RNext]_rvars => RInv'
  BY RInductive
<1> QED
  BY <1>1, <1>2, PTL DEF RSpec

(* The tables and the jobs are well typed; an idle job holds no batch.     *)
THEOREM RetryTypes == RSpec => []RTypeOK
<1>1. RInv => RTypeOK
  BY DEF RInv
<1> QED
  BY <1>1, RInvariant, PTL

(* A webhook of status dead_letter has an item in the queue, whatever      *)
(* fails or restarts between the two statements of moveToDeadLetter.       *)
THEOREM DeadLettersNeverLost == RSpec => []DeadLettersAreQueued
<1>1. RInv => DeadLettersAreQueued
  BY DEF RInv
<1> QED
  BY <1>1, RInvariant, PTL

(* With N instances on one table a webhook is retried at most N - 1 times  *)
(* more often than the limit of retryFailedWebhooks allows one of them.    *)
THEOREM RetriesAreBounded == RSpec => []RetriesBounded
<1>1. RInv => RetriesBounded
  <2> SUFFICES ASSUME RInv, NEW e \in Webhooks
               PROVE  \/ retryCount[e] = 0
                      \/ retryCount[e] <= MaxRetries - 2 + Cardinality(Instances)
    BY DEF RetriesBounded
  <2>1. Bound(e) /\ retryCount[e] \in Nat
    BY DEF RInv, BoundInv, RTypeOK
  <2> QED
    BY <2>1, RaisersFinite, LimitsAssumption DEF Bound
<1> QED
  BY <1>1, RInvariant, PTL

-----------------------------------------------------------------------------
(***************************************************************************)
(* The job and the alerts about its failures.                              *)
(***************************************************************************)

(* The alerts leave the tables alone; a disturbance of theirs counts.      *)
LEMMA AlertsKeepRetry ==
  ASSUME RInv, [ANext]_wavars
  PROVE  RInv'
<1>1. \/ [RNext]_rvars
      \/ Eventful /\ UNCHANGED <<status, retryCount, queue, stage, batch, admin>>
  BY DEF ANext, wavars, MonitorStep, StartCycle, QueryFails, RowFails, CountFailure,
     InsertAlert, NoteAlert, PostFails, PostCrash, RestartAtWork, RestartAtRest,
     Clock, RNext, JobStep
<1>2. CASE Eventful /\ UNCHANGED <<status, retryCount, queue, stage, batch, admin>>
  <2>1. events' \in 0 .. MaxEvents
    BY <1>2, EventfulType DEF RInv, RTypeOK
  <2>2. RTypeOK'
    BY <1>2, <2>1 DEF RInv, RTypeOK
  <2> QED
    BY <1>2, <2>2 DEF RInv, DistinctInv, MarkInv, DeadLettersAreQueued, Items,
       BoundInv, Bound, Raisers, Raises, Exhausted
<1> QED
  BY <1>1, <1>2, RInductive

(* The time, the rows of AlertLog, and what an instance remembers.         *)
Times == 0 .. MaxTime

AlertRow == [by : Instances, at : Times, told : {Awaited, Lost} \cup Times]

AlertTypes ==
  /\ now \in Times
  /\ due \in [Instances -> Nat]
  /\ recent \in [Instances -> Seq(Times)]
  /\ lastAlert \in [Instances -> {LongAgo} \cup Times]
  /\ posting \in [Instances -> SUBSET {"failures", "crash"}]
  /\ unposted \subseteq Instances
  /\ alertLog \subseteq AlertRow
  /\ crashLog \subseteq Instances

(* An alert about failures is on its way only while its cycle is reported. *)
PostingInv ==
  \A n \in Instances : "failures" \in posting[n] => stage[n] = "idle" /\ due[n] > 0

(* What becomes of the row an instance waits for; the others keep theirs.  *)
LEMMA SettledRows ==
  ASSUME alertLog \subseteq AlertRow, NEW n \in Instances,
         NEW t \in {Lost} \cup Times, alertLog' = Settled(n, t)
  PROVE  /\ alertLog' \subseteq AlertRow
         /\ AwaitedBy(n)' = {}
         /\ \A row \in RowsOf(n) : row.told # Awaited => row \in RowsOf(n)'
         /\ \A row \in AwaitedBy(n) :
              \E new \in RowsOf(n)' : new.at = row.at /\ new.told = t
         /\ \A new \in RowsOf(n)' :
              \/ new \in RowsOf(n) /\ new.told # Awaited
              \/ \E row \in AwaitedBy(n) : new.at = row.at /\ new.told = t
         /\ \A m \in Instances \ {n} :
              RowsOf(m)' = RowsOf(m) /\ AwaitedBy(m)' = AwaitedBy(m)
<1> DEFINE told(row) == [row EXCEPT !.told = t]
<1>1. \A row \in AlertRow :
        /\ told(row) \in AlertRow
        /\ told(row).by = row.by /\ told(row).at = row.at /\ told(row).told = t
  BY DEF AlertRow
<1>2. t # Awaited
  BY DEF Lost, Awaited, Times
<1>3. AwaitedBy(n) \subseteq AlertRow /\ \A row \in AwaitedBy(n) : row.by = n
  BY DEF AwaitedBy, RowsOf
<1>4. alertLog' = (alertLog \ AwaitedBy(n)) \cup {told(row) : row \in AwaitedBy(n)}
  BY DEF Settled
<1> HIDE DEF told
<1>5. \A new \in alertLog' :
        \/ new \in alertLog /\ new \notin AwaitedBy(n)
        \/ \E row \in AwaitedBy(n) : new = told(row)
  BY <1>4
<1>6. alertLog' \subseteq AlertRow
  BY <1>1, <1>3, <1>5
<1>7. \A new \in RowsOf(n)' :
        \/ new \in RowsOf(n) /\ new.told # Awaited
        \/ \E row \in AwaitedBy(n) : new.at = row.at /\ new.told = t
  <2> SUFFICES ASSUME NEW new \in RowsOf(n)'
               PROVE  \/ new \in RowsOf(n) /\ new.told # Awaited
                      \/ \E row \in AwaitedBy(n) : new.at = row.at /\ new.told = t
    OBVIOUS
  <2>1. new \in alertLog' /\ new.by = n
    BY DEF RowsOf
  <2>2. CASE new \in alertLog /\ new \notin AwaitedBy(n)
    BY <2>1, <2>2 DEF RowsOf, AwaitedBy
  <2>3. CASE \E row \in AwaitedBy(n) : new = told(row)
    BY <1>1, <1>3, <2>3
  <2> QED
    BY <1>5, <2>1, <2>2, <2>3
<1>8. AwaitedBy(n)' = {}
  BY <1>2, <1>7 DEF AwaitedBy
<1>9. \A row \in RowsOf(n) : row.told # Awaited => row \in RowsOf(n)'
  BY <1>4 DEF RowsOf, AwaitedBy
<1>10. \A row \in AwaitedBy(n) :
         \E new \in RowsOf(n)' : new.at = row.at /\ new.told = t
  <2> SUFFICES ASSUME NEW row \in AwaitedBy(n)
               PROVE  \E new \in RowsOf(n)' : new.at = row.at /\ new.told = t
    OBVIOUS
  <2>1. told(row) \in RowsOf(n)'
    BY <1>1, <1>3, <1>4 DEF RowsOf
  <2> QED
    BY <1>1, <1>3, <2>1
<1>11. ASSUME NEW m \in Instances \ {n}
       PROVE  RowsOf(m)' = RowsOf(m) /\ AwaitedBy(m)' = AwaitedBy(m)
  <2>1. \A new \in alertLog' : new.by = m => new \in alertLog
    BY <1>1, <1>3, <1>5
  <2>2. \A row \in alertLog : row.by = m => row \in alertLog'
    BY <1>3, <1>4
  <2>3. RowsOf(m)' = RowsOf(m)
    BY <2>1, <2>2 DEF RowsOf
  <2> QED
    BY <2>3 DEF AwaitedBy
<1> QED
  BY <1>6, <1>7, <1>8, <1>9, <1>10, <1>11

(* A new row is awaited.                                                   *)
LEMMA InsertedRows ==
  ASSUME alertLog \subseteq AlertRow, NEW n \in Instances, now \in Times,
         alertLog' = alertLog \cup {[by |-> n, at |-> now, told |-> Awaited]}
  PROVE  /\ alertLog' \subseteq AlertRow
         /\ \A row \in RowsOf(n) : row \in RowsOf(n)'
         /\ \A new \in RowsOf(n)' :
              new \in RowsOf(n) \/ (new.at = now /\ new.told = Awaited)
         /\ \A m \in Instances \ {n} :
              RowsOf(m)' = RowsOf(m) /\ AwaitedBy(m)' = AwaitedBy(m)
<1> DEFINE r == [by |-> n, at |-> now, told |-> Awaited]
<1>1. r \in AlertRow /\ r.by = n /\ r.at = now /\ r.told = Awaited
  BY DEF AlertRow
<1>2. alertLog' = alertLog \cup {r}
  OBVIOUS
<1> HIDE DEF r
<1>3. ASSUME NEW m \in Instances \ {n}
      PROVE  RowsOf(m)' = RowsOf(m) /\ AwaitedBy(m)' = AwaitedBy(m)
  <2>1. RowsOf(m)' = RowsOf(m)
    BY <1>1, <1>2 DEF RowsOf
  <2> QED
    BY <2>1 DEF AwaitedBy
<1> QED
  BY <1>1, <1>2, <1>3 DEF RowsOf

LEMMA RememberedType ==
  ASSUME AlertTypes, NEW n \in Instances
  PROVE  /\ Remembered(n) \in Seq(Times)
         /\ Remembered(n) # <<>> /\ Last(Remembered(n)) = now
<1>1. recent[n] \in Seq(Times) /\ now \in Times /\ now \in Int /\ Window \in Nat \ {0}
  BY AlertsAssumption DEF AlertTypes, Times
<1>2. Append(recent[n], now) \in Seq(Times)
  BY <1>1
<1>3. Filter(Append(recent[n], now), LaterThan(now - Window)) \in Seq(Times \cap LaterThan(now - Window))
  BY <1>2, FilterType
<1>4. Remembered(n) \in Seq(Times)
  BY <1>3 DEF Remembered
<1>5. now \in LaterThan(now - Window)
  BY <1>1 DEF LaterThan
<1>6. Filter(Append(recent[n], now), LaterThan(now - Window))
        = Append(Filter(recent[n], LaterThan(now - Window)), now)
  BY <1>1, <1>5, FilterAppends
<1>7. Filter(recent[n], LaterThan(now - Window)) \in Seq(Times \cap LaterThan(now - Window))
  BY <1>1, FilterType
<1>8. Remembered(n) = Append(Filter(recent[n], LaterThan(now - Window)), now)
  BY <1>6 DEF Remembered
<1> DEFINE rest == Filter(recent[n], LaterThan(now - Window))
<1>9. rest \in Seq(Times)
  BY <1>7
<1> HIDE DEF rest
<1>10. Len(Append(rest, now)) = Len(rest) + 1 /\ Len(rest) \in Nat
       /\ Append(rest, now)[Len(rest) + 1] = now
  BY <1>1, <1>9
<1>11. Append(rest, now) # <<>> /\ Last(Append(rest, now)) = now
  BY <1>10 DEF Last
<1> QED
  BY <1>4, <1>8, <1>11 DEF rest

LEMMA AlertTypesStep ==
  ASSUME AlertTypes, PostingInv, [ANext]_wavars
  PROVE  AlertTypes'
<1> USE DEF AlertTypes
<1>1. ASSUME NEW n \in Instances, CountFailure(n)
      PROVE  AlertTypes'
  <2>1. Remembered(n) \in Seq(Times)
    BY RememberedType
  <2>2. recent' \in [Instances -> Seq(Times)]
    BY <1>1, <2>1 DEF CountFailure
  <2>3. due' \in [Instances -> Nat]
    <3>1. due' = due \/ due' = [due EXCEPT ![n] = @ - 1]
      BY <1>1, Zenon DEF CountFailure
    <3>2. due[n] \in Nat /\ due[n] > 0
      BY <1>1 DEF CountFailure
    <3> QED
      BY <3>1, <3>2
  <2>4. posting' \in [Instances -> SUBSET {"failures", "crash"}]
    BY <1>1 DEF CountFailure
  <2> QED
    BY <1>1, <2>2, <2>3, <2>4 DEF CountFailure
<1>2. ASSUME NEW n \in Instances, InsertAlert(n) \/ NoteAlert(n)
      PROVE  AlertTypes'
  <2>1. CASE InsertAlert(n)
    <3>1. alertLog' \subseteq AlertRow
      BY <2>1, InsertedRows DEF InsertAlert
    <3> QED
      BY <2>1, <3>1 DEF InsertAlert, memory
  <2>2. CASE NoteAlert(n)
    <3>1. due' \in [Instances -> Nat]
      BY <2>2 DEF NoteAlert, PostingInv
    <3>2. posting' \in [Instances -> SUBSET {"failures", "crash"}]
      BY <2>2 DEF NoteAlert
    <3>3. alertLog' \subseteq AlertRow
      BY <2>2, SettledRows DEF NoteAlert
    <3>4. lastAlert' \in [Instances -> {LongAgo} \cup Times]
      BY <2>2 DEF NoteAlert
    <3> QED
      BY <2>2, <3>1, <3>2, <3>3, <3>4 DEF NoteAlert
  <2> QED
    BY <1>2, <2>1, <2>2
<1>3. ASSUME NEW n \in Instances,
             QueryFails(n) \/ RowFails(n) \/ PostFails(n) \/ PostCrash(n) \/ Forget(n)
      PROVE  AlertTypes'
  <2>1. CASE QueryFails(n)
    BY <2>1 DEF QueryFails
  <2>2. CASE RowFails(n)
    BY <2>2 DEF RowFails
  <2>3. CASE PostFails(n)
    <3>1. alertLog' \subseteq AlertRow
      BY <2>3, SettledRows DEF PostFails
    <3> QED
      BY <2>3, <3>1 DEF PostFails
  <2>4. CASE PostCrash(n)
    BY <2>4 DEF PostCrash
  <2>5. CASE Forget(n)
    <3>1. recent' \in [Instances -> Seq(Times)]
      BY <2>5 DEF Forget
    <3>2. alertLog' \subseteq AlertRow
      BY <2>5, SettledRows DEF Forget
    <3> QED
      BY <2>5, <3>1, <3>2 DEF Forget
  <2> QED
    BY <1>3, <2>1, <2>2, <2>3, <2>4, <2>5
<1>4. CASE Clock
  BY <1>4, AlertsAssumption DEF Clock, memory, Times
<1>5. CASE UNCHANGED avars
  BY <1>5 DEF avars, memory
<1> QED
  BY <1>1, <1>2, <1>3, <1>4, <1>5 DEF ANext, wavars, MonitorStep, StartCycle,
     RestartAtWork, RestartAtRest

LEMMA PostingStep ==
  ASSUME AlertTypes, RTypeOK, PostingInv, [ANext]_wavars
  PROVE  PostingInv'
<1> SUFFICES ASSUME NEW n \in Instances, "failures" \in posting'[n]
             PROVE  stage'[n] = "idle" /\ due'[n] > 0
  BY DEF PostingInv
<1> USE DEF AlertTypes, RTypeOK
<1>1. CASE CountFailure(n)
  BY <1>1 DEF CountFailure, rvars
<1>2. ASSUME NEW m \in Instances, m # n,
             CountFailure(m) \/ NoteAlert(m) \/ PostFails(m) \/ PostCrash(m)
               \/ QueryFails(m)
      PROVE  stage'[n] = stage[n] /\ due'[n] = due[n] /\ posting'[n] = posting[n]
  BY <1>2 DEF CountFailure, NoteAlert, PostFails, PostCrash, QueryFails, rvars
<1>3. ASSUME NEW m \in Instances, m # n, RowFails(m) \/ RestartAtWork(m) \/ RestartAtRest(m)
      PROVE  stage'[n] = stage[n] /\ due'[n] = due[n] /\ posting'[n] = posting[n]
  BY <1>3 DEF RowFails, RestartAtWork, RestartAtRest, StatementFails, Advance, Restart, Forget
<1>4. ASSUME NEW m \in Instances, m # n,
             StartCycle(m) \/ ((Retry(m) \/ AddToQueue(m) \/ MarkDeadLetter(m)) /\ UNCHANGED avars)
      PROVE  stage'[n] = stage[n] /\ due'[n] = due[n] /\ posting'[n] = posting[n]
  BY <1>4 DEF StartCycle, Tick, Retry, AddToQueue, MarkDeadLetter, Advance, avars, memory
<1>5. CASE \/ NoteAlert(n) \/ PostFails(n) \/ RestartAtWork(n) \/ RestartAtRest(n)
  <2>1. "failures" \notin posting'[n]
    BY <1>5 DEF NoteAlert, PostFails, RestartAtWork, RestartAtRest, Forget
  <2> QED
    BY <2>1
<1>6. CASE QueryFails(n) \/ PostCrash(n)
  BY <1>6 DEF QueryFails, PostCrash, PostingInv, rvars
<1>7. CASE \/ RowFails(n) \/ StartCycle(n)
           \/ (Retry(n) \/ AddToQueue(n) \/ MarkDeadLetter(n)) /\ UNCHANGED avars
  <2>1. posting' = posting
    BY <1>7 DEF RowFails, StartCycle, avars, memory
  <2>2. stage[n] # "idle" \/ due[n] = 0
    BY <1>7 DEF RowFails, StatementFails, StartCycle, Resting, Retry, AddToQueue,
       MarkDeadLetter
  <2> QED
    BY <2>1, <2>2 DEF PostingInv
<1>8. CASE \/ Clock \/ (AdminStep /\ UNCHANGED avars) \/ UNCHANGED wavars
           \/ \E m \in Instances : InsertAlert(m)
  BY <1>8 DEF Clock, InsertAlert, AdminStep, RetryRead, RetryReset, ResolveItem, ArchiveItem,
     wavars, avars, memory, rvars, PostingInv
<1> QED
  BY <1>1, <1>2, <1>3, <1>4, <1>5, <1>6, <1>7, <1>8 DEF ANext, MonitorStep, PostingInv

LEMMA AlertsInvariant == ASpec => [](RInv /\ AlertTypes /\ PostingInv)
<1>1. AInit => RInv /\ AlertTypes /\ PostingInv
  <2> SUFFICES ASSUME AInit PROVE AlertTypes /\ PostingInv
    BY RInitInv DEF AInit
  <2> QED
    BY AlertsAssumption DEF AInit, AlertTypes, PostingInv, Times
<1>2. /\ RInv /\ AlertTypes /\ PostingInv /\ [ANext]_wavars
      => (RInv /\ AlertTypes /\ PostingInv)'
  BY AlertsKeepRetry, AlertTypesStep, PostingStep DEF RInv
<1> QED
  BY <1>1, <1>2, PTL DEF ASpec

(* The jobs, their memory and the tables are well typed, and an instance   *)
(* that inserts an alert is still reporting the cycle it is about.         *)
THEOREM AlertsTypeCorrect == ASpec => []ATypeOK
<1>1. RInv /\ AlertTypes /\ PostingInv => ATypeOK
  BY DEF RInv, AlertTypes, AlertRow, PostingInv, ATypeOK, Times
<1> QED
  BY <1>1, AlertsInvariant, PTL

(* What holds of the dead letters holds of them beside the alerts.         *)
THEOREM DeadLettersKept == ASpec => []DeadLettersAreQueued
<1>1. RInv => DeadLettersAreQueued
  BY DEF RInv
<1> QED
  BY <1>1, AlertsInvariant, PTL

-----------------------------------------------------------------------------
(***************************************************************************)
(* The distance of alerts, and that none is missing.  The time of the last *)
(* alert is noted after an await: what is on its way is far enough from it *)
(* (SpacedInv), and none of what it was told of is younger.  A burst has   *)
(* its alert when it is counted; as long as one is on its way or was       *)
(* refused there is nothing to show (BurstInv), and a row it is told of    *)
(* too late, or never, is not older than the burst.                        *)
(***************************************************************************)
Spaced(n) ==
  /\ "failures" \in posting[n] => now - lastAlert[n] > Spacing
  /\ "failures" \notin posting[n] => AwaitedBy(n) = {}
  /\ lastAlert[n] # LongAgo =>
       /\ \E row \in RowsOf(n) : row.told = lastAlert[n]
       /\ \A row \in RowsOf(n) : row.told \in Times => row.told <= lastAlert[n]
  /\ lastAlert[n] <= now
  /\ \A row \in RowsOf(n) : row.told \in Times => row.told <= now
  /\ recent[n] # <<>> => Last(recent[n]) <= now
  /\ \A row \in AwaitedBy(n) :
       recent[n] # <<>> => Last(recent[n]) <= row.at

SpacedInv == \A n \in Instances : Spaced(n)

When(row) == IF row.told = Lost THEN row.at ELSE row.told

Alerted(n) ==
  Len(recent[n]) >= Threshold =>
    \E row \in RowsOf(n) : Last(recent[n]) - When(row) <= Spacing

BurstInv == \A n \in Instances \ unposted : "failures" \notin posting[n] => Alerted(n)

(* What a step that is not about an instance leaves alone.                 *)
Untouched(n) ==
  /\ recent'[n] = recent[n] /\ lastAlert'[n] = lastAlert[n] /\ posting'[n] = posting[n]
  /\ RowsOf(n)' = RowsOf(n) /\ AwaitedBy(n)' = AwaitedBy(n)
  /\ now' = now /\ (n \in unposted' <=> n \in unposted)

LEMMA UntouchedKeeps ==
  ASSUME NEW n \in Instances, Untouched(n)
  PROVE  (Spaced(n) => Spaced(n)') /\ (Alerted(n) => Alerted(n)')
<1>1. Spaced(n) => Spaced(n)'
  BY DEF Spaced, Untouched
<1>2. Alerted(n) => Alerted(n)'
  BY DEF Alerted, Untouched, When
<1> QED
  BY <1>1, <1>2

(* Every step counts a failure, puts it into the table, is told of it or   *)
(* fails to, forgets, lets time pass, or adds at most a crash to what an   *)
(* instance posts.                                                         *)
LEMMA AlertSteps ==
  ASSUME AlertTypes, NEW n \in Instances, [ANext]_wavars
  PROVE  \/ CountFailure(n) \/ InsertAlert(n) \/ NoteAlert(n) \/ PostFails(n)
         \/ Forget(n) \/ Clock \/ QueryFails(n) \/ PostCrash(n)
         \/ Untouched(n)
<1>0. alertLog \subseteq AlertRow /\ now \in Times
  BY DEF AlertTypes
<1>1. ASSUME NEW m \in Instances, m # n,
             CountFailure(m) \/ PostCrash(m) \/ QueryFails(m)
      PROVE  Untouched(n)
  <2>1. /\ alertLog' = alertLog /\ unposted' = unposted /\ now' = now
        /\ recent'[n] = recent[n] /\ lastAlert'[n] = lastAlert[n]
        /\ posting'[n] = posting[n]
    BY <1>1 DEF AlertTypes, CountFailure, PostCrash, QueryFails
  <2> QED
    BY <2>1 DEF Untouched, RowsOf, AwaitedBy
<1>2. ASSUME NEW m \in Instances, m # n,
             InsertAlert(m) \/ NoteAlert(m) \/ PostFails(m) \/ Forget(m)
      PROVE  Untouched(n)
  <2>1. RowsOf(n)' = RowsOf(n) /\ AwaitedBy(n)' = AwaitedBy(n)
    <3>1. CASE InsertAlert(m)
      BY <1>0, <1>2, <3>1, InsertedRows DEF InsertAlert
    <3>2. CASE NoteAlert(m) \/ PostFails(m) \/ Forget(m)
      BY <1>0, <1>2, <3>2, SettledRows DEF NoteAlert, PostFails, Forget
    <3> QED
      BY <1>2, <3>1, <3>2
  <2>2. /\ now' = now /\ (n \in unposted' <=> n \in unposted)
        /\ recent'[n] = recent[n] /\ lastAlert'[n] = lastAlert[n]
        /\ posting'[n] = posting[n]
    BY <1>2 DEF AlertTypes, InsertAlert, NoteAlert, PostFails, Forget, memory
  <2> QED
    BY <2>1, <2>2 DEF Untouched
<1>3. ASSUME UNCHANGED <<recent, lastAlert, posting, alertLog, now, unposted>>
      PROVE  Untouched(n)
  BY <1>3 DEF Untouched, RowsOf, AwaitedBy
<1>4. ASSUME NEW m \in Instances, RowFails(m)
      PROVE  Untouched(n)
  BY <1>3, <1>4 DEF RowFails
<1>5. ASSUME UNCHANGED avars
      PROVE  Untouched(n)
  BY <1>3, <1>5 DEF avars, memory
<1> QED
  BY <1>1, <1>2, <1>4, <1>5 DEF ANext, wavars, MonitorStep, StartCycle,
     RestartAtWork, RestartAtRest

LEMMA CountKeeps ==
  ASSUME AlertTypes, NEW n \in Instances, Spaced(n), CountFailure(n)
  PROVE  /\ Spaced(n)'
         /\ n \in unposted' <=> n \in unposted
         /\ "failures" \notin posting'[n] => Alerted(n)'
<1> USE DEF AlertTypes
<1>1. /\ "failures" \notin posting[n] /\ recent'[n] = Remembered(n)
      /\ now' = now /\ lastAlert' = lastAlert /\ alertLog' = alertLog /\ unposted' = unposted
      /\ RowsOf(n)' = RowsOf(n) /\ AwaitedBy(n)' = AwaitedBy(n)
  BY DEF CountFailure, RowsOf, AwaitedBy
<1>2. Last(recent'[n]) = now
  BY <1>1, RememberedType
<1>3. /\ now \in Int /\ 0 <= now /\ Spacing \in Nat /\ lastAlert[n] \in Int
  BY AlertsAssumption DEF Times, LongAgo
<1>4. AwaitedBy(n)' = {}
  BY <1>1 DEF Spaced
<1>5. CASE TooMany(n) /\ MayAlert(n)
  <2>1. now - lastAlert[n] > Spacing
    BY <1>5 DEF MayAlert
  <2>2. "failures" \in posting'[n]
    BY <1>5 DEF CountFailure
  <2> QED
    BY <1>1, <1>2, <1>3, <1>4, <2>1, <2>2 DEF Spaced
<1>6. CASE ~(TooMany(n) /\ MayAlert(n))
  <2>1. posting' = posting
    BY <1>6, Zenon DEF CountFailure
  <2>2. Spaced(n)'
    BY <1>1, <1>2, <1>3, <1>4, <2>1 DEF Spaced
  <2>3. Alerted(n)'
    <3> SUFFICES ASSUME Len(recent'[n]) >= Threshold
                 PROVE  \E row \in RowsOf(n) : now - When(row) <= Spacing
      BY <1>1, <1>2 DEF Alerted, When
    <3>1. ~(now - lastAlert[n] > Spacing)
      BY <1>1, <1>6 DEF TooMany, MayAlert
    <3>2. lastAlert[n] # LongAgo
      BY <1>3, <3>1 DEF LongAgo
    <3>3. PICK row \in RowsOf(n) : row.told = lastAlert[n]
      BY <3>2 DEF Spaced
    <3>4. lastAlert[n] \in Times
      BY <3>2
    <3>5. lastAlert[n] # Lost
      BY <3>4 DEF Times, Lost
    <3> QED
      BY <1>3, <3>1, <3>3, <3>5 DEF When
  <2> QED
    BY <1>1, <2>2, <2>3
<1> QED
  BY <1>5, <1>6

(* The times of what an instance remembers.                                *)
LEMMA LastTime ==
  ASSUME AlertTypes, NEW n \in Instances, recent[n] # <<>>
  PROVE  Last(recent[n]) \in Times /\ Last(recent[n]) \in Int
<1>1. recent[n] \in Seq(Times)
  BY DEF AlertTypes
<1>2. recent[n][Len(recent[n])] \in Times
  BY <1>1
<1> QED
  BY <1>2 DEF Last, Times

LEMMA InsertKeeps ==
  ASSUME AlertTypes, NEW n \in Instances, Spaced(n), InsertAlert(n)
  PROVE  Spaced(n)' /\ "failures" \in posting'[n]
<1>1. /\ "failures" \in posting[n] /\ posting' = posting /\ recent' = recent
      /\ now' = now /\ lastAlert' = lastAlert /\ AwaitedBy(n) = {}
  BY DEF InsertAlert, memory
<1>2. /\ \A row \in RowsOf(n) : row \in RowsOf(n)'
      /\ \A new \in RowsOf(n)' :
           new \in RowsOf(n) \/ (new.at = now /\ new.told = Awaited)
  BY InsertedRows DEF InsertAlert, AlertTypes
<1>3. Awaited \notin Times
  BY DEF Awaited, Times
<1>4. \A row \in AwaitedBy(n)' : row.at = now
  BY <1>1, <1>2 DEF AwaitedBy
<1> QED
  BY <1>1, <1>2, <1>3, <1>4 DEF Spaced

(* Who is told of the row looks at a burst that ended before.              *)
LEMMA NoteKeeps ==
  ASSUME AlertTypes, NEW n \in Instances, Spaced(n), NoteAlert(n)
  PROVE  Spaced(n)' /\ Alerted(n)'
<1>1. /\ "failures" \notin posting'[n] /\ recent' = recent /\ now' = now
      /\ lastAlert'[n] = now /\ AwaitedBy(n) # {} /\ now \in Times
  BY DEF NoteAlert, AlertTypes
<1>2. /\ AwaitedBy(n)' = {}
      /\ \A row \in AwaitedBy(n) :
           \E new \in RowsOf(n)' : new.at = row.at /\ new.told = now
      /\ \A new \in RowsOf(n)' :
           \/ new \in RowsOf(n) /\ new.told # Awaited
           \/ \E row \in AwaitedBy(n) : new.at = row.at /\ new.told = now
  BY <1>1, SettledRows DEF NoteAlert, AlertTypes
<1>3. now \in Int /\ Spacing \in Nat /\ Threshold \in Nat \ {0} /\ now # Lost
  BY <1>1, AlertsAssumption DEF Times, Lost
<1>4. PICK new \in RowsOf(n)' : new.told = now
  BY <1>1, <1>2
<1>5. \A row \in RowsOf(n)' : row.told \in Times => row.told <= now
  BY <1>2, <1>3 DEF Spaced
<1>6. Spaced(n)'
  BY <1>1, <1>2, <1>3, <1>4, <1>5 DEF Spaced
<1>7. ASSUME Len(recent[n]) >= Threshold
      PROVE  Last(recent[n]) - now <= Spacing
  <2>1. recent[n] # <<>>
    BY <1>3, <1>7 DEF AlertTypes
  <2> QED
    BY <1>3, <2>1, LastTime DEF Spaced
<1> QED
  BY <1>1, <1>3, <1>4, <1>6, <1>7 DEF Alerted, When

(* A row nobody is told of is there all the same.                          *)
LEMMA FailKeeps ==
  ASSUME AlertTypes, NEW n \in Instances, Spaced(n), PostFails(n)
  PROVE  /\ Spaced(n)'
         /\ n \notin unposted' => Alerted(n)'
<1>1. /\ "failures" \notin posting'[n] /\ recent' = recent /\ now' = now
      /\ lastAlert' = lastAlert
      /\ n \notin unposted' => AwaitedBy(n) # {}
  BY DEF PostFails, AlertTypes
<1>2. /\ AwaitedBy(n)' = {}
      /\ \A row \in RowsOf(n) : row.told # Awaited => row \in RowsOf(n)'
      /\ \A row \in AwaitedBy(n) :
           \E new \in RowsOf(n)' : new.at = row.at /\ new.told = Lost
      /\ \A new \in RowsOf(n)' :
           \/ new \in RowsOf(n) /\ new.told # Awaited
           \/ \E row \in AwaitedBy(n) : new.at = row.at /\ new.told = Lost
  BY SettledRows DEF PostFails, AlertTypes
<1>3. /\ Lost \notin Times /\ Awaited \notin Times
      /\ LongAgo # Awaited => lastAlert[n] # Awaited
  BY DEF Lost, Awaited, Times, AlertTypes
<1>4. lastAlert[n] # LongAgo =>
        /\ \E row \in RowsOf(n)' : row.told = lastAlert[n]
        /\ \A row \in RowsOf(n)' : row.told \in Times => row.told <= lastAlert[n]
  <2> SUFFICES ASSUME lastAlert[n] # LongAgo
               PROVE  /\ \E row \in RowsOf(n)' : row.told = lastAlert[n]
                      /\ \A row \in RowsOf(n)' :
                           row.told \in Times => row.told <= lastAlert[n]
    OBVIOUS
  <2>1. lastAlert[n] \in Times
    BY DEF AlertTypes
  <2>2. PICK row \in RowsOf(n) : row.told = lastAlert[n]
    BY DEF Spaced
  <2>3. row \in RowsOf(n)'
    BY <1>2, <1>3, <2>1, <2>2
  <2>4. \A new \in RowsOf(n)' : new.told \in Times => new \in RowsOf(n)
    BY <1>2, <1>3
  <2> QED
    BY <2>2, <2>3, <2>4 DEF Spaced
<1>5. Spaced(n)'
  BY <1>1, <1>2, <1>3, <1>4 DEF Spaced
<1>6. ASSUME n \notin unposted'
      PROVE  Alerted(n)'
  <2>1. PICK row \in AwaitedBy(n) : TRUE
    BY <1>1, <1>6
  <2>2. PICK new \in RowsOf(n)' : new.at = row.at /\ new.told = Lost
    BY <1>2, <2>1
  <2>3. row.at \in Int /\ Spacing \in Nat /\ Threshold \in Nat \ {0}
    BY <2>1, AlertsAssumption DEF AlertTypes, AwaitedBy, RowsOf, AlertRow, Times
  <2>4. ASSUME Len(recent[n]) >= Threshold
        PROVE  Last(recent[n]) - row.at <= Spacing
    <3>1. recent[n] # <<>>
      BY <2>3, <2>4 DEF AlertTypes
    <3> QED
      BY <2>1, <2>3, <3>1, LastTime DEF Spaced
  <2> QED
    BY <1>1, <2>2, <2>4 DEF Alerted, When
<1> QED
  BY <1>5, <1>6

LEMMA ForgetKeeps ==
  ASSUME AlertTypes, NEW n \in Instances, Spaced(n), Forget(n)
  PROVE  Spaced(n)' /\ Alerted(n)'
<1>1. /\ recent'[n] = <<>> /\ now' = now /\ lastAlert'[n] = LongAgo
      /\ "failures" \notin posting'[n]
  BY DEF Forget, AlertTypes
<1>2. /\ AwaitedBy(n)' = {}
      /\ \A new \in RowsOf(n)' :
           \/ new \in RowsOf(n) /\ new.told # Awaited
           \/ \E row \in AwaitedBy(n) : new.at = row.at /\ new.told = Lost
  BY SettledRows DEF Forget, AlertTypes
<1>3. /\ now \in Int /\ 0 <= now /\ LongAgo \in Int /\ LongAgo < 0
      /\ Threshold \in Nat \ {0} /\ Lost \notin Times
  BY AlertsAssumption DEF AlertTypes, Times, LongAgo, Lost
<1>4. \A row \in RowsOf(n)' : row.told \in Times => row.told <= now
  BY <1>2, <1>3 DEF Spaced
<1>5. Spaced(n)'
  BY <1>1, <1>2, <1>3, <1>4 DEF Spaced
<1>6. Alerted(n)'
  BY <1>1, <1>3 DEF Alerted
<1> QED
  BY <1>5, <1>6

LEMMA SpacingStep ==
  ASSUME AlertTypes, NEW n \in Instances, Spaced(n),
         n \notin unposted /\ "failures" \notin posting[n] => Alerted(n),
         [ANext]_wavars
  PROVE  /\ Spaced(n)'
         /\ n \notin unposted' /\ "failures" \notin posting'[n] => Alerted(n)'
<1>1. CASE \/ CountFailure(n) \/ InsertAlert(n) \/ NoteAlert(n) \/ PostFails(n)
           \/ Forget(n) \/ Untouched(n)
  <2>1. CASE Untouched(n)
    BY <2>1, UntouchedKeeps DEF Untouched
  <2> QED
    BY <1>1, <2>1, CountKeeps, InsertKeeps, NoteKeeps, FailKeeps, ForgetKeeps
<1>2. CASE QueryFails(n) \/ PostCrash(n)
  <2>1. /\ recent' = recent /\ now' = now /\ lastAlert' = lastAlert /\ alertLog' = alertLog
        /\ "failures" \in posting'[n] <=> "failures" \in posting[n]
        /\ unposted' = unposted
    BY <1>2 DEF QueryFails, PostCrash, AlertTypes
  <2>2. RowsOf(n)' = RowsOf(n) /\ AwaitedBy(n)' = AwaitedBy(n)
    BY <2>1 DEF RowsOf, AwaitedBy
  <2> QED
    BY <2>1, <2>2 DEF Spaced, Alerted, When
<1>3. CASE Clock
  <2>1. /\ recent' = recent /\ now' = now + 1 /\ lastAlert' = lastAlert /\ alertLog' = alertLog
        /\ posting' = posting /\ unposted' = unposted
        /\ RowsOf(n)' = RowsOf(n) /\ AwaitedBy(n)' = AwaitedBy(n)
    BY <1>3 DEF Clock, memory, RowsOf, AwaitedBy
  <2>2. /\ now \in Int /\ Spacing \in Nat /\ lastAlert[n] \in Int
        /\ \A t \in Times : t \in Int
    BY AlertsAssumption DEF AlertTypes, Times, LongAgo
  <2>3. recent[n] # <<>> => Last(recent[n]) \in Int
    BY LastTime
  <2>4. Spaced(n)'
    BY <2>1, <2>2, <2>3 DEF Spaced
  <2> QED
    BY <2>1, <2>4 DEF Alerted, When
<1> QED
  BY <1>1, <1>2, <1>3, AlertSteps

LEMMA SpacingInvariant == ASpec => [](SpacedInv /\ BurstInv)
<1>1. AInit => SpacedInv /\ BurstInv
  BY AlertsAssumption DEF AInit, SpacedInv, Spaced, BurstInv, Alerted, LongAgo,
     RowsOf, AwaitedBy
<1>2. /\ AlertTypes /\ SpacedInv /\ BurstInv /\ [ANext]_wavars
      => SpacedInv' /\ BurstInv'
  <2> SUFFICES ASSUME AlertTypes, SpacedInv, BurstInv, [ANext]_wavars, NEW n \in Instances
               PROVE  /\ Spaced(n)'
                      /\ n \notin unposted' /\ "failures" \notin posting'[n] => Alerted(n)'
    BY DEF SpacedInv, BurstInv
  <2> QED
    BY SpacingStep DEF SpacedInv, BurstInv
<1> QED
  BY <1>1, <1>2, AlertsInvariant, PTL DEF ASpec

(* A burst of failures leaves its alert, for any threshold, window and     *)
(* spacing, any number of instances and any history of restarts, of        *)
(* refused inserts and of lost acknowledgements.                           *)
THEOREM NoBurstUnnoticed == ASpec => []BurstsAreAlerted
<1>1. PostingInv /\ AlertTypes /\ BurstInv => BurstsAreAlerted
  <2> SUFFICES ASSUME PostingInv, AlertTypes, BurstInv, NEW n \in Instances \ unposted,
                      Resting(n), Len(recent[n]) >= Threshold
               PROVE  \E row \in RowsOf(n) : Last(recent[n]) - When(row) <= Spacing
    BY DEF BurstsAreAlerted, When
  <2>1. "failures" \notin posting[n]
    BY DEF PostingInv, Resting
  <2> QED
    BY <2>1 DEF BurstInv, Alerted
<1> QED
  BY <1>1, AlertsInvariant, SpacingInvariant, PTL

(* One instance does not put an alert into the table within the spacing of *)
(* one it was told of, unless it restarted in between; however long the    *)
(* insert takes, and whichever inserts fail with or without a row.         *)
THEOREM AlertsKeepDistance == ASpec => AlertsAreSpaced
<1>1. AlertTypes /\ SpacedInv /\ [ANext]_wavars
        => [\A n \in Instances :
              \A row \in AwaitedBy(n)' \ AwaitedBy(n) :
                \/ lastAlert[n] = LongAgo
                \/ \A old \in RowsOf(n) :
                     old.told \in 0 .. MaxTime => row.at - old.told > Spacing]_wavars
  <2> SUFFICES ASSUME AlertTypes, SpacedInv, [ANext]_wavars, NEW n \in Instances,
                      NEW row \in AwaitedBy(n)' \ AwaitedBy(n), lastAlert[n] # LongAgo,
                      NEW old \in RowsOf(n), old.told \in Times
               PROVE  row.at - old.told > Spacing
    BY DEF Times
  <2>1. InsertAlert(n)
    <3>1. CASE CountFailure(n) \/ Clock \/ QueryFails(n) \/ PostCrash(n)
      <4>1. alertLog' = alertLog
        BY <3>1 DEF CountFailure, Clock, QueryFails, PostCrash
      <4> QED
        BY <4>1 DEF RowsOf, AwaitedBy
    <3>2. CASE Untouched(n)
      BY <3>2 DEF Untouched
    <3>3. CASE NoteAlert(n) \/ PostFails(n) \/ Forget(n)
      <4>1. AwaitedBy(n)' = {}
        BY <3>3, SettledRows DEF NoteAlert, PostFails, Forget, AlertTypes
      <4> QED
        BY <4>1
    <3> QED
      BY <3>1, <3>2, <3>3, AlertSteps
  <2>2. "failures" \in posting[n] /\ row.at = now
    <3>1. row \in RowsOf(n)' /\ row \notin RowsOf(n)
      BY <2>1 DEF AwaitedBy, RowsOf
    <3>2. row.at = now
      BY <2>1, <3>1, InsertedRows DEF InsertAlert, AlertTypes
    <3> QED
      BY <2>1, <3>2 DEF InsertAlert
  <2>3. now - lastAlert[n] > Spacing /\ old.told <= lastAlert[n]
    BY <2>2 DEF SpacedInv, Spaced
  <2>4. now \in Int /\ lastAlert[n] \in Int /\ old.told \in Int /\ Spacing \in Int
    BY AlertsAssumption DEF AlertTypes, Times, LongAgo
  <2> QED
    BY <2>2, <2>3, <2>4
<1> QED
  BY <1>1, AlertsInvariant, SpacingInvariant, PTL DEF ASpec, AlertsAreSpaced
=============================================================================
