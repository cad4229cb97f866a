----------------------------- MODULE WebhookRetry -----------------------------
(***************************************************************************)
(* WebhookRetryMonitor, WebhookRetryService and DeadLetterQueueService:    *)
(* every instance of the API runs the retry job on a timer of its own, all *)
(* of them on the same WebhookEvent and DeadLetterQueue tables, while      *)
(* administrators put dead letters back and close queue items.  No two     *)
(* statements of a job are in one transaction.                             *)
(*                                                                         *)
(* Rows of status "failed" or "error" are given: no code of the repository *)
(* writes them, the retry job finds them.                                  *)
(***************************************************************************)
EXTENDS Integers, Sequences, FiniteSets, SequencesExt

CONSTANTS
  Webhooks,     (* WebhookEvent rows, numbered in the order of receivedAt   *)
  Instances,    (* running copies of the API                                *)
  Admins,       (* concurrent administrator requests                        *)
  MaxRetries,   (* WEBHOOK_MAX_RETRIES                                      *)
  BatchSize,    (* take: of the batch query                                 *)
  MaxEvents     (* bound: what happens around the jobs, see Eventful        *)

ASSUME WebhooksAssumption ==
  /\ Webhooks \subseteq Nat \ {0} /\ IsFiniteSet(Webhooks)
  /\ IsFiniteSet(Instances)
ASSUME LimitsAssumption ==
  /\ MaxRetries \in Nat /\ BatchSize \in Nat \ {0}
  /\ MaxEvents \in Nat

VARIABLES
  status,       (* WebhookEvent.status                                      *)
  retryCount,   (* WebhookEvent.retryCount                                  *)
  queue,        (* DeadLetterQueue rows, in the order they were created     *)
  stage,        (* where the job of an instance is                          *)
  batch,        (* the rows an instance still has to work through           *)
  admin,        (* the row an administrator's retry has read, or 0          *)
  events        (* bookkeeping: restarts, failed statements and requests    *)
                (* of administrators so far                                 *)

rvars == <<status, retryCount, queue, stage, batch, admin, events>>

Retryable == {"failed", "error"}
Statuses  == {"pending", "processed", "ignored", "dead_letter"} \cup Retryable
ItemStatuses == {"pending", "manual_reviewed", "archived"}

-----------------------------------------------------------------------------

Retryables == {e \in Webhooks : status[e] \in Retryable}

InOrder(s) == \A i, j \in DOMAIN s : i < j => s[i] < s[j]

(* The first rows of a sequence, each with its retryCount as read.         *)
Batch(s) ==
  [k \in 1 .. (IF Len(s) < BatchSize THEN Len(s) ELSE BatchSize)
     |-> [id |-> s[k], count |-> retryCount[s[k]]]]

(* Slip: one retry too many.                                               *)
ExhaustedLate(row) == row.count >= MaxRetries

Exhausted(row) == row.count + 1 >= MaxRetries

NewItem(e) == [event |-> e, retries |-> retryCount[e], status |-> "pending"]

Items(e) == {k \in DOMAIN queue : queue[k].event = e}

(* The bound: every disturbance and every request is one of MaxEvents.     *)
Eventful ==
  /\ events < MaxEvents
  /\ events' = events + 1

RInit ==
  /\ status \in [Webhooks -> {"failed", "processed"}]
  /\ retryCount = [e \in Webhooks |-> 0]
  /\ queue = <<>>
  /\ stage = [n \in Instances |-> "idle"]
  /\ batch = [n \in Instances |-> <<>>]
  /\ admin = [a \in Admins |-> 0]
  /\ events = 0

(* setInterval; a tick that finds the job running does nothing.  findMany  *)
(* orders by receivedAt.                                                   *)
Tick(n) ==
  /\ stage[n] = "idle"
  /\ Retryables # {}
  /\ \E s \in SetToSeqs(Retryables) :
       InOrder(s) /\ batch' = [batch EXCEPT ![n] = Batch(s)]
  /\ stage' = [stage EXCEPT ![n] = "next"]
  /\ UNCHANGED <<status, retryCount, queue, admin, events>>

(* The job goes on to the next row of its batch, or ends.                  *)
Advance(n) ==
  /\ batch' = [batch EXCEPT ![n] = Tail(@)]
  /\ stage' = [stage EXCEPT ![n] = IF Len(batch[n]) = 1 THEN "idle" ELSE "next"]

(* Slip: the counter is not written.                                       *)
RetryUncounted(n) ==
  /\ stage[n] = "next"
  /\ ~Exhausted(Head(batch[n]))
  /\ Advance(n)
  /\ UNCHANGED <<status, retryCount, queue, admin, events>>

(* retryWebhookEvent: the counter goes up, whatever the status is by now.  *)
Retry(n) ==
  /\ stage[n] = "next"
  /\ ~Exhausted(Head(batch[n]))
  /\ retryCount' = [retryCount EXCEPT ![Head(batch[n]).id] = @ + 1]
  /\ Advance(n)
  /\ UNCHANGED <<status, queue, admin, events>>

(* Slip: the status first, and the queue afterwards.                       *)
MarkBeforeQueue(n) ==
  /\ stage[n] = "next"
  /\ Exhausted(Head(batch[n]))
  /\ status' = [status EXCEPT ![Head(batch[n]).id] = "dead_letter"]
  /\ stage' = [stage EXCEPT ![n] = "mark"]
  /\ UNCHANGED <<retryCount, queue, batch, admin, events>>

(* moveToDeadLetter: addToQueue, with the retryCount as it is now ...      *)
AddToQueue(n) ==
  /\ stage[n] = "next"
  /\ Exhausted(Head(batch[n]))
  /\ queue' = Append(queue, NewItem(Head(batch[n]).id))
  /\ stage' = [stage EXCEPT ![n] = "mark"]
  /\ UNCHANGED <<status, retryCount, batch, admin, events>>

(* ... and then the status.                                                *)
MarkDeadLetter(n) ==
  /\ stage[n] = "mark"
  /\ status' = [status EXCEPT ![Head(batch[n]).id] = "dead_letter"]
  /\ Advance(n)
  /\ UNCHANGED <<retryCount, queue, admin, events>>

(* A statement throws: the row is counted as a failure and skipped.        *)
StatementFails(n) ==
  /\ stage[n] \in {"next", "mark"}
  /\ Eventful
  /\ Advance(n)
  /\ UNCHANGED <<status, retryCount, queue, admin>>

(* Slip: a batch that outlives its job.                                    *)
RestartKeepsBatch(n) ==
  /\ stage[n] # "idle"
  /\ Eventful
  /\ stage' = [stage EXCEPT ![n] = "idle"]
  /\ UNCHANGED <<status, retryCount, queue, batch, admin>>

(* The instance restarts.                                                  *)
Restart(n) ==
  /\ stage[n] # "idle"
  /\ Eventful
  /\ stage' = [stage EXCEPT ![n] = "idle"]
  /\ batch' = [batch EXCEPT ![n] = <<>>]
  /\ UNCHANGED <<status, retryCount, queue, admin>>

(* manuallyRetryDeadLetter: read and test the status, then reset the row.  *)
RetryRead(a, e) ==
  /\ admin[a] = 0
  /\ status[e] = "dead_letter"
  /\ Eventful
  /\ admin' = [admin EXCEPT ![a] = e]
  /\ UNCHANGED <<status, retryCount, queue, stage, batch>>

RetryReset(a) ==
  /\ admin[a] # 0
  /\ status' = [status EXCEPT ![admin[a]] = "failed"]
  /\ retryCount' = [retryCount EXCEPT ![admin[a]] = 0]
  /\ admin' = [admin EXCEPT ![a] = 0]
  /\ UNCHANGED <<queue, stage, batch, events>>

(* resolve and archive test that the item exists and nothing else.         *)
ResolveItem(k) ==
  /\ Eventful
  /\ queue' = [queue EXCEPT ![k].status = "manual_reviewed"]
  /\ UNCHANGED <<status, retryCount, stage, batch, admin>>

ArchiveItem(k) ==
  /\ Eventful
  /\ queue' = [queue EXCEPT ![k].status = "archived"]
  /\ UNCHANGED <<status, retryCount, stage, batch, admin>>

JobStep(n) == Tick(n) \/ Retry(n) \/ AddToQueue(n) \/ MarkDeadLetter(n)

AdminStep ==
  \/ \E a \in Admins : RetryReset(a) \/ \E e \in Webhooks : RetryRead(a, e)
  \/ \E k \in DOMAIN queue : ResolveItem(k) \/ ArchiveItem(k)

RNext ==
  \/ \E n \in Instances : JobStep(n) \/ StatementFails(n) \/ Restart(n)
  \/ AdminStep

RSpec == RInit /\ [][RNext]_rvars
-----------------------------------------------------------------------------
RTypeOK ==
  /\ status \in [Webhooks -> Statuses]
  /\ retryCount \in [Webhooks -> Nat]
  /\ queue \in Seq([event : Webhooks, retries : Nat, status : ItemStatuses])
  /\ stage \in [Instances -> {"idle", "next", "mark"}]
  /\ batch \in [Instances -> Seq([id : Webhooks, count : Nat])]
  /\ \A n \in Instances : stage[n] = "idle" <=> batch[n] = <<>>
  /\ admin \in [Admins -> Webhooks \cup {0}]
  /\ events \in 0 .. MaxEvents

(* A dead letter is never lost from sight: whatever happens between the    *)
(* two statements of moveToDeadLetter, a row of status "dead_letter" has   *)
(* an item in the queue administrators read.                               *)
DeadLettersAreQueued ==
  \A e \in Webhooks : status[e] = "dead_letter" => Items(e) # {}

(* No retry is unlimited: with every instance counting on the same row,    *)
(* the counter stays below the sum of what the instances can still add.    *)
RetriesBounded ==
  \A e \in Webhooks :
    retryCount[e] = 0 \/ retryCount[e] <= MaxRetries - 2 + Cardinality(Instances)

(* A failed webhook does not stay failed: it is dead-lettered in the end,  *)
(* however many rows are ahead of it in the batches.                       *)
FailedIsDeadLettered ==
  \A e \in Webhooks : status[e] = "failed" ~> status[e] = "dead_letter"
=============================================================================
