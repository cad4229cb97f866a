----------------------------- MODULE WebhookAlerts -----------------------------
(***************************************************************************)
(* WebhookRetry together with what its monitor does with the failures of a *)
(* cycle: AlertsService.alertWebhookFailure, which remembers the failures  *)
(* of the last hour in the memory of the instance, and puts one row into   *)
(* AlertLog when there are too many of them, but not one every time.  The  *)
(* next cycle starts only when the last alert of this one is settled.      *)
(*                                                                         *)
(* Between the row and the note that it was made lies the awaited insert:  *)
(* time passes, and the insert may be done although it throws, or although *)
(* the instance dies, so that there is a row nobody has noted.             *)
(*                                                                         *)
(* A cycle that throws leaves a reconciliation_crash row, if it can: that  *)
(* insert is not awaited and its failure is swallowed.                     *)
(***************************************************************************)
EXTENDS WebhookRetry, Lists

CONSTANTS
  Threshold,    (* ALERT_WEBHOOK_FAILURE_THRESHOLD                          *)
  Window,       (* ALERT_WEBHOOK_FAILURE_WINDOW_MINUTES                     *)
  Spacing,      (* the five minutes between two alerts                      *)
  MaxTime       (* bound: the last tick of the clock                        *)

ASSUME AlertsAssumption ==
  /\ Threshold \in Nat \ {0} /\ Window \in Nat \ {0}
  /\ Spacing \in Nat /\ MaxTime \in Nat

VARIABLES
  now,          (* the clock                                                *)
  due,          (* failures of the cycle the monitor has yet to report      *)
  recent,       (* recentWebhookFailures: the times of the failures         *)
  lastAlert,    (* lastWebhookFailureAlert, or LongAgo                      *)
  posting,      (* alert rows being inserted: of failures, of a crash       *)
  alertLog,     (* AlertLog rows about failures, with their time, and, as   *)
                (* bookkeeping, when their instance was told of them        *)
  crashLog,     (* instances that have a reconciliation_crash row           *)
  unposted      (* bookkeeping: the last failure alert was not inserted     *)

memory == <<due, recent, lastAlert, posting>>
avars  == <<now, memory, alertLog, crashLog, unposted>>
wavars == <<rvars, avars>>

(* new Date(0): further back than any spacing.                             *)
LongAgo == -(Spacing + 1)

(* Of a row whose insert is still awaited, and of one nobody was told of.  *)
Awaited == -1
Lost    == -2

RowsOf(n)    == {row \in alertLog : row.by = n}
AwaitedBy(n) == {row \in RowsOf(n) : row.told = Awaited}

(* The row that is awaited is told of at a time, or lost.                  *)
Settled(n, t) ==
  (alertLog \ AwaitedBy(n)) \cup {[row EXCEPT !.told = t] : row \in AwaitedBy(n)}

AInit ==
  /\ RInit
  /\ now = 0
  /\ due = [n \in Instances |-> 0]
  /\ recent = [n \in Instances |-> <<>>]
  /\ lastAlert = [n \in Instances |-> LongAgo]
  /\ posting = [n \in Instances |-> {}]
  /\ alertLog = {}
  /\ crashLog = {}
  /\ unposted = {}

(* The running flag of the monitor is down.                                *)
Resting(n) == stage[n] = "idle" /\ due[n] = 0

StartCycle(n) ==
  /\ Resting(n)
  /\ Tick(n)
  /\ UNCHANGED avars

(* The query of the batch throws: the cycle is over before it began.       *)
QueryFails(n) ==
  /\ Resting(n)
  /\ Eventful
  /\ posting' = [posting EXCEPT ![n] = @ \cup {"crash"}]
  /\ UNCHANGED <<status, retryCount, queue, stage, batch, admin>>
  /\ UNCHANGED <<now, due, recent, lastAlert, alertLog, crashLog, unposted>>

RowFails(n) ==
  /\ StatementFails(n)
  /\ due' = [due EXCEPT ![n] = @ + 1]
  /\ UNCHANGED <<now, recent, lastAlert, posting, alertLog, crashLog, unposted>>

(* The list of failures with one more, without those that left the window. *)
Remembered(n) == Filter(Append(recent[n], now), LaterThan(now - Window))

(* Slip: only a window with more failures than the threshold is too full.  *)
TooManyAbove(n) == Len(Remembered(n)) > Threshold

TooMany(n) == Len(Remembered(n)) >= Threshold

(* Slip: no spacing.                                                       *)
MayAlertAlways(n) == TRUE

MayAlert(n) == now - lastAlert[n] > Spacing

(* alertWebhookFailure up to its await, after the last row of the batch.   *)
CountFailure(n) ==
  /\ stage[n] = "idle"
  /\ due[n] > 0
  /\ "failures" \notin posting[n]
  /\ recent' = [recent EXCEPT ![n] = Remembered(n)]
  /\ IF TooMany(n) /\ MayAlert(n)
     THEN posting' = [posting EXCEPT ![n] = @ \cup {"failures"}] /\ UNCHANGED due
     ELSE due' = [due EXCEPT ![n] = @ - 1] /\ UNCHANGED posting
  /\ UNCHANGED <<rvars, now, lastAlert, alertLog, crashLog, unposted>>

(* logAlert: alertLog.create, done in the database.                        *)
InsertAlert(n) ==
  /\ "failures" \in posting[n]
  /\ AwaitedBy(n) = {}
  /\ alertLog' = alertLog \cup {[by |-> n, at |-> now, told |-> Awaited]}
  /\ UNCHANGED <<rvars, now, memory, crashLog, unposted>>

(* The insert is acknowledged, and the time is noted.                      *)
NoteAlert(n) ==
  /\ "failures" \in posting[n]
  /\ AwaitedBy(n) # {}
  /\ alertLog' = Settled(n, now)
  /\ lastAlert' = [lastAlert EXCEPT ![n] = now]
  /\ posting' = [posting EXCEPT ![n] = @ \ {"failures"}]
  /\ due' = [due EXCEPT ![n] = @ - 1]
  /\ unposted' = unposted \ {n}
  /\ UNCHANGED <<rvars, now, recent, crashLog>>

(* logAlert throws, the insert done or not: nothing is noted, and the rest *)
(* of the failures of the cycle is not counted.                            *)
PostFails(n) ==
  /\ "failures" \in posting[n]
  /\ Eventful
  /\ posting' = [posting EXCEPT ![n] = {"crash"}]
  /\ due' = [due EXCEPT ![n] = 0]
  /\ alertLog' = Settled(n, Lost)
  /\ unposted' = IF AwaitedBy(n) = {} THEN unposted \cup {n} ELSE unposted \ {n}
  /\ UNCHANGED <<status, retryCount, queue, stage, batch, admin>>
  /\ UNCHANGED <<now, recent, lastAlert, crashLog>>

(* alertReconciliationCrash: the row is there or it is not.                *)
PostCrash(n) ==
  /\ "crash" \in posting[n]
  /\ posting' = [posting EXCEPT ![n] = @ \ {"crash"}]
  /\ crashLog' \in {crashLog, crashLog \cup {n}}
  /\ UNCHANGED <<rvars, now, due, recent, lastAlert, alertLog, unposted>>

(* A restart forgets the failures and the time of the last alert.          *)
Forget(n) ==
  /\ due' = [due EXCEPT ![n] = 0]
  /\ recent' = [recent EXCEPT ![n] = <<>>]
  /\ lastAlert' = [lastAlert EXCEPT ![n] = LongAgo]
  /\ posting' = [posting EXCEPT ![n] = {}]
  /\ alertLog' = Settled(n, Lost)
  /\ unposted' = unposted \ {n}
  /\ UNCHANGED <<now, crashLog>>

RestartAtWork(n) == Restart(n) /\ Forget(n)

RestartAtRest(n) ==
  /\ stage[n] = "idle"
  /\ recent[n] # <<>> \/ due[n] > 0 \/ posting[n] # {}
  /\ Eventful
  /\ Forget(n)
  /\ UNCHANGED <<status, retryCount, queue, stage, batch, admin>>

Clock ==
  /\ now < MaxTime
  /\ now' = now + 1
  /\ UNCHANGED <<rvars, memory, alertLog, crashLog, unposted>>

MonitorStep(n) ==
  \/ StartCycle(n)
  \/ (Retry(n) \/ AddToQueue(n) \/ MarkDeadLetter(n)) /\ UNCHANGED avars
  \/ CountFailure(n)
  \/ InsertAlert(n) \/ NoteAlert(n)
  \/ PostCrash(n)

ANext ==
  \/ \E n \in Instances :
       \/ MonitorStep(n)
       \/ QueryFails(n) \/ RowFails(n) \/ PostFails(n)
       \/ RestartAtWork(n) \/ RestartAtRest(n)
  \/ AdminStep /\ UNCHANGED avars
  \/ Clock

ASpec == AInit /\ [][ANext]_wavars

(* The timers of the monitors and what the event loop owes them.           *)
AFairSpec == ASpec /\ \A n \in Instances : WF_wavars(MonitorStep(n))

-----------------------------------------------------------------------------
ATypeOK ==
  /\ RTypeOK
  /\ now \in 0 .. MaxTime
  /\ due \in [Instances -> Nat]
  /\ recent \in [Instances -> Seq(0 .. MaxTime)]
  /\ lastAlert \in [Instances -> {LongAgo} \cup (0 .. MaxTime)]
  /\ posting \in [Instances -> SUBSET {"failures", "crash"}]
  /\ \A n \in Instances : "failures" \in posting[n] => stage[n] = "idle" /\ due[n] > 0
  /\ unposted \subseteq Instances
  /\ alertLog \subseteq
       [by : Instances, at : 0 .. MaxTime, told : {Awaited, Lost} \cup (0 .. MaxTime)]
  /\ crashLog \subseteq Instances

(* A monitor does not flood AlertLog: as long as it lives, a row about     *)
(* failures is further from each row it was told of than the spacing,      *)
(* although the time of an alert is noted only after an await.  A row it   *)
(* was not told of, because the acknowledgement of its insert was lost,    *)
(* keeps no other row away.                                                *)
AlertsAreSpaced ==
  [][\A n \in Instances :
       \A row \in AwaitedBy(n)' \ AwaitedBy(n) :
         \/ lastAlert[n] = LongAgo
         \/ \A old \in RowsOf(n) :
              old.told \in 0 .. MaxTime => row.at - old.told > Spacing]_wavars

(* A burst does not go unnoticed: once a cycle is reported, a window with  *)
(* as many failures as the threshold has an alert of its instance no older *)
(* than the spacing, counted from when the instance was told of it.  The   *)
(* exception is an insert that failed with no row made.                    *)
BurstsAreAlerted ==
  \A n \in Instances \ unposted :
    Resting(n) /\ Len(recent[n]) >= Threshold =>
      \E row \in RowsOf(n) :
        Last(recent[n]) - (IF row.told = Lost THEN row.at ELSE row.told) <= Spacing
=============================================================================
