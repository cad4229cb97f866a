------------------------ MODULE ProviderReconciliation ------------------------
(***************************************************************************)
(* ProviderReconciliationMonitor and reconcileProviders: every instance of *)
(* the API looks, on an interval timer of its own, for on-ramps that were  *)
(* completed within the lookback and raises a MissingWebhookAlert for each,*)
(* while administrators resolve or replay alerts.                          *)
(*                                                                         *)
(* The audit takes an on-ramp for one without a webhook when no            *)
(* WebhookEvent is linked to a transaction of its wallet.  No code of the  *)
(* repository writes WebhookEvent.transactionId, so every completed on-ramp*)
(* counts as one, and the branch of a missing ledger entry is never taken. *)
(* Nor does any code complete an on-ramp that has no alert yet: Complete   *)
(* stands for whoever does.                                                *)
(*                                                                         *)
(* A timer goes off at its time or later, as late as the event loop lets   *)
(* it, and is set again from then on.  The cutoff of an audit is taken     *)
(* before its query, and a completion is stamped before it can be seen.    *)
(***************************************************************************)
EXTENDS Integers, Sequences, FiniteSets, SequencesExt

CONSTANTS
  OnRamps,      (* OnRamp rows                                              *)
  Instances,    (* running copies of the API                                *)
  Interval,     (* PROVIDER_RECONCILIATION_INTERVAL_MS, in ticks            *)
  Lookback,     (* PROVIDER_RECONCILIATION_LOOKBACK_MINUTES, in ticks       *)
  Late,         (* the lag within which a timer counts as being on time     *)
  CommitDelay,  (* the longest lag of a completion behind its stamp         *)
  MaxFaults,    (* bound: restarts and failed statements                    *)
  MaxTime       (* bound: the last tick                                     *)

ASSUME RowsAssumption == IsFiniteSet(OnRamps) /\ Instances # {}
(* An interval of zero, or what is not a number, would set no timer.       *)
ASSUME TimingAssumption ==
  /\ Interval \in Nat \ {0} /\ Lookback \in Nat
  /\ Late \in Nat /\ CommitDelay \in Nat
  /\ MaxFaults \in Nat /\ MaxTime \in Nat

VARIABLES
  now,          (* the clock                                                *)
  completedAt,  (* OnRamp.completedAt, or Never                             *)
  alert,        (* the MissingWebhookAlert of an on-ramp: its status        *)
  started,      (* when an instance whose query is out took its cutoff      *)
  audit,        (* the rows an instance has fetched and not yet looked at,  *)
                (* each with the alert the fetch found                      *)
  due,          (* when the timer of an instance is to go off next          *)
  faults,       (* restarts and failed statements so far                    *)
  excused       (* bookkeeping: the on-ramps that were completed when an    *)
                (* audit of an instance was last late, skipped or broken off*)

pvars == <<now, completedAt, alert, started, audit, due, faults, excused>>

Never       == -1
AlertStatus == {"none", "pending", "manual_reviewed"}
Completed   == {o \in OnRamps : completedAt[o] # Never}
Idle(n)     == started[n] = Never /\ audit[n] = <<>>

Excuse(n) == excused' = [excused EXCEPT ![n] = Completed]

-----------------------------------------------------------------------------
(* Slip: completedAt > cutoff.                                             *)
InLookbackStrictly(n, o) ==
  completedAt[o] # Never /\ completedAt[o] > started[n] - Lookback

(* status: 'completed', completedAt: { gte: cutoff }.                      *)
InLookback(n, o) ==
  completedAt[o] # Never /\ completedAt[o] >= started[n] - Lookback

(* findMany without an order: the rows in whatever order they come.        *)
Fetched(n) ==
  LET found == {o \in OnRamps : InLookback(n, o)}
  IN  {[k \in DOMAIN s |-> [id |-> s[k], known |-> alert[s[k]] # "none"]] :
         s \in SetToSeqs(found)}

PInit ==
  /\ now = 0
  /\ completedAt = [o \in OnRamps |-> Never]
  /\ alert = [o \in OnRamps |-> "none"]
  /\ started = [n \in Instances |-> Never]
  /\ audit = [n \in Instances |-> <<>>]
  /\ due \in [Instances -> 1 .. Interval]
  /\ faults = 0
  /\ excused = [n \in Instances |-> {}]

(* Whoever completes an on-ramp commits it with a stamp of that moment or  *)
(* of an earlier one.                                                      *)
Complete(o) ==
  /\ completedAt[o] = Never
  /\ \E lag \in 0 .. CommitDelay :
       /\ lag <= now
       /\ completedAt' = [completedAt EXCEPT ![o] = now - lag]
  /\ UNCHANGED <<now, alert, started, audit, due, faults, excused>>

(* The timer goes off, and the audit takes its cutoff.                     *)
AuditStart(n) ==
  /\ due[n] <= now
  /\ Idle(n)
  /\ started' = [started EXCEPT ![n] = now]
  /\ due' = [due EXCEPT ![n] = now + Interval]
  /\ UNCHANGED <<now, completedAt, alert, audit, faults, excused>>

(* The timer goes off while the previous audit runs: nothing is done.      *)
AuditSkipped(n) ==
  /\ due[n] <= now
  /\ ~Idle(n)
  /\ due' = [due EXCEPT ![n] = now + Interval]
  /\ Excuse(n)
  /\ UNCHANGED <<now, completedAt, alert, started, audit, faults>>

(* The one query that fetches the rows of the audit.                       *)
Fetch(n) ==
  /\ started[n] # Never
  /\ \E rows \in Fetched(n) : audit' = [audit EXCEPT ![n] = rows]
  /\ started' = [started EXCEPT ![n] = Never]
  /\ UNCHANGED <<now, completedAt, alert, due, faults, excused>>

(* A row that had an alert is passed over, another one gets its alert.     *)
CheckOnRamp(n) ==
  /\ audit[n] # <<>>
  /\ LET row == Head(audit[n])
     IN  \/ row.known /\ UNCHANGED alert
         \/ /\ ~row.known
            /\ alert[row.id] = "none"
            /\ alert' = [alert EXCEPT ![row.id] = "pending"]
  /\ audit' = [audit EXCEPT ![n] = Tail(@)]
  /\ UNCHANGED <<now, completedAt, started, due, faults, excused>>

(* Slip: the alert is written with an upsert.                              *)
CheckUpserts(n) ==
  /\ audit[n] # <<>>
  /\ ~Head(audit[n]).known
  /\ alert[Head(audit[n]).id] # "none"
  /\ alert' = [alert EXCEPT ![Head(audit[n]).id] = "pending"]
  /\ audit' = [audit EXCEPT ![n] = Tail(@)]
  /\ UNCHANGED <<now, completedAt, started, due, faults, excused>>

(* Another instance has raised the alert since the fetch: the unique index *)
(* on onRampId throws, and the rest of the audit is lost.                  *)
CheckConflict(n) ==
  /\ audit[n] # <<>>
  /\ ~Head(audit[n]).known
  /\ alert[Head(audit[n]).id] # "none"
  /\ audit' = [audit EXCEPT ![n] = <<>>]
  /\ Excuse(n)
  /\ UNCHANGED <<now, completedAt, alert, started, due, faults>>

(* A statement fails: so does the audit.                                   *)
AuditFails(n) ==
  /\ ~Idle(n)
  /\ faults < MaxFaults
  /\ faults' = faults + 1
  /\ started' = [started EXCEPT ![n] = Never]
  /\ audit' = [audit EXCEPT ![n] = <<>>]
  /\ Excuse(n)
  /\ UNCHANGED <<now, completedAt, alert, due>>

(* onModuleInit of a new process: the first audit is an interval away.     *)
Restart(n) ==
  /\ faults < MaxFaults
  /\ faults' = faults + 1
  /\ started' = [started EXCEPT ![n] = Never]
  /\ audit' = [audit EXCEPT ![n] = <<>>]
  /\ due' = [due EXCEPT ![n] = now + Interval]
  /\ Excuse(n)
  /\ UNCHANGED <<now, completedAt, alert>>

(* resolveMissingWebhook, alone or at the end of a replay: the status is   *)
(* written whatever it was.                                                *)
Resolve(o) ==
  /\ alert[o] # "none"
  /\ alert' = [alert EXCEPT ![o] = "manual_reviewed"]
  /\ UNCHANGED <<now, completedAt, started, audit, due, faults, excused>>

(* Time passes, for a timer that is due as well.                           *)
Tick ==
  /\ now < MaxTime
  /\ now' = now + 1
  /\ excused' = [n \in Instances |->
                   IF now' > due[n] + Late THEN Completed ELSE excused[n]]
  /\ UNCHANGED <<completedAt, alert, started, audit, due, faults>>

PNext ==
  \/ \E o \in OnRamps : Complete(o) \/ Resolve(o)
  \/ \E n \in Instances :
       \/ AuditStart(n) \/ AuditSkipped(n) \/ Fetch(n)
       \/ CheckOnRamp(n) \/ CheckConflict(n)
       \/ AuditFails(n) \/ Restart(n)
  \/ Tick

PSpec == PInit /\ [][PNext]_pvars
-----------------------------------------------------------------------------
(* When the lookback exceeds the interval by what timers and commits may   *)
(* lag, the windows of successive audits leave no gap: an on-ramp completed*)
(* after an instance was last late, skipped an audit or lost one, has its  *)
(* alert by the end of its time in the lookback, or the audit under way in *)
(* that instance has its row or is about to fetch it.  With the defaults,  *)
(* one hour for both, this promises nothing.                               *)
FlaggedInTime ==
  Interval + Late + CommitDelay <= Lookback =>
    \A n \in Instances : \A o \in Completed \ excused[n] :
      now > completedAt[o] + Lookback =>
        \/ alert[o] # "none"
        \/ \E k \in DOMAIN audit[n] : audit[n][k].id = o
        \/ started[n] # Never /\ completedAt[o] >= started[n] - Lookback

(* An alert that was resolved, perhaps by a replay that credited the       *)
(* wallet, is not raised again by an audit that fetched its row before:    *)
(* the unique index makes that audit fail instead.                         *)
ResolvedStaysResolved ==
  [][\A o \in OnRamps : alert[o] = "manual_reviewed"
       => alert'[o] = "manual_reviewed"]_pvars
=============================================================================
