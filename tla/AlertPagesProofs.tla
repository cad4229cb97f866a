--------------------------- MODULE AlertPagesProofs ---------------------------
(***************************************************************************)
(* Theorems about ProviderReconciliation, for any on-ramps, instances and  *)
(* intervals, and for timers and commits that lag as they like, and about  *)
(* the walk through the pages of its alerts, for any limits.               *)
(*                                                                         *)
(* FlaggedInTime is not inductive: what an instance owes an on-ramp is a   *)
(* timer that goes off, even at its latest, before the lookback is over    *)
(* (CoverOf); one that is later still owes it only to those completed      *)
(* since then (LateOf).                                                    *)
(* Neither is WalkMissesOnlyWhatLeft, which speaks of the end of a walk:   *)
(* on the way the walk never passes more alerts unseen than have left the  *)
(* list (Walking), and every alert is in the list once (ListInv).          *)
(***************************************************************************)
EXTENDS AlertPages, ListLemmas, FiniteSetTheorems, TLAPS

Row == [id : OnRamps, known : BOOLEAN]

PTypes ==
  /\ now \in Nat
  /\ completedAt \in [OnRamps -> Nat \cup {Never}]
  /\ alert \in [OnRamps -> AlertStatus]
  /\ started \in [Instances -> Nat \cup {Never}]
  /\ audit \in [Instances -> Seq(Row)]
  /\ due \in [Instances -> Nat]
  /\ excused \in [Instances -> SUBSET OnRamps]

(* No timer is set further than an interval ahead.                         *)
TimersInv == \A n \in Instances : due[n] <= now + Interval

(* An audit whose query is out has no rows yet.                            *)
OneStage == \A n \in Instances : started[n] # Never => audit[n] = <<>>

(* What a fetch has seen stays true: no alert is ever taken back.          *)
KnownInv ==
  \A n \in Instances : \A k \in DOMAIN audit[n] :
    audit[n][k].known => alert[audit[n][k].id] # "none"

(* When a timer is late, all but the latest completions are excused.       *)
LateOf(n) ==
  \A o \in Completed \ excused[n] :
    now > due[n] + Late => now <= completedAt[o] + CommitDelay

(* The audit under way has the row of an on-ramp, or is going to fetch it. *)
InAudit(n, o) ==
  \/ \E k \in DOMAIN audit[n] : audit[n][k].id = o
  \/ started[n] # Never /\ completedAt[o] >= started[n] - Lookback

(* What has no alert, and is not in the audit, gets its audit in time.     *)
CoverOf(n) ==
  Interval + Late + CommitDelay <= Lookback =>
    \A o \in Completed \ excused[n] :
      \/ alert[o] # "none"
      \/ InAudit(n, o)
      \/ due[n] + Late <= completedAt[o] + Lookback

AuditInv == \A n \in Instances : LateOf(n) /\ CoverOf(n)

PInv == PTypes /\ TimersInv /\ KnownInv /\ AuditInv

-----------------------------------------------------------------------------
(* A fetch returns every row of the lookback, with what is known of it.    *)
LEMMA FetchIsComplete ==
  ASSUME PTypes, NEW n \in Instances, NEW rows \in Fetched(n)
  PROVE  /\ rows \in Seq(Row)
         /\ \A k \in DOMAIN rows : rows[k].known => alert[rows[k].id] # "none"
         /\ \A o \in OnRamps :
              InLookback(n, o) => \E k \in DOMAIN rows : rows[k].id = o
<1> DEFINE found == {o \in OnRamps : InLookback(n, o)}
           D == 1 .. Cardinality(found)
<1>1. PICK s \in SetToSeqs(found) :
        rows = [k \in DOMAIN s |-> [id |-> s[k], known |-> alert[s[k]] # "none"]]
  BY DEF Fetched
<1>2. IsFiniteSet(found) /\ Cardinality(found) \in Nat
  BY RowsAssumption, FS_Subset, FS_CardinalityType
<1>3. s \in [D -> found] /\ \A i, j \in D : i # j => s[i] # s[j]
  BY DEF SetToSeqs
<1>4. s \in Injection(D, found)
  BY <1>3 DEF Injection, IsInjective
<1>5. Cardinality(D) = Cardinality(found)
  BY <1>2, FS_Interval
<1>6. s \in Surjection(D, found)
  BY <1>2, <1>4, <1>5, FS_Injection
<1>7. \A o \in found : \E k \in D : s[k] = o
  BY <1>6 DEF Surjection
<1>8. \A k \in D : s[k] \in OnRamps
  BY <1>3
<1>9. DOMAIN s = D
  BY <1>3
<1> HIDE DEF D
<1>10. DOMAIN rows = D /\ \A k \in D :
         /\ rows[k] \in Row
         /\ rows[k].id = s[k]
         /\ rows[k].known <=> alert[s[k]] # "none"
  BY <1>1, <1>8, <1>9 DEF Row
<1>11. rows \in Seq(Row)
  <2>1. rows \in [D -> Row]
    BY <1>1, <1>9, <1>10
  <2>2. \A m \in Nat : [1 .. m -> Row] \subseteq Seq(Row)
    OBVIOUS
  <2> QED
    BY <1>2, <2>1, <2>2 DEF D
<1> QED
  BY <1>7, <1>10, <1>11

(* The initial states.                                                     *)
LEMMA PInitInv == PInit => PInv
<1> SUFFICES ASSUME PInit PROVE PInv
  OBVIOUS
<1> USE DEF PInit
<1>1. due \in [Instances -> 1 .. Interval]
  OBVIOUS
<1>2. PTypes
  <2>1. due \in [Instances -> Nat]
    BY <1>1, TimingAssumption
  <2>2. audit \in [Instances -> Seq(Row)]
    OBVIOUS
  <2> QED
    BY <2>1, <2>2 DEF PTypes, AlertStatus, Never
<1>3. TimersInv
  BY <1>1, TimingAssumption DEF TimersInv
<1>4. KnownInv
  BY DEF KnownInv
<1>5. AuditInv
  BY DEF AuditInv, LateOf, CoverOf, Completed
<1> QED
  BY <1>2, <1>3, <1>4, <1>5 DEF PInv

-----------------------------------------------------------------------------
(* What a step leaves alone.                                               *)

(* An instance that does nothing, while no alert is taken back.            *)
LEMMA BystanderAudit ==
  ASSUME NEW n \in Instances, LateOf(n), CoverOf(n),
         UNCHANGED <<now, completedAt>>,
         started'[n] = started[n], audit'[n] = audit[n],
         due'[n] = due[n], excused'[n] = excused[n],
         \A o \in OnRamps : alert[o] # "none" => alert'[o] # "none"
  PROVE  LateOf(n)' /\ CoverOf(n)'
<1>1. Completed' = Completed /\ Completed \subseteq OnRamps
  BY DEF Completed
<1>2. LateOf(n)'
  BY <1>1 DEF LateOf
<1>3. \A o \in OnRamps : InAudit(n, o)' <=> InAudit(n, o)
  BY DEF InAudit
<1>4. CoverOf(n)'
  BY <1>1, <1>3 DEF CoverOf
<1> QED
  BY <1>2, <1>4

(* An audit that is late, skipped or broken off owes nothing to what has   *)
(* been completed.                                                         *)
LEMMA ExcusedAudit ==
  ASSUME NEW n \in Instances, UNCHANGED completedAt, excused'[n] = Completed
  PROVE  LateOf(n)' /\ CoverOf(n)'
<1>1. Completed' = Completed
  BY DEF Completed
<1> QED
  BY <1>1 DEF LateOf, CoverOf

LEMMA KnownStays ==
  ASSUME PTypes, KnownInv, UNCHANGED audit,
         \A o \in OnRamps : alert[o] # "none" => alert'[o] # "none"
  PROVE  KnownInv'
<1>1. \A n \in Instances : \A k \in DOMAIN audit[n] : audit[n][k].id \in OnRamps
  <2>1. audit \in [Instances -> Seq(Row)]
    BY DEF PTypes
  <2>2. \A n \in Instances : \A k \in DOMAIN audit[n] : audit[n][k] \in Row
    BY <2>1
  <2> QED
    BY <2>2 DEF Row
<1> QED
  BY <1>1 DEF KnownInv

-----------------------------------------------------------------------------
(* One lemma per kind of step.                                             *)

(* The on-ramp is seen at an instant from which every timer is at most an  *)
(* interval away, with a stamp that is not much older.                     *)
LEMMA CompleteKeeps ==
  ASSUME PInv, NEW o \in OnRamps, Complete(o)
  PROVE  PInv'
<1>1. PTypes /\ TimersInv /\ KnownInv /\ AuditInv
  BY DEF PInv
<1>2. PICK lag \in 0 .. CommitDelay :
        lag <= now /\ completedAt' = [completedAt EXCEPT ![o] = now - lag]
  BY DEF Complete
<1>3. /\ completedAt[o] = Never
      /\ UNCHANGED <<now, alert, started, audit, due, faults, excused>>
  BY DEF Complete
<1>4. /\ now \in Nat /\ now - lag \in Nat /\ now <= now - lag + CommitDelay
      /\ Interval \in Nat /\ Late \in Nat /\ CommitDelay \in Nat /\ Lookback \in Nat
  BY <1>1, <1>2, TimingAssumption DEF PTypes
<1>5. /\ completedAt' \in [OnRamps -> Nat \cup {Never}]
      /\ completedAt'[o] = now - lag
      /\ \A p \in OnRamps : p # o => completedAt'[p] = completedAt[p]
  BY <1>1, <1>2, <1>4 DEF PTypes
<1>6. \A p \in OnRamps : p \in Completed' => p = o \/ p \in Completed
  BY <1>5 DEF Completed
<1>7. PTypes'
  BY <1>1, <1>3, <1>5 DEF PTypes
<1>8. TimersInv' /\ KnownInv'
  BY <1>1, <1>3 DEF TimersInv, KnownInv
<1>9. ASSUME NEW n \in Instances
      PROVE  LateOf(n)' /\ CoverOf(n)'
  <2>0. /\ LateOf(n) /\ CoverOf(n) /\ due[n] <= now + Interval /\ due[n] \in Nat
        /\ Completed' \subseteq OnRamps
    BY <1>1 DEF AuditInv, TimersInv, PTypes, Completed
  <2>1. LateOf(n)'
    BY <1>3, <1>4, <1>5, <1>6, <2>0 DEF LateOf
  <2>2. ASSUME Interval + Late + CommitDelay <= Lookback,
               NEW p \in Completed' \ excused[n]
        PROVE  \/ alert[p] # "none" \/ InAudit(n, p)'
               \/ due[n] + Late <= completedAt'[p] + Lookback
    <3>1. CASE p = o
      BY <1>4, <1>5, <2>0, <2>2, <3>1
    <3>2. CASE p # o
      <4>1. p \in Completed \ excused[n] /\ completedAt'[p] = completedAt[p]
        BY <1>5, <1>6, <2>0, <2>2, <3>2
      <4>2. InAudit(n, p) => InAudit(n, p)'
        BY <1>3, <4>1 DEF InAudit
      <4> QED
        BY <2>0, <2>2, <4>1, <4>2 DEF CoverOf
    <3> QED
      BY <3>1, <3>2
  <2>3. CoverOf(n)'
    BY <1>3, <2>2 DEF CoverOf
  <2> QED
    BY <2>1, <2>3
<1> QED
  BY <1>7, <1>8, <1>9 DEF PInv, AuditInv

(* The audit takes its cutoff in time for every on-ramp it is owed to.     *)
LEMMA AuditStartKeeps ==
  ASSUME PInv, NEW n \in Instances, AuditStart(n)
  PROVE  PInv'
<1>1. PTypes /\ TimersInv /\ KnownInv /\ AuditInv
  BY DEF PInv
<1>2. /\ due[n] <= now /\ started[n] = Never /\ audit[n] = <<>>
      /\ started' = [started EXCEPT ![n] = now]
      /\ due' = [due EXCEPT ![n] = now + Interval]
      /\ UNCHANGED <<now, completedAt, alert, audit, faults, excused>>
  BY DEF AuditStart, Idle
<1>3. /\ now \in Nat /\ now # Never /\ due[n] \in Nat
      /\ Interval \in Nat /\ Late \in Nat /\ CommitDelay \in Nat /\ Lookback \in Nat
      /\ \A o \in Completed : completedAt[o] \in Nat /\ o \in OnRamps
  BY <1>1, TimingAssumption DEF PTypes, Never, Completed
<1>4. /\ started' \in [Instances -> Nat \cup {Never}] /\ started'[n] = now
      /\ \A m \in Instances : m # n => started'[m] = started[m]
      /\ due' \in [Instances -> Nat] /\ due'[n] = now + Interval
      /\ \A m \in Instances : m # n => due'[m] = due[m]
  BY <1>1, <1>2, <1>3 DEF PTypes
<1>5. PTypes'
  BY <1>1, <1>2, <1>4 DEF PTypes
<1>6. TimersInv' /\ KnownInv'
  BY <1>1, <1>2, <1>3, <1>4 DEF TimersInv, KnownInv
<1>7. LateOf(n)' /\ CoverOf(n)'
  <2>0. Completed' = Completed
    BY <1>2 DEF Completed
  <2>1. LateOf(n)'
    BY <1>2, <1>3, <1>4, <2>0 DEF LateOf
  <2>2. ASSUME Interval + Late + CommitDelay <= Lookback,
               NEW o \in Completed \ excused[n]
        PROVE  alert[o] # "none" \/ InAudit(n, o)'
    <3>1. \/ alert[o] # "none" \/ InAudit(n, o)
          \/ due[n] + Late <= completedAt[o] + Lookback
      BY <1>1, <2>2 DEF AuditInv, CoverOf
    <3>2. ~ InAudit(n, o)
      BY <1>2 DEF InAudit
    <3>3. now > due[n] + Late => now <= completedAt[o] + CommitDelay
      BY <1>1, <2>2 DEF AuditInv, LateOf
    <3>4. CASE due[n] + Late <= completedAt[o] + Lookback
      <4>1. completedAt[o] >= now - Lookback
        BY <1>3, <2>2, <3>3, <3>4
      <4> QED
        BY <1>2, <1>3, <1>4, <4>1 DEF InAudit
    <3> QED
      BY <3>1, <3>2, <3>4
  <2>3. CoverOf(n)'
    BY <1>2, <2>0, <2>2 DEF CoverOf
  <2> QED
    BY <2>1, <2>3
<1>8. ASSUME NEW m \in Instances, m # n
      PROVE  LateOf(m)' /\ CoverOf(m)'
  BY <1>1, <1>2, <1>4, <1>8, BystanderAudit DEF AuditInv
<1> QED
  BY <1>5, <1>6, <1>7, <1>8 DEF PInv, AuditInv

(* The fetch returns what it was to return.                                *)
LEMMA FetchKeeps ==
  ASSUME PInv, OneStage, NEW n \in Instances, Fetch(n)
  PROVE  PInv'
<1>1. PTypes /\ TimersInv /\ KnownInv /\ AuditInv
  BY DEF PInv
<1>2. PICK rows \in Fetched(n) : audit' = [audit EXCEPT ![n] = rows]
  BY DEF Fetch
<1>3. /\ started' = [started EXCEPT ![n] = Never]
      /\ UNCHANGED <<now, completedAt, alert, due, faults, excused>>
  BY DEF Fetch
<1>4. /\ rows \in Seq(Row)
      /\ \A k \in DOMAIN rows : rows[k].known => alert[rows[k].id] # "none"
      /\ \A o \in OnRamps :
           InLookback(n, o) => \E k \in DOMAIN rows : rows[k].id = o
  BY <1>1, FetchIsComplete
<1>5. audit \in [Instances -> Seq(Row)] /\ started \in [Instances -> Nat \cup {Never}]
  BY <1>1 DEF PTypes
<1>6. /\ audit' \in [Instances -> Seq(Row)] /\ audit'[n] = rows
      /\ \A m \in Instances : m # n => audit'[m] = audit[m]
      /\ started' \in [Instances -> Nat \cup {Never}]
      /\ \A m \in Instances : m # n => started'[m] = started[m]
  BY <1>2, <1>3, <1>4, <1>5
<1>7. PTypes'
  BY <1>1, <1>3, <1>6 DEF PTypes
<1>8. TimersInv' /\ KnownInv'
  BY <1>1, <1>3, <1>4, <1>6 DEF TimersInv, KnownInv
<1>9. LateOf(n)' /\ CoverOf(n)'
  <2>0. Completed' = Completed /\ Completed \subseteq OnRamps
    BY <1>3 DEF Completed
  <2>1. LateOf(n)'
    BY <1>1, <1>3, <2>0 DEF AuditInv, LateOf
  <2>2. ASSUME NEW o \in Completed, InAudit(n, o)
        PROVE  InAudit(n, o)'
    <3>1. audit[n] = <<>>
      BY DEF Fetch, OneStage
    <3>2. InLookback(n, o)
      BY <2>2, <3>1 DEF InAudit, InLookback, Completed
    <3> QED
      BY <1>4, <1>6, <2>0, <3>2 DEF InAudit
  <2>3. CoverOf(n)'
    BY <1>1, <1>3, <2>0, <2>2 DEF AuditInv, CoverOf
  <2> QED
    BY <2>1, <2>3
<1>10. ASSUME NEW m \in Instances, m # n
       PROVE  LateOf(m)' /\ CoverOf(m)'
  BY <1>1, <1>3, <1>6, <1>10, BystanderAudit DEF AuditInv
<1> QED
  BY <1>7, <1>8, <1>9, <1>10 DEF PInv, AuditInv

(* The row that is checked leaves the audit with an alert.                 *)
LEMMA CheckOnRampKeeps ==
  ASSUME PInv, NEW n \in Instances, CheckOnRamp(n)
  PROVE  PInv'
<1> DEFINE rest == Tail(audit[n])
           head == Head(audit[n])
<1>1. PTypes /\ TimersInv /\ KnownInv /\ AuditInv
  BY DEF PInv
<1>2. audit[n] \in Seq(Row) /\ audit[n] # <<>>
  BY <1>1 DEF PTypes, CheckOnRamp
<1>3. /\ rest \in Seq(Row) /\ head \in Row /\ head = audit[n][1]
      /\ 1 \in DOMAIN audit[n]
      /\ \A k \in DOMAIN rest : k + 1 \in DOMAIN audit[n] /\ rest[k] = audit[n][k + 1]
      /\ \A k \in DOMAIN audit[n] : k # 1 => k - 1 \in DOMAIN rest /\ rest[k - 1] = audit[n][k]
  BY <1>2
<1>4. /\ audit' = [audit EXCEPT ![n] = rest]
      /\ UNCHANGED <<now, completedAt, started, due, faults, excused>>
      /\ \/ head.known /\ UNCHANGED alert
         \/ alert' = [alert EXCEPT ![head.id] = "pending"]
  BY DEF CheckOnRamp
<1> HIDE DEF rest, head
<1>5. audit' \in [Instances -> Seq(Row)] /\ audit'[n] = rest
      /\ \A m \in Instances : m # n => audit'[m] = audit[m]
  BY <1>1, <1>3, <1>4 DEF PTypes
<1>6. /\ alert' \in [OnRamps -> AlertStatus]
      /\ alert'[head.id] # "none"
      /\ \A o \in OnRamps : alert[o] # "none" => alert'[o] # "none"
  <2>1. head.id \in OnRamps /\ (head.known => alert[head.id] # "none")
    BY <1>1, <1>3 DEF Row, KnownInv
  <2>2. alert \in [OnRamps -> AlertStatus]
    BY <1>1 DEF PTypes
  <2>3. CASE head.known /\ UNCHANGED alert
    BY <2>1, <2>2, <2>3
  <2>4. CASE alert' = [alert EXCEPT ![head.id] = "pending"]
    BY <2>1, <2>2, <2>4 DEF AlertStatus
  <2> QED
    BY <1>4, <2>3, <2>4
<1>7. PTypes' /\ TimersInv'
  BY <1>1, <1>4, <1>5, <1>6 DEF PTypes, TimersInv
<1>8. KnownInv'
  <2> SUFFICES ASSUME NEW m \in Instances, NEW k \in DOMAIN audit'[m],
                      audit'[m][k].known
               PROVE  alert'[audit'[m][k].id] # "none"
    BY DEF KnownInv
  <2>1. \E l \in DOMAIN audit[m] : audit'[m][k] = audit[m][l]
    BY <1>3, <1>5
  <2>2. audit'[m][k] \in Row
    BY <1>5
  <2> QED
    BY <1>1, <1>6, <2>1, <2>2 DEF KnownInv, Row
<1>9. LateOf(n)' /\ CoverOf(n)'
  <2>0. Completed' = Completed /\ Completed \subseteq OnRamps
    BY <1>4 DEF Completed
  <2>1. LateOf(n)'
    BY <1>1, <1>4, <2>0 DEF AuditInv, LateOf
  <2>2. ASSUME NEW o \in Completed, InAudit(n, o)
        PROVE  alert'[o] # "none" \/ InAudit(n, o)'
    <3>1. CASE started[n] # Never /\ completedAt[o] >= started[n] - Lookback
      BY <1>4, <3>1 DEF InAudit
    <3>2. CASE \E k \in DOMAIN audit[n] : audit[n][k].id = o
      <4>1. PICK k \in DOMAIN audit[n] : audit[n][k].id = o
        BY <3>2
      <4>2. CASE k = 1
        BY <1>3, <1>6, <4>1, <4>2
      <4>3. CASE k # 1
        BY <1>3, <1>5, <4>1, <4>3 DEF InAudit
      <4> QED
        BY <4>2, <4>3
    <3> QED
      BY <2>2, <3>1, <3>2 DEF InAudit
  <2>3. CoverOf(n)'
    BY <1>1, <1>4, <1>6, <2>0, <2>2 DEF AuditInv, CoverOf
  <2> QED
    BY <2>1, <2>3
<1>10. ASSUME NEW m \in Instances, m # n
       PROVE  LateOf(m)' /\ CoverOf(m)'
  BY <1>1, <1>4, <1>5, <1>6, <1>10, BystanderAudit DEF AuditInv
<1> QED
  BY <1>7, <1>8, <1>9, <1>10 DEF PInv, AuditInv

(* An audit that is skipped or broken off, by whatever, says so.           *)
LEMMA BrokenOffKeeps ==
  ASSUME PInv, NEW n \in Instances, Excuse(n),
         audit' = audit \/ audit' = [audit EXCEPT ![n] = <<>>],
         started' = started \/ started' = [started EXCEPT ![n] = Never],
         due' = due \/ due' = [due EXCEPT ![n] = now + Interval],
         UNCHANGED <<now, completedAt, alert>>
  PROVE  PInv'
<1>1. PTypes /\ TimersInv /\ KnownInv /\ AuditInv
  BY DEF PInv
<1>2. /\ audit' \in [Instances -> Seq(Row)]
      /\ audit'[n] = audit[n] \/ audit'[n] = <<>>
      /\ \A m \in Instances : m # n => audit'[m] = audit[m]
  <2>1. <<>> \in Seq(Row)
    OBVIOUS
  <2> QED
    BY <1>1, <2>1 DEF PTypes
<1>3. /\ started' \in [Instances -> Nat \cup {Never}]
      /\ \A m \in Instances : m # n => started'[m] = started[m]
  BY <1>1 DEF PTypes
<1>4. /\ due' \in [Instances -> Nat] /\ TimersInv'
      /\ \A m \in Instances : m # n => due'[m] = due[m]
  <2>1. due \in [Instances -> Nat] /\ now \in Nat /\ Interval \in Nat
    BY <1>1, TimingAssumption DEF PTypes
  <2>2. CASE due' = due
    BY <1>1, <2>1, <2>2 DEF TimersInv
  <2>3. CASE due' = [due EXCEPT ![n] = now + Interval]
    BY <1>1, <2>1, <2>3 DEF TimersInv
  <2> QED
    BY <2>2, <2>3
<1>5. /\ excused' \in [Instances -> SUBSET OnRamps] /\ excused'[n] = Completed
      /\ \A m \in Instances : m # n => excused'[m] = excused[m]
  <2>1. Completed \in SUBSET OnRamps
    BY DEF Completed
  <2> QED
    BY <1>1, <2>1 DEF PTypes, Excuse
<1>6. PTypes'
  BY <1>1, <1>2, <1>3, <1>4, <1>5 DEF PTypes
<1>7. KnownInv'
  BY <1>1, <1>2 DEF KnownInv
<1>8. LateOf(n)' /\ CoverOf(n)'
  BY <1>5, ExcusedAudit
<1>9. ASSUME NEW m \in Instances, m # n
      PROVE  LateOf(m)' /\ CoverOf(m)'
  BY <1>1, <1>2, <1>3, <1>4, <1>5, <1>9, BystanderAudit DEF AuditInv
<1> QED
  BY <1>4, <1>6, <1>7, <1>8, <1>9 DEF PInv, AuditInv

(* An administrator writes the status of an alert that exists.             *)
LEMMA ResolveKeeps ==
  ASSUME PInv, NEW o \in OnRamps, Resolve(o)
  PROVE  PInv'
<1>1. PTypes /\ TimersInv /\ KnownInv /\ AuditInv
  BY DEF PInv
<1>2. /\ alert' \in [OnRamps -> AlertStatus]
      /\ \A p \in OnRamps : alert[p] # "none" => alert'[p] # "none"
      /\ UNCHANGED <<now, completedAt, started, audit, due, faults, excused>>
  BY <1>1 DEF Resolve, PTypes, AlertStatus
<1>3. PTypes' /\ TimersInv'
  BY <1>1, <1>2 DEF PTypes, TimersInv
<1>4. KnownInv'
  BY <1>1, <1>2, KnownStays
<1>5. AuditInv'
  BY <1>1, <1>2, BystanderAudit DEF AuditInv
<1> QED
  BY <1>3, <1>4, <1>5 DEF PInv

(* Time passes: a timer is in time, or what is completed is excused.       *)
LEMMA TickKeeps ==
  ASSUME PInv, Tick
  PROVE  PInv'
<1>1. PTypes /\ TimersInv /\ KnownInv /\ AuditInv
  BY DEF PInv
<1>2. /\ now' = now + 1
      /\ excused' = [n \in Instances |->
                       IF now' > due[n] + Late THEN Completed ELSE excused[n]]
      /\ UNCHANGED <<completedAt, alert, started, audit, due, faults>>
  BY DEF Tick
<1>3. Completed' = Completed /\ Completed \in SUBSET OnRamps
  BY <1>2 DEF Completed
<1>4. PTypes'
  <2>1. excused' \in [Instances -> SUBSET OnRamps]
    BY <1>1, <1>2, <1>3 DEF PTypes
  <2> QED
    BY <1>1, <1>2, <2>1 DEF PTypes
<1>5. TimersInv' /\ KnownInv'
  BY <1>1, <1>2, TimingAssumption DEF TimersInv, PTypes, KnownInv
<1>6. ASSUME NEW n \in Instances
      PROVE  LateOf(n)' /\ CoverOf(n)'
  <2>1. CASE now' > due[n] + Late
    BY <1>2, <2>1, ExcusedAudit
  <2>2. CASE ~ now' > due[n] + Late
    <3>1. excused'[n] = excused[n] /\ LateOf(n) /\ CoverOf(n)
      BY <1>1, <1>2, <2>2 DEF AuditInv
    <3>2. LateOf(n)'
      BY <1>2, <2>2 DEF LateOf
    <3>3. CoverOf(n)'
      BY <1>2, <1>3, <3>1 DEF CoverOf, InAudit
    <3> QED
      BY <3>2, <3>3
  <2> QED
    BY <2>1, <2>2
<1> QED
  BY <1>4, <1>5, <1>6 DEF PInv, AuditInv

(* The stages of an audit follow one another.                              *)
LEMMA OneStageKeeps == PInv /\ OneStage /\ [PNext]_pvars => OneStage'
<1> SUFFICES ASSUME PInv, OneStage, [PNext]_pvars PROVE OneStage'
  OBVIOUS
<1>1. /\ started \in [Instances -> Nat \cup {Never}]
      /\ audit \in [Instances -> Seq(Row)]
  BY DEF PInv, PTypes
<1>2. CASE UNCHANGED <<started, audit>>
  BY <1>2 DEF OneStage
<1>3. ASSUME NEW n \in Instances, AuditStart(n)
      PROVE  OneStage'
  BY <1>1, <1>3 DEF AuditStart, Idle, OneStage
<1>4. ASSUME NEW n \in Instances, Fetch(n)
      PROVE  OneStage'
  <2>1. PICK rows \in Fetched(n) : audit' = [audit EXCEPT ![n] = rows]
    BY <1>4 DEF Fetch
  <2> QED
    BY <1>1, <1>4, <2>1 DEF Fetch, OneStage
<1>5. ASSUME NEW n \in Instances, CheckOnRamp(n)
      PROVE  OneStage'
  BY <1>1, <1>5 DEF CheckOnRamp, OneStage
<1>6. ASSUME NEW n \in Instances, CheckConflict(n) \/ AuditFails(n) \/ Restart(n)
      PROVE  OneStage'
  BY <1>1, <1>6 DEF CheckConflict, AuditFails, Restart, OneStage
<1> QED
  BY <1>2, <1>3, <1>4, <1>5, <1>6
     DEF PNext, pvars, Complete, Resolve, AuditSkipped, Tick

(* The invariant is inductive.                                             *)
LEMMA PInductive == PInv /\ OneStage /\ [PNext]_pvars => PInv'
<1> SUFFICES ASSUME PInv, OneStage, [PNext]_pvars PROVE PInv'
  OBVIOUS
<1>1. CASE UNCHANGED pvars
  <2>1. PTypes' /\ TimersInv' /\ KnownInv'
    BY <1>1 DEF pvars, PInv, PTypes, TimersInv, KnownInv
  <2>2. AuditInv'
    BY <1>1, BystanderAudit DEF pvars, PInv, AuditInv
  <2> QED
    BY <2>1, <2>2 DEF PInv
<1>2. ASSUME NEW n \in Instances,
             \/ AuditSkipped(n) \/ CheckConflict(n) \/ AuditFails(n) \/ Restart(n)
      PROVE  PInv'
  <2>1. /\ Excuse(n)
        /\ audit' = audit \/ audit' = [audit EXCEPT ![n] = <<>>]
        /\ started' = started \/ started' = [started EXCEPT ![n] = Never]
        /\ due' = due \/ due' = [due EXCEPT ![n] = now + Interval]
        /\ UNCHANGED <<now, completedAt, alert>>
    BY <1>2 DEF AuditSkipped, CheckConflict, AuditFails, Restart
  <2> QED
    BY <2>1, BrokenOffKeeps
<1> QED
  BY <1>1, <1>2, CompleteKeeps, AuditStartKeeps, FetchKeeps,
     CheckOnRampKeeps, ResolveKeeps, TickKeeps DEF PNext

-----------------------------------------------------------------------------
(* PInv is an invariant.                                                   *)
LEMMA PInvariant == PSpec => []PInv
<1>1. PInit => PInv /\ OneStage
  BY PInitInv DEF PInit, OneStage
<1>2. PInv /\ OneStage /\ [PNext]_pvars => PInv' /\ OneStage'
  BY PInductive, OneStageKeeps
<1> QED
  BY <1>1, <1>2, PTL DEF PSpec

(* The windows of successive audits leave no gap (reconcileProviders and   *)
(* its monitor's timer) when the lookback exceeds the interval by what     *)
(* timers and commits may lag: an on-ramp whose time is over has its alert,*)
(* or the audit that runs has its row, unless an audit was late, skipped or*)
(* broken off after it was completed.                                      *)
THEOREM NoGapBetweenAudits == PSpec => []FlaggedInTime
<1>1. PInv => FlaggedInTime
  <2> SUFFICES ASSUME PInv, Interval + Late + CommitDelay <= Lookback,
                      NEW n \in Instances, NEW o \in Completed \ excused[n],
                      now > completedAt[o] + Lookback
               PROVE  alert[o] # "none" \/ InAudit(n, o)
    BY DEF FlaggedInTime, InAudit
  <2>1. /\ now \in Nat /\ due[n] \in Nat /\ completedAt[o] \in Nat
        /\ Interval \in Nat \ {0} /\ Late \in Nat /\ CommitDelay \in Nat
        /\ Lookback \in Nat
    BY TimingAssumption DEF PInv, PTypes, Never, Completed
  <2>2. now > due[n] + Late => now <= completedAt[o] + CommitDelay
    BY DEF PInv, AuditInv, LateOf
  <2>3. ~ due[n] + Late <= completedAt[o] + Lookback
    BY <2>1, <2>2
  <2> QED
    BY <2>3 DEF PInv, AuditInv, CoverOf
<1> QED
  BY <1>1, PInvariant, PTL

(* An alert that was resolved stays resolved: what an audit writes after a *)
(* fetch of long ago meets the unique index on onRampId.                   *)
THEOREM ResolvedForGood == PSpec => ResolvedStaysResolved
<1>1. ASSUME PInv, [PNext]_pvars, NEW o \in OnRamps, alert[o] = "manual_reviewed"
      PROVE  alert'[o] = "manual_reviewed"
  <2>1. alert \in [OnRamps -> AlertStatus]
    BY <1>1 DEF PInv, PTypes
  <2>2. \/ UNCHANGED alert
        \/ \E n \in Instances : CheckOnRamp(n)
        \/ \E p \in OnRamps : Resolve(p)
    BY <1>1 DEF PNext, pvars, Complete, AuditStart, AuditSkipped, Fetch, CheckConflict,
       AuditFails, Restart, Tick
  <2> QED
    BY <1>1, <2>1, <2>2 DEF CheckOnRamp, Resolve
<1>2. PInv /\ [PNext]_pvars
        => [\A o \in OnRamps : alert[o] = "manual_reviewed"
              => alert'[o] = "manual_reviewed"]_pvars
  BY <1>1
<1> QED
  BY <1>2, PInvariant, PTL DEF PSpec, ResolvedStaysResolved

(* Reading the alerts page by page (getMissingWebhooks) changes nothing of *)
(* what the audits and the administrators do: every behaviour with a walk  *)
(* is one of ProviderReconciliation, and has its properties.               *)
THEOREM WalksOnlyRead == GSpec => PSpec
<1>1. GInit => PInit
  BY DEF GInit
<1>2. [GNext]_gvars => [PNext]_pvars
  BY DEF GNext, gvars, Others, Begin, ReadPage
<1> QED
  BY <1>1, <1>2, PTL DEF GSpec, PSpec

-----------------------------------------------------------------------------
(***************************************************************************)
(* The walk.  Positions count from the newest alert, so an alert that is   *)
(* raised moves no unseen one into the part the walk has passed, and one   *)
(* that leaves moves at most one into it: what was passed unseen is never  *)
(* more than what has left (Missed).                                       *)
(***************************************************************************)
PendingRows == Filter(raised, Pending)

(* Every alert is in the list, once.                                       *)
ListInv ==
  /\ raised \in Seq(OnRamps)
  /\ \A i \in 1 .. Len(raised) : alert[raised[i]] # "none"
  /\ \A o \in OnRamps :
       Len(Filter(raised, {o})) = IF alert[o] = "none" THEN 0 ELSE 1

WalkType ==
  walk \in [stage : {"before", "on", "over"}, asked : Int \cup {NotANumber},
            offset : Nat, there : SUBSET OnRamps, seen : SUBSET OnRamps,
            left : SUBSET OnRamps]

(* Alerts of the beginning that the walk has passed and not seen.          *)
Missed(f) == (Newest(PendingRows, f) \cap walk.there) \ walk.seen

Walking ==
  /\ \A o \in walk.there : alert[o] = "pending" \/ o \in walk.left
  /\ \A o \in walk.left : alert[o] = "manual_reviewed"
  /\ Cardinality(Missed(walk.offset)) <= Cardinality(walk.left)

WalkInv ==
  /\ WalkType
  /\ walk.stage = "before" => walk = NotBegun
  /\ walk.stage = "on" => Walking
  /\ WalkMissesOnlyWhatLeft

LEMMA PendingRowsType ==
  ASSUME ListInv
  PROVE  PendingRows \in Seq(Pending) /\ PendingRows \in Seq(OnRamps)
<1>1. PendingRows \in Seq(OnRamps \cap Pending)
  BY FilterType DEF ListInv, PendingRows
<1> QED
  BY <1>1

(* A pending alert is in the list of the pending ones.                     *)
LEMMA PendingListed ==
  ASSUME ListInv, NEW o \in Pending
  PROVE  \E i \in 1 .. Len(PendingRows) : PendingRows[i] = o
<1> SUFFICES ASSUME \A i \in 1 .. Len(PendingRows) : PendingRows[i] # o
             PROVE  FALSE
  OBVIOUS
<1>1. Filter(PendingRows, {o}) = <<>>
  BY PendingRowsType, FilterMisses
<1>2. Pending \cap {o} = {o}
  OBVIOUS
<1>3. Filter(PendingRows, {o}) = Filter(raised, {o})
  BY <1>2, FilterTwice DEF ListInv, PendingRows
<1>4. Len(Filter(raised, {o})) = 1
  BY DEF ListInv, Pending
<1> QED
  BY <1>1, <1>3, <1>4

(* A page shows the walk the rows it passes, and a short page is the last. *)
LEMMA PageShape ==
  ASSUME ListInv, NEW limit \in Nat \ {0}, NEW offset \in Nat
  PROVE  /\ ToSet(Page(limit, offset)) \subseteq OnRamps
         /\ Newest(PendingRows, offset + limit)
              \subseteq Newest(PendingRows, offset) \cup ToSet(Page(limit, offset))
         /\ Len(Page(limit, offset)) < limit =>
              \A i \in 1 .. Len(PendingRows) :
                PendingRows[i] \in Newest(PendingRows, offset + limit)
<1> DEFINE s == PendingRows
           n == Len(s)
           r == Reverse(s)
           m == Lower(offset + limit, n)
           page == SubSeq(r, offset + 1, m)
<1>1. s \in Seq(OnRamps) /\ n \in Nat /\ \A i \in 1 .. n : s[i] \in OnRamps
  BY PendingRowsType
<1>2. r \in Seq(OnRamps) /\ Len(r) = n /\ \A i \in 1 .. n : r[i] = s[n - i + 1]
  <2> HIDE DEF s
  <2> QED
    BY <1>1 DEF Reverse
<1>3. Page(limit, offset) = page
  <2>1. Page(limit, offset) = SubSeq(r, offset + 1, Lower(offset + limit, Len(r)))
    BY DEF Page, PendingRows
  <2> HIDE DEF r
  <2> QED
    BY <1>2, <2>1
<1> HIDE DEF s
<1>4. m \in Nat /\ m <= n /\ m <= offset + limit /\ (m = n \/ m = offset + limit)
  BY <1>1 DEF Lower
<1> HIDE DEF r, m
<1>5. /\ page \in Seq(OnRamps)
      /\ Len(page) = IF offset + 1 <= m THEN m - offset ELSE 0
      /\ \A i \in 1 .. m - offset : page[i] = r[offset + i]
  <2>1. \A i \in offset + 1 .. m : r[i] \in OnRamps
    BY <1>1, <1>2, <1>4
  <2>2. offset + 1 \in Int /\ m \in Int
    BY <1>4
  <2>3. /\ page \in Seq(OnRamps)
        /\ Len(page) = IF offset + 1 <= m THEN m - (offset + 1) + 1 ELSE 0
        /\ \A i \in 1 .. m - (offset + 1) + 1 : page[i] = r[(offset + 1) + i - 1]
    BY <2>1, <2>2, SubSeqProperties
  <2>4. m - (offset + 1) + 1 = m - offset /\ \A i \in Int : (offset + 1) + i - 1 = offset + i
    BY <1>4
  <2> HIDE DEF page
  <2> QED
    BY <2>3, <2>4
<1> HIDE DEF page
<1>6. ToSet(page) \subseteq OnRamps
  <2>1. \A i \in DOMAIN page : page[i] \in OnRamps
    BY <1>5
  <2> QED
    BY <2>1 DEF ToSet
<1>7. ASSUME NEW x \in Newest(s, offset + limit), x \notin Newest(s, offset)
      PROVE  x \in ToSet(page)
  <2>1. PICK i \in 1 .. n : i > n - (offset + limit) /\ x = s[i]
    BY DEF Newest
  <2>2. ~(i > n - offset)
    BY <1>7, <2>1 DEF Newest
  <2>3. n - i + 1 - offset \in 1 .. m - offset
    BY <1>1, <1>4, <2>1, <2>2
  <2>4. page[n - i + 1 - offset] = r[n - i + 1]
    BY <1>1, <1>5, <2>1, <2>3
  <2>5. r[n - i + 1] = s[i]
    <3>1. n - i + 1 \in 1 .. n /\ n - (n - i + 1) + 1 = i
      BY <1>1, <2>1
    <3> QED
      BY <1>2, <3>1
  <2>6. n - i + 1 - offset \in DOMAIN page
    BY <1>4, <1>5, <2>3
  <2> QED
    BY <2>1, <2>4, <2>5, <2>6 DEF ToSet
<1>8. ASSUME Len(page) < limit, NEW i \in 1 .. n
      PROVE  s[i] \in Newest(s, offset + limit)
  <2>1. n < offset + limit
    BY <1>1, <1>4, <1>5, <1>8
  <2>2. i > n - (offset + limit)
    BY <1>1, <2>1
  <2> QED
    BY <2>2 DEF Newest
<1> QED
  BY <1>3, <1>6, <1>7, <1>8 DEF s

-----------------------------------------------------------------------------
(* What a step of the others does to the alerts.                           *)
Raises(o) == alert[o] = "none" /\ alert' = [alert EXCEPT ![o] = "pending"]

Resolves(o) == alert[o] # "none" /\ alert' = [alert EXCEPT ![o] = "manual_reviewed"]

LEMMA AlertMoves ==
  ASSUME PInv, [PNext]_pvars
  PROVE  alert' = alert \/ \E o \in OnRamps : Raises(o) \/ Resolves(o)
<1>1. CASE UNCHANGED pvars
  BY <1>1 DEF pvars
<1>2. ASSUME NEW o \in OnRamps, Complete(o) \/ Resolve(o)
      PROVE  alert' = alert \/ Resolves(o)
  BY <1>2 DEF Complete, Resolve, Resolves
<1>3. ASSUME NEW n \in Instances, CheckOnRamp(n)
      PROVE  alert' = alert \/ \E o \in OnRamps : Raises(o)
  <2>1. audit[n] \in Seq(Row) /\ audit[n] # <<>>
    BY <1>3 DEF PInv, PTypes, CheckOnRamp
  <2>2. Head(audit[n]) \in Row
    BY <2>1
  <2>3. Head(audit[n]).id \in OnRamps
    BY <2>2 DEF Row
  <2>4. alert' = alert \/ Raises(Head(audit[n]).id)
    BY <1>3 DEF CheckOnRamp, Raises
  <2> QED
    BY <2>3, <2>4
<1>4. ASSUME NEW n \in Instances,
             \/ AuditStart(n) \/ AuditSkipped(n) \/ Fetch(n)
             \/ CheckConflict(n) \/ AuditFails(n) \/ Restart(n)
      PROVE  alert' = alert
  BY <1>4 DEF AuditStart, AuditSkipped, Fetch, CheckConflict, AuditFails, Restart
<1>5. ASSUME Tick PROVE alert' = alert
  BY <1>5 DEF Tick
<1> QED
  BY <1>1, <1>2, <1>3, <1>4, <1>5 DEF PNext

(* No new alert, and one: what the list gets.                              *)
LEMMA NoneAsList == SetToSeq({}) = <<>>
<1> DEFINE F == [1 .. Cardinality({}) -> {}]
<1>1. Cardinality({}) = 0
  BY FS_EmptySet
<1>2. \A f \in F : f = <<>>
  BY <1>1
<1>3. <<>> \in F /\ IsInjective(<<>>)
  BY <1>1 DEF IsInjective
<1> QED
  BY <1>2, <1>3 DEF SetToSeq

LEMMA OneAsList ==
  ASSUME NEW o
  PROVE  SetToSeq({o}) = <<o>>
<1> DEFINE F == [1 .. Cardinality({o}) -> {o}]
<1>1. Cardinality({o}) = 1
  BY FS_Singleton
<1>2. \A f \in F : f = <<o>>
  BY <1>1
<1>3. <<o>> \in F /\ IsInjective(<<o>>)
  BY <1>1 DEF IsInjective
<1> QED
  BY <1>2, <1>3 DEF SetToSeq

LEMMA FewerOf ==
  ASSUME NEW T, IsFiniteSet(T), NEW S \in SUBSET T
  PROVE  /\ IsFiniteSet(S) /\ Cardinality(S) <= Cardinality(T)
         /\ Cardinality(S) \in Nat /\ Cardinality(T) \in Nat
BY FS_Subset, FS_CardinalityType

LEMMA WalkSetsFinite ==
  ASSUME WalkType, NEW f
  PROVE  IsFiniteSet(Missed(f)) /\ IsFiniteSet(walk.left)
<1>1. walk.there \in SUBSET OnRamps /\ walk.left \in SUBSET OnRamps
  BY DEF WalkType
<1>2. Missed(f) \in SUBSET OnRamps
  BY <1>1 DEF Missed
<1> QED
  BY <1>1, <1>2, FewerOf, RowsAssumption

(* What a step of the others does to the walk.                             *)
LEMMA OthersWalk ==
  ASSUME WalkInv, Others
  PROVE  /\ walk.stage # "on" => WalkInv'
         /\ walk.stage = "on" =>
              /\ walk'.there = walk.there /\ walk'.seen = walk.seen
              /\ walk'.offset = walk.offset
              /\ walk'.left = walk.left \cup {o \in Pending : alert'[o] # "pending"}
              /\ WalkType'
              /\ Walking' => WalkInv'
<1>1. CASE walk.stage # "on"
  <2>1. walk' = walk
    BY <1>1 DEF Others
  <2> QED
    BY <1>1, <2>1 DEF WalkInv, WalkType, WalkMissesOnlyWhatLeft
<1>2. CASE walk.stage = "on"
  <2> DEFINE gone == {o \in Pending : alert'[o] # "pending"}
  <2>1. walk' = [walk EXCEPT !.left = walk.left \cup gone]
    BY <1>2 DEF Others
  <2>2. gone \in SUBSET OnRamps
    BY DEF Pending
  <2> HIDE DEF gone
  <2>3. WalkType'
    BY <2>1, <2>2 DEF WalkInv, WalkType
  <2>4. /\ walk'.there = walk.there /\ walk'.seen = walk.seen
        /\ walk'.offset = walk.offset /\ walk'.stage = "on"
        /\ walk'.left = walk.left \cup gone
    BY <1>2, <2>1 DEF WalkInv, WalkType
  <2>5. Walking' => WalkInv'
    BY <2>3, <2>4 DEF WalkInv, WalkMissesOnlyWhatLeft
  <2> QED
    BY <1>2, <2>3, <2>4, <2>5 DEF gone
<1> QED
  BY <1>1, <1>2

LEMMA QuietKeepsWalk ==
  ASSUME PTypes, ListInv, WalkInv, Others, alert' = alert
  PROVE  ListInv' /\ WalkInv'
<1>1. {o \in OnRamps : alert[o] = "none" /\ alert'[o] # "none"} = {}
  OBVIOUS
<1>2. raised' = raised
  <2>1. raised' = raised \o <<>>
    BY <1>1, NoneAsList DEF Others
  <2> QED
    BY <2>1 DEF ListInv
<1>3. Pending' = Pending /\ {o \in Pending : alert'[o] # "pending"} = {}
  BY DEF Pending
<1>4. PendingRows' = PendingRows
  BY <1>2, <1>3 DEF PendingRows
<1>5. ListInv'
  BY <1>2 DEF ListInv
<1>6. CASE walk.stage = "on"
  <2>1. Walking
    BY <1>6 DEF WalkInv
  <2>2. /\ walk'.there = walk.there /\ walk'.seen = walk.seen
        /\ walk'.offset = walk.offset /\ walk'.left = walk.left
    BY <1>3, <1>6, OthersWalk
  <2>3. Walking'
    BY <1>4, <2>1, <2>2 DEF Walking, Missed
  <2> QED
    BY <1>5, <1>6, <2>3, OthersWalk
<1> QED
  BY <1>5, <1>6, OthersWalk

(* An alert in front of the list takes nothing the walk still owes past it.*)
LEMMA RaiseKeepsWalk ==
  ASSUME PTypes, ListInv, WalkInv, Others, NEW o \in OnRamps, Raises(o)
  PROVE  ListInv' /\ WalkInv'
<1> DEFINE s == PendingRows
           t == PendingRows'
           f == walk.offset
<1>1. /\ alert[o] = "none" /\ alert'[o] = "pending"
      /\ \A p \in OnRamps : p # o => alert'[p] = alert[p]
  BY DEF Raises, PTypes
<1>2. {p \in OnRamps : alert[p] = "none" /\ alert'[p] # "none"} = {o}
  BY <1>1
<1>3. raised' = Append(raised, o)
  <2>1. raised' = raised \o <<o>>
    BY <1>2, OneAsList DEF Others
  <2> QED
    BY <2>1 DEF ListInv
<1>4. /\ Pending' = Pending \cup {o} /\ o \notin Pending
      /\ {p \in Pending : alert'[p] # "pending"} = {}
  BY <1>1 DEF Pending
<1>5. /\ raised \in Seq(OnRamps) /\ \A i \in 1 .. Len(raised) : raised[i] \in OnRamps /\ raised[i] # o
  BY <1>1 DEF ListInv
<1>6. t = Append(s, o)
  <2>1. t = Filter(Append(raised, o), Pending \cup {o})
    BY <1>3, <1>4 DEF PendingRows
  <2>2. Filter(Append(raised, o), Pending \cup {o}) = Append(Filter(raised, Pending \cup {o}), o)
    BY <1>5, FilterAppends
  <2>3. Filter(raised, Pending \cup {o}) = Filter(raised, Pending)
    BY <1>5, FilterAgrees
  <2> QED
    BY <2>1, <2>2, <2>3 DEF PendingRows
<1>7. ListInv'
  <2>1. raised' \in Seq(OnRamps) /\ \A i \in 1 .. Len(raised') : alert'[raised'[i]] # "none"
    <3>1. /\ Append(raised, o) \in Seq(OnRamps) /\ Len(Append(raised, o)) = Len(raised) + 1
          /\ Append(raised, o)[Len(raised) + 1] = o
          /\ \A i \in 1 .. Len(raised) : Append(raised, o)[i] = raised[i]
      BY <1>5
    <3>2. \A i \in 1 .. Len(raised) : alert[raised[i]] # "none"
      BY DEF ListInv
    <3> QED
      BY <1>1, <1>3, <1>5, <3>1, <3>2
  <2>2. ASSUME NEW p \in OnRamps
        PROVE  Len(Filter(raised', {p})) = IF alert'[p] = "none" THEN 0 ELSE 1
    <3>1. Len(Filter(raised, {p})) = IF alert[p] = "none" THEN 0 ELSE 1
      BY DEF ListInv
    <3>2. Filter(raised', {p}) = IF o \in {p} THEN Append(Filter(raised, {p}), o)
                                 ELSE Filter(raised, {p})
      BY <1>3, <1>5, FilterAppends
    <3>3. CASE p = o
      <4>1. Filter(raised, {p}) \in Seq(OnRamps \cap {p})
        BY <1>5, FilterType
      <4>2. Filter(raised, {p}) \in Seq(OnRamps)
        BY <4>1
      <4> QED
        BY <1>1, <3>1, <3>2, <3>3, <4>2
    <3>4. CASE p # o
      BY <1>1, <3>1, <3>2, <3>4
    <3> QED
      BY <3>3, <3>4
  <2> QED
    BY <2>1, <2>2 DEF ListInv
<1>8. CASE walk.stage = "on"
  <2>1. Walking /\ WalkType
    BY <1>8 DEF WalkInv
  <2>2. /\ walk'.there = walk.there /\ walk'.seen = walk.seen
        /\ walk'.offset = walk.offset /\ walk'.left = walk.left
    BY <1>4, <1>8, OthersWalk
  <2>3. f \in Nat /\ s \in Seq(OnRamps) /\ f - 1 \in Int /\ f - 1 <= f
    BY <2>1, PendingRowsType DEF WalkType
  <2>4. o \notin walk.there
    BY <1>1, <2>1 DEF Walking
  <2> HIDE DEF s, t, f
  <2>5. Newest(t, f) \subseteq Newest(s, f) \cup {o}
    <3>1. Newest(t, f) = Newest(s, f - 1) \cup (IF f > 0 THEN {o} ELSE {})
      BY <1>6, <2>3, NewestAppends
    <3>2. Newest(s, f - 1) \subseteq Newest(s, f)
      BY <2>3, NewestGrows
    <3> QED
      BY <3>1, <3>2
  <2>6. Missed(walk.offset)' \in SUBSET Missed(walk.offset)
    BY <2>2, <2>4, <2>5 DEF Missed, s, t, f
  <2>7. Cardinality(Missed(walk.offset)') <= Cardinality(walk'.left)
    <3> DEFINE M == Missed(walk.offset)
               N == Missed(walk.offset)'
               L == walk.left
    <3>1. IsFiniteSet(M) /\ IsFiniteSet(L) /\ Cardinality(M) <= Cardinality(L)
      BY <2>1, WalkSetsFinite DEF Walking
    <3>2. N \in SUBSET M /\ walk'.left = L
      BY <2>2, <2>6
    <3> HIDE DEF M, N, L
    <3>3. /\ Cardinality(N) <= Cardinality(M) /\ Cardinality(N) \in Nat
          /\ Cardinality(M) \in Nat /\ Cardinality(L) \in Nat
      BY <3>1, <3>2, FewerOf, FS_CardinalityType
    <3>4. Cardinality(N) <= Cardinality(walk'.left)
      BY <3>1, <3>2, <3>3
    <3> QED
      BY <3>4 DEF N
  <2>8. Walking'
    <3>1. \A p \in walk.there : alert'[p] = "pending" \/ p \in walk.left
      BY <1>1, <2>1, <2>4 DEF Walking, WalkType
    <3>2. \A p \in walk.left : alert'[p] = "manual_reviewed"
      BY <1>1, <2>1 DEF Walking, WalkType
    <3> QED
      BY <2>2, <2>7, <3>1, <3>2 DEF Walking
  <2> QED
    BY <1>7, <1>8, <2>8, OthersWalk
<1> QED
  BY <1>7, <1>8, OthersWalk

(* An alert that leaves the list moves at most one past the walk.          *)
LEMMA ResolveKeepsWalk ==
  ASSUME PTypes, ListInv, WalkInv, Others, NEW o \in OnRamps, Resolves(o)
  PROVE  ListInv' /\ WalkInv'
<1> DEFINE s == PendingRows
           t == PendingRows'
           f == walk.offset
           rest == Pending \ {o}
<1>1. /\ alert[o] # "none" /\ alert'[o] = "manual_reviewed"
      /\ \A p \in OnRamps : p # o => alert'[p] = alert[p]
  BY DEF Resolves, PTypes
<1>2. CASE alert[o] = "manual_reviewed"
  <2>1. alert' = alert
    BY <1>2 DEF Resolves, PTypes
  <2> QED
    BY <2>1, QuietKeepsWalk
<1>3. CASE alert[o] = "pending"
  <2>1. {p \in OnRamps : alert[p] = "none" /\ alert'[p] # "none"} = {}
    BY <1>1
  <2>2. raised' = raised
    <3>1. raised' = raised \o <<>>
      BY <2>1, NoneAsList DEF Others
    <3> QED
      BY <3>1 DEF ListInv
  <2>3. /\ Pending' = rest /\ o \in Pending
        /\ {p \in Pending : alert'[p] # "pending"} = {o}
    BY <1>1, <1>3 DEF Pending
  <2>4. ListInv'
    <3>1. /\ raised \in Seq(OnRamps)
          /\ \A i \in 1 .. Len(raised) : alert[raised[i]] # "none"
      BY DEF ListInv
    <3>2. \A p \in OnRamps : alert'[p] = "none" <=> alert[p] = "none"
      BY <1>1
    <3>3. \A i \in 1 .. Len(raised') : alert'[raised'[i]] # "none"
      BY <2>2, <3>1, <3>2
    <3>4. ASSUME NEW p \in OnRamps
          PROVE  Len(Filter(raised', {p})) = IF alert'[p] = "none" THEN 0 ELSE 1
      <4>1. Len(Filter(raised, {p})) = IF alert[p] = "none" THEN 0 ELSE 1
        BY DEF ListInv
      <4> QED
        BY <2>2, <3>2, <4>1
    <3> QED
      BY <2>2, <3>1, <3>3, <3>4 DEF ListInv
  <2>5. CASE walk.stage = "on"
    <3>1. Walking /\ WalkType
      BY <2>5 DEF WalkInv
    <3>2. /\ walk'.there = walk.there /\ walk'.seen = walk.seen
          /\ walk'.offset = walk.offset /\ walk'.left = walk.left \cup {o}
      BY <2>3, <2>5, OthersWalk
    <3>3. f \in Nat /\ s \in Seq(OnRamps) /\ raised \in Seq(OnRamps)
      BY <3>1, PendingRowsType DEF WalkType, ListInv
    <3>4. t = Filter(s, rest) /\ Len(s) = Len(t) + 1
      <4>1. Pending \cap rest = rest /\ Pending \cap {o} = {o} /\ Pending \cap Pending = Pending
            /\ rest \cup {o} = Pending /\ rest \cap {o} = {}
        BY <2>3
      <4>2. t = Filter(raised, rest)
        BY <2>2, <2>3 DEF PendingRows
      <4> DEFINE P == Pending
      <4>3. s = Filter(raised, P)
        BY DEF PendingRows
      <4>4. Len(Filter(raised, {o})) = 1
        BY <1>3 DEF ListInv
      <4> HIDE DEF s, t, rest, P
      <4>5. Filter(s, rest) = t /\ Filter(s, {o}) = Filter(raised, {o}) /\ Filter(s, P) = s
        BY <3>3, <4>1, <4>2, <4>3, FilterTwice DEF P
      <4>6. Len(Filter(s, rest \cup {o})) = Len(Filter(s, rest)) + Len(Filter(s, {o}))
        BY <3>3, <4>1, FilterSplits
      <4> QED
        BY <4>1, <4>4, <4>5, <4>6 DEF P
    <3> HIDE DEF s, t, f, rest
    <3>5. Newest(t, f) \subseteq Newest(s, f) \cup {s[Len(s) - f]}
      <4>1. Newest(t, f) \subseteq Newest(s, f + Len(s) - Len(t))
        BY <3>3, <3>4, NewestOfFilter
      <4>2. f + Len(s) - Len(t) = f + 1
        <5>1. Len(s) \in Nat /\ Len(t) \in Int
          <6>1. Filter(s, rest) \in Seq(OnRamps \cap rest)
            BY <3>3, FilterType
          <6> QED
            BY <3>3, <3>4, <6>1
        <5> QED
          BY <3>3, <3>4, <5>1
      <4>3. Newest(s, f + 1) \subseteq Newest(s, f) \cup {s[Len(s) - f]}
        BY <3>3, NewestOneMore
      <4> QED
        BY <4>1, <4>2, <4>3
    <3>6. Missed(walk.offset)' \in SUBSET (Missed(walk.offset) \cup {s[Len(s) - f]})
      BY <3>2, <3>5 DEF Missed, s, t, f
    <3>7. o \notin walk.left
      BY <1>3, <3>1 DEF Walking
    <3>8. Cardinality(Missed(walk.offset)') <= Cardinality(walk'.left)
      <4> DEFINE M == Missed(walk.offset)
                 N == Missed(walk.offset)'
                 L == walk.left
                 x == s[Len(s) - f]
      <4>1. IsFiniteSet(M) /\ IsFiniteSet(L) /\ Cardinality(M) <= Cardinality(L)
        BY <3>1, WalkSetsFinite DEF Walking
      <4>2. N \in SUBSET (M \cup {x}) /\ walk'.left = L \cup {o} /\ o \notin L
        BY <3>2, <3>6, <3>7
      <4> HIDE DEF M, N, L, x
      <4>3. /\ IsFiniteSet(M \cup {x}) /\ Cardinality(M \cup {x}) <= Cardinality(M) + 1
            /\ Cardinality(M) \in Nat /\ Cardinality(L) \in Nat
            /\ Cardinality(L \cup {o}) = Cardinality(L) + 1
        <5>1. Cardinality(M) \in Nat /\ Cardinality(L) \in Nat
          BY <4>1, FS_CardinalityType
        <5>2. IsFiniteSet(M \cup {x}) /\ Cardinality(M \cup {x}) <= Cardinality(M) + 1
          <6>1. /\ IsFiniteSet(M \cup {x})
                /\ Cardinality(M \cup {x}) = IF x \in M THEN Cardinality(M) ELSE Cardinality(M) + 1
            BY <4>1, FS_AddElement
          <6>2. Cardinality(M \cup {x}) = Cardinality(M) \/ Cardinality(M \cup {x}) = Cardinality(M) + 1
            BY <6>1
          <6> QED
            BY <5>1, <6>1, <6>2
        <5>3. Cardinality(L \cup {o}) = Cardinality(L) + 1
          BY <4>1, <4>2, FS_AddElement
        <5> QED
          BY <5>1, <5>2, <5>3
      <4>4. /\ Cardinality(N) <= Cardinality(M \cup {x}) /\ Cardinality(N) \in Nat
            /\ Cardinality(M \cup {x}) \in Nat
        BY <4>2, <4>3, FewerOf
      <4>5. Cardinality(N) <= Cardinality(walk'.left)
        BY <4>1, <4>2, <4>3, <4>4
      <4> QED
        BY <4>5 DEF N
    <3>9. Walking'
      <4>1. \A p \in walk.there : alert'[p] = "pending" \/ p \in walk.left \cup {o}
        BY <1>1, <3>1 DEF Walking, WalkType
      <4>2. \A p \in walk.left \cup {o} : alert'[p] = "manual_reviewed"
        BY <1>1, <3>1 DEF Walking, WalkType
      <4> QED
        BY <3>2, <3>8, <4>1, <4>2 DEF Walking
    <3> QED
      BY <2>4, <2>5, <3>9, OthersWalk
  <2> QED
    BY <2>4, <2>5, OthersWalk
<1> QED
  BY <1>1, <1>2, <1>3 DEF PTypes, AlertStatus

LEMMA BeginWalks ==
  ASSUME ListInv, WalkInv, NEW asked \in AskedLimits, Begin(asked)
  PROVE  ListInv' /\ WalkInv'
<1>1. raised' = raised /\ alert' = alert
  BY DEF Begin, pvars
<1>2. ListInv'
  BY <1>1 DEF ListInv
<1>3. walk' = [stage |-> "on", asked |-> asked, offset |-> 0,
               there |-> Pending, seen |-> {}, left |-> {}]
  <2>1. walk = NotBegun
    BY DEF Begin, WalkInv
  <2>2. walk' = [walk EXCEPT !.stage = "on", !.asked = asked, !.there = Pending]
    BY DEF Begin
  <2> QED
    BY <2>1, <2>2 DEF NotBegun
<1>4. WalkType'
  <2>1. asked \in Int \cup {NotANumber}
    BY PagesAssumption
  <2>2. Pending \in SUBSET OnRamps
    BY DEF Pending
  <2> QED
    BY <1>3, <2>1, <2>2 DEF WalkType
<1>5. Walking'
  <2> DEFINE t == PendingRows'
  <2>1. t \in Seq(OnRamps)
    BY <1>1, PendingRowsType DEF PendingRows, Pending
  <2>2. Newest(t, 0) = {}
    <3> HIDE DEF t
    <3> QED
      BY <2>1 DEF Newest
  <2>3. Missed(walk.offset)' = {}
    BY <1>3, <2>2 DEF Missed
  <2>4. Cardinality(Missed(walk.offset)') <= Cardinality(walk'.left)
    <3>1. Cardinality({}) = 0
      BY FS_EmptySet
    <3>2. Cardinality(Missed(walk.offset)') = 0 /\ Cardinality(walk'.left) = 0
      BY <1>3, <2>3, <3>1
    <3> QED
      BY <3>2
  <2>5. \A p \in walk'.there : alert'[p] = "pending"
    BY <1>1, <1>3 DEF Pending
  <2> QED
    BY <1>3, <2>4, <2>5 DEF Walking
<1> QED
  BY <1>2, <1>3, <1>4, <1>5 DEF WalkInv, WalkMissesOnlyWhatLeft

LEMMA ParsedLimit ==
  ASSUME NEW asked \in Int \cup {NotANumber}
  PROVE  parseLimit(asked) \in Nat \ {0}
BY PagesAssumption DEF parseLimit, Lower, Higher

LEMMA ReadPageWalks ==
  ASSUME ListInv, WalkInv, ReadPage
  PROVE  ListInv' /\ WalkInv'
<1> DEFINE f == walk.offset
           limit == parseLimit(walk.asked)
           rows == Page(limit, f)
<1>1. walk.stage = "on" /\ raised' = raised /\ alert' = alert
  BY DEF ReadPage, pvars
<1>2. ListInv'
  BY <1>1 DEF ListInv
<1>3. PendingRows' = PendingRows
  BY <1>1 DEF PendingRows, Pending
<1>4. Walking /\ WalkType
  BY <1>1 DEF WalkInv
<1>5. f \in Nat /\ limit \in Nat \ {0} /\ parseOffset(f) = f
  <2>1. f \in Nat /\ walk.asked \in Int \cup {NotANumber}
    BY <1>4 DEF WalkType
  <2>2. limit \in Nat \ {0}
    BY <2>1, ParsedLimit
  <2> HIDE DEF f
  <2>3. f # NotANumber /\ f >= 0
    BY <2>1, PagesAssumption
  <2> QED
    BY <2>1, <2>2, <2>3 DEF parseOffset, Higher
<1>6. walk' = [walk EXCEPT !.stage = IF Len(rows) < limit THEN "over" ELSE "on",
                           !.offset = f + limit,
                           !.seen = walk.seen \cup ToSet(rows)]
  BY <1>5 DEF ReadPage, Answer
<1>7. /\ ToSet(rows) \subseteq OnRamps
      /\ Newest(PendingRows, f + limit) \subseteq Newest(PendingRows, f) \cup ToSet(rows)
      /\ Len(rows) < limit =>
           \A i \in 1 .. Len(PendingRows) : PendingRows[i] \in Newest(PendingRows, f + limit)
  BY <1>5, PageShape
<1> HIDE DEF f, limit, rows
<1>8. /\ walk'.there = walk.there /\ walk'.left = walk.left
      /\ walk'.offset = f + limit /\ walk'.seen = walk.seen \cup ToSet(rows)
      /\ walk'.stage = IF Len(rows) < limit THEN "over" ELSE "on"
      /\ walk'.asked = walk.asked
  BY <1>4, <1>6 DEF WalkType
<1>9. WalkType'
  <2>1. f + limit \in Nat /\ walk.seen \cup ToSet(rows) \in SUBSET OnRamps
    BY <1>4, <1>5, <1>7 DEF WalkType
  <2> QED
    BY <1>4, <1>6, <2>1 DEF WalkType
<1>10. Missed(walk.offset)' \in SUBSET Missed(f)
  BY <1>3, <1>7, <1>8 DEF Missed
<1>11. Cardinality(Missed(walk.offset)') <= Cardinality(walk'.left)
  <2> DEFINE M == Missed(f)
             N == Missed(walk.offset)'
             L == walk.left
  <2>1. IsFiniteSet(M) /\ IsFiniteSet(L) /\ Cardinality(M) <= Cardinality(L)
    BY <1>4, WalkSetsFinite DEF Walking, f
  <2>2. N \in SUBSET M /\ walk'.left = L
    BY <1>8, <1>10
  <2> HIDE DEF M, N, L
  <2>3. /\ Cardinality(N) <= Cardinality(M) /\ Cardinality(N) \in Nat
        /\ Cardinality(M) \in Nat /\ Cardinality(L) \in Nat
    BY <2>1, <2>2, FewerOf, FS_CardinalityType
  <2>4. Cardinality(N) <= Cardinality(walk'.left)
    BY <2>1, <2>2, <2>3
  <2> QED
    BY <2>4 DEF N
<1>12. Walking'
  BY <1>1, <1>4, <1>8, <1>11 DEF Walking
<1>13. WalkMissesOnlyWhatLeft'
  <2> SUFFICES ASSUME walk'.stage = "over"
               PROVE  Cardinality(walk'.there \ (walk'.seen \cup walk'.left)) <= Cardinality(walk'.left)
    BY DEF WalkMissesOnlyWhatLeft
  <2> DEFINE N == Missed(walk.offset)'
             D == walk'.there \ (walk'.seen \cup walk'.left)
  <2>1. Len(rows) < limit
    BY <1>8
  <2>2. D \in SUBSET N
    <3> SUFFICES ASSUME NEW o \in D PROVE o \in N
      OBVIOUS
    <3>1. o \in walk.there /\ o \notin walk'.seen /\ o \notin walk.left /\ o \in OnRamps
      BY <1>4, <1>8 DEF WalkType
    <3>2. o \in Pending
      BY <1>4, <3>1 DEF Walking, Pending
    <3>3. PICK i \in 1 .. Len(PendingRows) : PendingRows[i] = o
      BY <3>2, PendingListed
    <3>4. o \in Newest(PendingRows, f + limit)
      BY <1>7, <2>1, <3>3
    <3> QED
      BY <1>3, <1>8, <3>1, <3>4 DEF Missed
  <2>3. IsFiniteSet(N) /\ IsFiniteSet(walk'.left)
    <3>1. IsFiniteSet(Missed(f)) /\ IsFiniteSet(walk.left)
      BY <1>4, WalkSetsFinite
    <3>2. IsFiniteSet(N)
      BY <1>10, <3>1, FewerOf
    <3> QED
      BY <1>8, <3>1, <3>2
  <2> DEFINE L == walk'.left
  <2>4. Cardinality(N) <= Cardinality(L)
    BY <1>11
  <2> HIDE DEF N, D, L
  <2>5. /\ Cardinality(D) <= Cardinality(N) /\ Cardinality(D) \in Nat
        /\ Cardinality(N) \in Nat
    BY <2>2, <2>3, FewerOf
  <2>6. Cardinality(L) \in Nat
    BY <2>3, FS_CardinalityType DEF L
  <2>7. Cardinality(D) <= Cardinality(L)
    BY <2>4, <2>5, <2>6
  <2> QED
    BY <2>7 DEF D, L
<1>14. walk'.stage # "before"
  BY <1>8
<1> QED
  BY <1>2, <1>9, <1>12, <1>13, <1>14 DEF WalkInv

LEMMA WalkInductive ==
  ASSUME PInv, ListInv, WalkInv, [GNext]_gvars
  PROVE  ListInv' /\ WalkInv'
<1>1. CASE Others
  <2>1. alert' = alert \/ \E o \in OnRamps : Raises(o) \/ Resolves(o)
    BY <1>1, AlertMoves DEF Others
  <2> QED
    BY <1>1, <2>1, QuietKeepsWalk, RaiseKeepsWalk, ResolveKeepsWalk DEF PInv
<1>2. ASSUME NEW asked \in AskedLimits, Begin(asked) PROVE ListInv' /\ WalkInv'
  BY <1>2, BeginWalks
<1>3. CASE ReadPage
  BY <1>3, ReadPageWalks
<1>4. CASE UNCHANGED gvars
  <2>1. alert' = alert /\ raised' = raised /\ walk' = walk
    BY <1>4 DEF gvars, pvars
  <2>2. ListInv'
    BY <2>1 DEF ListInv
  <2>3. PendingRows' = PendingRows
    BY <2>1 DEF PendingRows, Pending
  <2>4. Walking' <=> Walking
    BY <2>1, <2>3 DEF Walking, Missed
  <2>5. WalkInv'
    BY <2>1, <2>4 DEF WalkInv, WalkType, WalkMissesOnlyWhatLeft
  <2> QED
    BY <2>2, <2>5
<1> QED
  BY <1>1, <1>2, <1>3, <1>4 DEF GNext

(* The walk through the pages of getMissingWebhooks: whatever the others   *)
(* raise and resolve between two of its pages, at its end the alerts it    *)
(* has not seen, of those that were pending all the while, are no more     *)
(* than those that left the list.                                          *)
THEOREM WalksMissLittle == GSpec => []WalkMissesOnlyWhatLeft
<1>1. GInit => ListInv /\ WalkInv
  <2> SUFFICES ASSUME GInit PROVE ListInv /\ WalkInv
    OBVIOUS
  <2>1. raised = <<>> /\ alert = [o \in OnRamps |-> "none"] /\ walk = NotBegun
    BY DEF GInit, PInit
  <2>2. ListInv
    <3>1. <<>> \in Seq(OnRamps) /\ Len(<<>>) = 0
      OBVIOUS
    <3>2. \A o \in OnRamps : Len(Filter(raised, {o})) = 0
      BY <2>1, <3>1, FilterOfNone
    <3> QED
      BY <2>1, <3>1, <3>2 DEF ListInv
  <2>3. WalkInv
    BY <2>1 DEF WalkInv, WalkType, NotBegun, WalkMissesOnlyWhatLeft
  <2> QED
    BY <2>2, <2>3
<1>2. PInv /\ ListInv /\ WalkInv /\ [GNext]_gvars => (ListInv /\ WalkInv)'
  BY WalkInductive
<1>3. WalkInv => WalkMissesOnlyWhatLeft
  BY DEF WalkInv
<1> QED
  BY <1>1, <1>2, <1>3, WalksOnlyRead, PInvariant, PTL DEF GSpec
=============================================================================
