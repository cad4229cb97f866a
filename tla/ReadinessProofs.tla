---------------------------- MODULE ReadinessProofs ----------------------------
(***************************************************************************)
(* Theorems about Readiness, for any containers, images, items, numbers of *)
(* retries and bounds.                                                     *)
(*                                                                         *)
(* What the schema has, or a push has undone, only grows (SchemaGrows), and *)
(* holds all that the history calls applied (SchemaInv): only that makes   *)
(* the order of the start command enough for RunsOnItsSchema.  The answers *)
(* of /ready need that what a request has seen was so at a moment of the   *)
(* request (ProbeInv), that a container well configured today was so the   *)
(* day before, and that a row given up was never finished (RowsInv),       *)
(* because the code counts the two apart.                                  *)
(***************************************************************************)
EXTENDS Readiness, TLAPS

Row == [name : Nat \ {0}, finished : BOOLEAN, rolledBack : BOOLEAN]

(* Only the last row can be open, and no row is both given up and finished.*)
RowsInv ==
  \A k \in DOMAIN rows :
    /\ Open(rows[k]) => k = Len(rows)
    /\ rows[k].rolledBack => ~ rows[k].finished

(* What the history calls applied is in the schema, unless undone.         *)
AppliedInv == \A m \in Nat : Applied(m) => m \in schema \cup takenBack

SchemaInv ==
  /\ AppliedInv
  /\ \A i \in Instances :
       StartOf[i] = "migrate" /\ proc[i] \in {"starting", "connecting", "listening"}
         => Image(i) \subseteq schema \cup takenBack

(* The answer of a container is that of a moment (AnswersAreOfTheirTime).  *)
WasReady(i)  == \E m \in moments[i] : m.up /\ m.clean /\ WellConfigured(i, m.day)
WasUnready(i) ==
  \E m \in moments[i] : ~ (m.up /\ m.clean /\ WellConfigured(i, m.day))

(* What a request that is under way has seen was so at one of its moments. *)
SeenBy(i) ==
  /\ Moment \in moments[i]
  /\ \A m \in moments[i] : m.day <= day
  /\ ~ probe[i].db => \E m \in moments[i] : ~ m.up
  /\ probe[i].migrations => \E m \in moments[i] : m.up /\ m.clean
  /\ probe[i].stage \in {"table", "rows"} => ~ probe[i].migrations
  /\ probe[i].stage = "rows" => table
  /\ probe[i].stage = "rest" /\ ~ probe[i].migrations =>
       \E m \in moments[i] : ~ m.up \/ ~ m.clean
  /\ probe[i].stage = "answered" =>
       IF probe[i].ok THEN WasReady(i) ELSE WasUnready(i)

ProbeOf(i) ==
  /\ proc[i] # "listening" => probe[i].stage = "none"
  /\ probe[i].stage # "none" => SeenBy(i)

ProbeInv == \A i \in Instances : ProbeOf(i)

RdInv == RdTypeOK /\ RowsInv /\ SchemaInv /\ ProbeInv

LEMMA ImageTypes == ASSUME NEW i \in Instances
                    PROVE  Image(i) \subseteq Nat \ {0}
<1>1. ImageOf[i] \in Nat
  BY ImagesAssumption
<1> QED
  BY <1>1 DEF Image

-----------------------------------------------------------------------------
(* The initial states satisfy the invariant.                               *)
LEMMA InitInv == RdInit => RdInv
<1> SUFFICES ASSUME RdInit PROVE RdInv
  OBVIOUS
<1> USE DEF RdInit
<1>1. RdTypeOK
  <2>1. rows \in Seq([name : Nat \ {0}, finished : BOOLEAN,
                      rolledBack : BOOLEAN])
    OBVIOUS
  <2>2. config \in [Items -> Values]
    BY ItemsAssumption
  <2>3. attempt \in [Instances -> 1 .. ConnectRetries]
    BY RetriesAssumption
  <2>4. /\ day \in 0 .. MaxDay /\ events \in 0 .. MaxEvents
        /\ env \in [Instances -> [Items -> Values]]
    BY <2>2, ItemsAssumption
  <2>5. /\ table \in BOOLEAN /\ schema \subseteq Nat /\ takenBack \subseteq Nat
        /\ dbUp \in BOOLEAN
    OBVIOUS
  <2>6. probe \in [Instances -> [stage : {"none", "table", "rows", "rest",
          "answered"}, db : BOOLEAN, migrations : BOOLEAN, ok : BOOLEAN]]
    BY DEF NoProbe
  <2>7. moments \in [Instances ->
          SUBSET [up : BOOLEAN, clean : BOOLEAN, day : 0 .. MaxDay]]
    OBVIOUS
  <2>8. /\ proc \in [Instances -> {"down", "migrating", "starting",
                                   "connecting", "listening"}]
        /\ \A i, j \in Instances :
             proc[i] = "migrating" /\ proc[j] = "migrating" => i = j
    OBVIOUS
  <2> QED
    BY <2>1, <2>2, <2>3, <2>4, <2>5, <2>6, <2>7, <2>8 DEF RdTypeOK
<1>2. RowsInv
  BY DEF RowsInv
<1>3. SchemaInv
  BY DEF SchemaInv, AppliedInv, Applied
<1>4. ProbeInv
  BY DEF ProbeInv, ProbeOf, NoProbe
<1> QED
  BY <1>1, <1>2, <1>3, <1>4 DEF RdInv

-----------------------------------------------------------------------------
(* What the steps that write rows make of them.                            *)

(* A new row is appended: the earlier ones stay as they are.               *)
LEMMA BeginRows ==
  ASSUME NEW i \in Instances, rows \in Seq(Row), RowsInv, MigrationBegin(i)
  PROVE  /\ rows' \in Seq(Row)
         /\ RowsInv'
         /\ Len(rows') = Len(rows) + 1
         /\ \A k \in DOMAIN rows : k \in DOMAIN rows' /\ rows'[k] = rows[k]
<1>1. PICK m \in Unapplied(i) :
        rows' = Append(rows,
                  [name |-> m, finished |-> FALSE, rolledBack |-> FALSE])
  BY DEF MigrationBegin
<1> DEFINE r == [name |-> m, finished |-> FALSE, rolledBack |-> FALSE]
<1>2. m \in Nat \ {0}
  BY ImageTypes DEF Unapplied
<1>3. r \in Row
  BY <1>2 DEF Row
<1>4. /\ rows' \in Seq(Row) /\ Len(rows') = Len(rows) + 1
      /\ DOMAIN rows' = 1 .. Len(rows) + 1 /\ DOMAIN rows = 1 .. Len(rows)
      /\ \A k \in DOMAIN rows : rows'[k] = rows[k]
      /\ rows'[Len(rows) + 1] = r
  <2> HIDE DEF r
  <2> QED
    BY <1>1, <1>3 DEF r
<1>5. \A k \in DOMAIN rows : ~ Open(rows[k])
  BY DEF MigrationBegin, AnyOpen
<1>6. \A k \in DOMAIN rows' : k \in DOMAIN rows \/ k = Len(rows')
  BY <1>4
<1>7. RowsInv'
  BY <1>4, <1>5, <1>6 DEF RowsInv, Open
<1> QED
  BY <1>4, <1>7

(* The open row, which is the last, is closed.                             *)
LEMMA EndRows ==
  ASSUME NEW i \in Instances, rows \in Seq(Row), RowsInv, MigrationEnd(i)
  PROVE  /\ rows' \in Seq(Row)
         /\ RowsInv'
         /\ DOMAIN rows' = DOMAIN rows
         /\ Len(rows) \in DOMAIN rows
         /\ rows'[Len(rows)].name = rows[Len(rows)].name
         /\ \A k \in DOMAIN rows : k # Len(rows) => rows'[k] = rows[k]
<1>1. rows' = [rows EXCEPT ![Len(rows)].finished = TRUE]
  BY DEF MigrationEnd
<1>2. PICK n \in DOMAIN rows : Open(rows[n])
  BY DEF MigrationEnd, AnyOpen
<1>3. n = Len(rows) /\ Len(rows) \in DOMAIN rows
  BY <1>2 DEF RowsInv
<1> DEFINE e == [rows[Len(rows)] EXCEPT !.finished = TRUE]
<1>4. /\ DOMAIN rows' = DOMAIN rows
      /\ \A k \in DOMAIN rows : k # Len(rows) => rows'[k] = rows[k]
      /\ rows'[Len(rows)] = e
      /\ rows' = [rows EXCEPT ![Len(rows)] = e]
  BY <1>1, <1>3
<1>5. \A k \in DOMAIN rows : rows[k] \in Row
  OBVIOUS
<1>6. e \in Row
  BY <1>3, <1>5 DEF Row
<1>7. rows' \in Seq(Row) /\ Len(rows') = Len(rows)
  <2> HIDE DEF e
  <2> QED
    BY <1>3, <1>4, <1>6
<1>8. rows'[Len(rows)].finished /\ ~ rows'[Len(rows)].rolledBack
  BY <1>2, <1>3, <1>4, <1>5 DEF Open, Row
<1>9. RowsInv'
  BY <1>3, <1>4, <1>7, <1>8 DEF RowsInv, Open
<1> QED
  BY <1>3, <1>4, <1>5, <1>7, <1>9 DEF Row

(* The open row is given up.                                               *)
LEMMA RecoverRows ==
  ASSUME rows \in Seq(Row), RowsInv, Recover
  PROVE  /\ rows' \in Seq(Row)
         /\ RowsInv'
         /\ DOMAIN rows' = DOMAIN rows
         /\ \A k \in DOMAIN rows :
              rows'[k].rolledBack \/ rows'[k] = rows[k]
<1> DEFINE f(k) == IF Open(rows[k]) THEN [rows[k] EXCEPT !.rolledBack = TRUE]
                   ELSE rows[k]
<1>1. rows' = [k \in DOMAIN rows |-> f(k)]
  BY DEF Recover
<1>2. \A k \in DOMAIN rows : rows[k] \in Row
  OBVIOUS
<1>3. \A k \in DOMAIN rows : f(k) \in Row
  BY <1>2 DEF Row
<1>4. \A k \in DOMAIN rows :
        /\ ~ Open(f(k))
        /\ f(k).rolledBack => ~ f(k).finished
  BY <1>2 DEF Open, Row, RowsInv
<1>5. \A k \in DOMAIN rows : f(k).rolledBack \/ f(k) = rows[k]
  BY <1>2 DEF Row
<1> HIDE DEF f
<1>6. /\ DOMAIN rows' = DOMAIN rows
      /\ \A k \in DOMAIN rows : rows'[k] = f(k)
  BY <1>1
<1>7. rows' \in Seq(Row)
  BY <1>1, <1>3
<1>8. RowsInv'
  BY <1>4, <1>6 DEF RowsInv, Open
<1> QED
  BY <1>5, <1>6, <1>7, <1>8

-----------------------------------------------------------------------------
(* Which steps write what.                                                 *)

LEMMA RowsWriters ==
  ASSUME [RdNext]_rdvars
  PROVE  \/ UNCHANGED rows \/ Recover
         \/ \E i \in Instances : MigrationBegin(i) \/ MigrationEnd(i)
BY DEF RdNext, StartStep, ProbeStep, MigrateStart, MigrationBreaks,
   MigrateDone, BareStart, Push, Validate, Connect, ConnectFails,
   CheckDatabase, CheckTable, CheckRows, CheckRest, Answered, Stop, Rotate,
   DatabaseDown, DatabaseUp, NextDay, rdvars, dbvars

LEMMA SchemaWriters ==
  ASSUME [RdNext]_rdvars
  PROVE  \/ UNCHANGED <<schema, takenBack>>
         \/ \E i \in Instances :
              MigrationEnd(i) \/ MigrationBreaks(i) \/ Push(i)
BY DEF RdNext, StartStep, ProbeStep, MigrateStart, MigrationBegin,
   MigrateDone, BareStart, Validate, Connect, ConnectFails,
   CheckDatabase, CheckTable, CheckRows, CheckRest, Answered, Stop, Rotate,
   DatabaseDown, DatabaseUp, NextDay, Recover, rdvars, dbvars

LEMMA RowsInductive ==
  ASSUME RdInv, [RdNext]_rdvars
  PROVE  rows' \in Seq(Row) /\ RowsInv'
<1>1. rows \in Seq(Row) /\ RowsInv
  BY DEF RdInv, RdTypeOK, Row
<1>2. CASE UNCHANGED rows
  BY <1>1, <1>2 DEF RowsInv, Open
<1>3. ASSUME NEW i \in Instances, MigrationBegin(i)
      PROVE  rows' \in Seq(Row) /\ RowsInv'
  BY <1>1, <1>3, BeginRows
<1>4. ASSUME NEW i \in Instances, MigrationEnd(i)
      PROVE  rows' \in Seq(Row) /\ RowsInv'
  BY <1>1, <1>4, EndRows
<1>5. CASE Recover
  BY <1>1, <1>5, RecoverRows
<1> QED
  BY <1>2, <1>3, <1>4, <1>5, RowsWriters

(* No step takes away what the schema has, but a push, which is recorded.  *)
LEMMA SchemaGrows ==
  ASSUME [RdNext]_rdvars
  PROVE  schema \cup takenBack \subseteq schema' \cup takenBack'
BY SchemaWriters DEF MigrationEnd, MigrationBreaks, Push, Applying

-----------------------------------------------------------------------------
(* The history tells no more than the schema has.                          *)
LEMMA AppliedInductive == RdInv /\ [RdNext]_rdvars => AppliedInv'
<1> SUFFICES ASSUME RdInv, [RdNext]_rdvars, NEW m \in Nat, Applied(m)'
             PROVE  m \in schema' \cup takenBack'
  BY DEF AppliedInv
<1>1. rows \in Seq(Row) /\ RowsInv /\ AppliedInv
  BY DEF RdInv, RdTypeOK, Row, SchemaInv
<1>2. CASE Applied(m)
  BY <1>1, <1>2, SchemaGrows DEF AppliedInv
<1>3. PICK k \in DOMAIN rows' :
        rows'[k].name = m /\ rows'[k].finished /\ ~ rows'[k].rolledBack
  BY DEF Applied
<1>4. CASE UNCHANGED rows \/ Recover
  <2>1. k \in DOMAIN rows /\ rows'[k] = rows[k]
    BY <1>1, <1>3, <1>4, RecoverRows
  <2> QED
    BY <1>2, <1>3, <2>1 DEF Applied
<1>5. ASSUME NEW i \in Instances, MigrationBegin(i)
      PROVE  Applied(m)
  <2>1. PICK n \in Unapplied(i) :
          rows' = Append(rows,
                    [name |-> n, finished |-> FALSE, rolledBack |-> FALSE])
    BY <1>5 DEF MigrationBegin
  <2> DEFINE r == [name |-> n, finished |-> FALSE, rolledBack |-> FALSE]
  <2>2. ~ r.finished
    OBVIOUS
  <2> HIDE DEF r
  <2>3. k \in DOMAIN rows /\ rows'[k] = rows[k]
    BY <1>1, <1>3, <2>1, <2>2 DEF r
  <2> QED
    BY <1>3, <2>3 DEF Applied
<1>6. ASSUME NEW i \in Instances, MigrationEnd(i)
      PROVE  m \in schema' \cup takenBack'
  <2>1. CASE k = Len(rows)
    <3>1. rows'[Len(rows)].name = rows[Len(rows)].name
      BY <1>1, <1>6, EndRows
    <3> QED
      BY <1>3, <1>6, <2>1, <3>1 DEF MigrationEnd, Applying
  <2>2. CASE k # Len(rows)
    BY <1>1, <1>2, <1>3, <1>6, <2>2, EndRows DEF Applied
  <2> QED
    BY <2>1, <2>2
<1> QED
  BY <1>2, <1>4, <1>5, <1>6, RowsWriters

(* The start command lets nobody pass before the migrations are done.      *)
LEMMA SchemaInductive == RdInv /\ [RdNext]_rdvars => SchemaInv'
<1> SUFFICES ASSUME RdInv, [RdNext]_rdvars PROVE SchemaInv'
  OBVIOUS
<1> SUFFICES ASSUME NEW i \in Instances, StartOf[i] = "migrate",
                    proc'[i] \in {"starting", "connecting", "listening"}
             PROVE  Image(i) \subseteq schema' \cup takenBack'
  BY AppliedInductive DEF SchemaInv, Image
<1>1. \/ proc[i] \in {"starting", "connecting", "listening"}
      \/ MigrateDone(i)
  <2>1. proc \in [Instances -> {"down", "migrating", "starting",
                                "connecting", "listening"}]
    BY DEF RdInv, RdTypeOK
  <2>2. CASE UNCHANGED proc
    BY <2>2
  <2>3. ASSUME NEW j \in Instances, StartStep(j) \/ Stop(j)
        PROVE  \/ proc[i] \in {"starting", "connecting", "listening"}
               \/ MigrateDone(i)
    BY <2>1, <2>3 DEF StartStep, Stop, MigrateStart, MigrationBegin,
       MigrationEnd, MigrationBreaks, MigrateDone, BareStart, Push, Validate,
       Connect, ConnectFails, MoveTo
  <2>4. UNCHANGED proc \/ \E j \in Instances : StartStep(j) \/ Stop(j)
    BY DEF RdNext, ProbeStep, CheckDatabase, CheckTable, CheckRows,
       CheckRest, Answered, Rotate, DatabaseDown, DatabaseUp, NextDay,
       Recover, rdvars
  <2> QED
    BY <2>2, <2>3, <2>4
<1>2. Image(i) \subseteq schema \cup takenBack
  <2>1. CASE proc[i] \in {"starting", "connecting", "listening"}
    BY <2>1 DEF RdInv, SchemaInv
  <2>2. CASE MigrateDone(i)
    <3>1. \A m \in Image(i) : m \in Nat /\ Applied(m)
      BY <2>2, ImageTypes DEF MigrateDone, Unapplied
    <3> QED
      BY <3>1 DEF RdInv, SchemaInv, AppliedInv
  <2> QED
    BY <1>1, <2>1, <2>2
<1> QED
  BY <1>2, SchemaGrows

-----------------------------------------------------------------------------
(* Types, and the lock of prisma migrate deploy.                           *)

Typed == [stage : {"none", "table", "rows", "rest", "answered"},
          db : BOOLEAN, migrations : BOOLEAN, ok : BOOLEAN]
Times == [up : BOOLEAN, clean : BOOLEAN, day : 0 .. MaxDay]

(* The name of the row that is open.                                       *)
LEMMA ApplyingTypes ==
  ASSUME rows \in Seq(Row), RowsInv, AnyOpen, schema \subseteq Nat, Applying
  PROVE  schema' \subseteq Nat
<1>1. Len(rows) \in DOMAIN rows
  BY DEF AnyOpen, RowsInv
<1>2. rows[Len(rows)] \in Row
  BY <1>1
<1>3. rows[Len(rows)].name \in Nat
  BY <1>2 DEF Row
<1> QED
  BY <1>3 DEF Applying

LEMMA SchemaTypes ==
  ASSUME RdInv, [RdNext]_rdvars
  PROVE  schema' \subseteq Nat /\ takenBack' \subseteq Nat
<1>1. /\ schema \subseteq Nat /\ takenBack \subseteq Nat
      /\ rows \in Seq(Row) /\ RowsInv
  BY DEF RdInv, RdTypeOK, Row
<1>2. ASSUME NEW i \in Instances, MigrationEnd(i) \/ MigrationBreaks(i)
      PROVE  schema' \subseteq Nat /\ takenBack' \subseteq Nat
  <2>1. UNCHANGED takenBack /\ (UNCHANGED schema \/ (AnyOpen /\ Applying))
    BY <1>2 DEF MigrationEnd, MigrationBreaks
  <2> QED
    BY <1>1, <2>1, ApplyingTypes
<1>3. ASSUME NEW i \in Instances, Push(i)
      PROVE  schema' \subseteq Nat /\ takenBack' \subseteq Nat
  BY <1>1, <1>3, ImageTypes DEF Push
<1> QED
  BY <1>1, <1>2, <1>3, SchemaWriters

(* What a GET keeps is typed.                                              *)
LEMMA MomentTypes ==
  ASSUME dbUp \in BOOLEAN, table \in BOOLEAN, day \in 0 .. MaxDay
  PROVE  Moment \in Times
BY DEF Moment, Times

LEMMA MomentTypesPrimed ==
  ASSUME dbUp' \in BOOLEAN, table' \in BOOLEAN, day' \in 0 .. MaxDay
  PROVE  Moment' \in Times
BY DEF Moment, Times

LEMMA DisturbTypes ==
  ASSUME moments \in [Instances -> SUBSET Times], Disturb, Moment' \in Times
  PROVE  moments' \in [Instances -> SUBSET Times]
<1> DEFINE s(i) == IF probe[i].stage = "none" THEN {}
                   ELSE moments[i] \cup {Moment'}
<1>1. moments' = [i \in Instances |-> s(i)]
  BY DEF Disturb
<1>2. \A i \in Instances : s(i) \in SUBSET Times
  OBVIOUS
<1> HIDE DEF s
<1> QED
  BY <1>1, <1>2

LEMMA TypeInductive == RdInv /\ [RdNext]_rdvars => RdTypeOK'
<1> SUFFICES ASSUME RdInv, [RdNext]_rdvars PROVE RdTypeOK'
  OBVIOUS
<1>1. RdTypeOK
  BY DEF RdInv
<1>2. /\ rows' \in Seq([name : Nat \ {0}, finished : BOOLEAN,
                        rolledBack : BOOLEAN])
      /\ schema' \subseteq Nat /\ takenBack' \subseteq Nat
  BY RowsInductive, SchemaTypes DEF Row
<1>3. /\ moments \in [Instances -> SUBSET Times]
      /\ probe \in [Instances -> Typed]
      /\ events \in 0 .. MaxEvents
      /\ dbUp \in BOOLEAN /\ table \in BOOLEAN /\ day \in 0 .. MaxDay
  BY <1>1 DEF RdTypeOK, Times, Typed
<1>4. ASSUME Disturb, dbUp' \in BOOLEAN, table' \in BOOLEAN, day' \in 0 .. MaxDay
      PROVE  moments' \in [Instances -> SUBSET Times]
  BY <1>3, <1>4, DisturbTypes, MomentTypesPrimed
<1>5. Eventful => events' \in 0 .. MaxEvents
  BY <1>3, ItemsAssumption DEF Eventful
<1> USE <1>1, <1>2
<1>6. ASSUME NEW i \in Instances, StartStep(i)
      PROVE  RdTypeOK'
  <2>1. CASE MigrateStart(i)
    <3>1. moments' \in [Instances -> SUBSET Times]
      BY <1>3, <1>4, <2>1 DEF MigrateStart
    <3> QED
      BY <2>1, <3>1 DEF RdTypeOK, MigrateStart, MoveTo, Migrating, Times
  <2>2. CASE MigrationBegin(i)
    <3>1. moments' \in [Instances -> SUBSET Times]
      BY <1>3, <1>4, <2>2 DEF MigrationBegin
    <3> QED
      BY <2>2, <3>1 DEF RdTypeOK, MigrationBegin, Times
  <2>3. CASE MigrationEnd(i)
    <3>1. moments' \in [Instances -> SUBSET Times]
      BY <1>3, <1>4, <2>3 DEF MigrationEnd
    <3> QED
      BY <2>3, <3>1 DEF RdTypeOK, MigrationEnd, Times
  <2>4. CASE MigrationBreaks(i)
    <3>1. events' \in 0 .. MaxEvents
      BY <1>3, <1>5, <2>4 DEF MigrationBreaks
    <3> QED
      BY <2>4, <3>1 DEF RdTypeOK, MigrationBreaks, MoveTo
  <2>5. CASE MigrateDone(i)
    BY <2>5 DEF RdTypeOK, MigrateDone, MoveTo, dbvars
  <2>6. CASE BareStart(i)
    BY <2>6 DEF RdTypeOK, BareStart, MoveTo, dbvars
  <2>7. CASE Push(i)
    BY <2>7 DEF RdTypeOK, Push
  <2>8. CASE Validate(i)
    BY <2>8, RetriesAssumption DEF RdTypeOK, Validate, MoveTo, dbvars
  <2>9. CASE Connect(i)
    BY <2>9 DEF RdTypeOK, Connect, MoveTo, dbvars
  <2>10. CASE ConnectFails(i)
    <3>1. attempt \in [Instances -> 1 .. ConnectRetries]
      BY DEF RdTypeOK
    <3>2. \/ UNCHANGED attempt
          \/ /\ attempt[i] < ConnectRetries
             /\ attempt' = [attempt EXCEPT ![i] = @ + 1]
      BY <2>10 DEF ConnectFails
    <3>3. attempt' \in [Instances -> 1 .. ConnectRetries]
      BY <3>1, <3>2, RetriesAssumption
    <3>4. \/ UNCHANGED proc
          \/ proc' = [proc EXCEPT ![i] = "down"]
      BY <2>10 DEF ConnectFails, MoveTo
    <3>5. /\ proc' \in [Instances -> {"down", "migrating", "starting",
                                     "connecting", "listening"}]
          /\ \A k, l \in Instances :
               proc'[k] = "migrating" /\ proc'[l] = "migrating" => k = l
      BY <3>4 DEF RdTypeOK
    <3> QED
      BY <2>10, <3>3, <3>5 DEF RdTypeOK, ConnectFails, dbvars
  <2> QED
    BY <1>6, <2>1, <2>2, <2>3, <2>4, <2>5, <2>6, <2>7, <2>8, <2>9, <2>10
       DEF StartStep
<1>7. ASSUME NEW i \in Instances, ProbeStep(i)
      PROVE  RdTypeOK'
  <2>1. /\ UNCHANGED <<day, config, env, dbvars, dbUp, proc, attempt, events>>
        /\ \/ UNCHANGED moments
           \/ moments' = [moments EXCEPT ![i] = {Moment}]
           \/ moments' = [moments EXCEPT ![i] = {}]
    BY <1>7 DEF ProbeStep, CheckDatabase, CheckTable, CheckRows, CheckRest,
       Answered
  <2>2. moments' \in [Instances -> SUBSET Times]
    BY <1>3, <2>1, MomentTypes
  <2>3. probe' \in [Instances -> Typed]
    <3>1. CASE CheckDatabase(i)
      BY <1>3, <3>1 DEF Typed, CheckDatabase, NoProbe
    <3>2. CASE CheckTable(i)
      BY <1>3, <3>2 DEF Typed, CheckTable
    <3>3. CASE CheckRows(i)
      <4>1. (dbUp /\ CleanlyApplied) \in BOOLEAN
        BY <1>3 DEF CleanlyApplied
      <4> QED
        BY <1>3, <3>3, <4>1 DEF Typed, CheckRows
    <3>4. CASE CheckRest(i)
      <4> DEFINE answer == /\ probe[i].db /\ probe[i].migrations
                           /\ validateSafeguards(i) /\ validateSecrets(i)
      <4>1. answer \in BOOLEAN
        BY <1>3 DEF Typed
      <4>2. probe' = [probe EXCEPT ![i].stage = "answered", ![i].ok = answer]
        BY <3>4 DEF CheckRest
      <4> HIDE DEF answer
      <4> QED
        BY <1>3, <4>1, <4>2 DEF Typed
    <3>5. CASE Answered(i)
      BY <1>3, <3>5 DEF Typed, Answered, NoProbe
    <3> QED
      BY <1>7, <3>1, <3>2, <3>3, <3>4, <3>5 DEF ProbeStep
  <2> QED
    BY <2>1, <2>2, <2>3 DEF RdTypeOK, Times, Typed, dbvars
<1>8. ASSUME NEW i \in Instances, Stop(i)
      PROVE  RdTypeOK'
  <2>1. events' \in 0 .. MaxEvents
    BY <1>5, <1>8 DEF Stop
  <2> QED
    BY <1>8, <2>1 DEF RdTypeOK, Stop, MoveTo, NoProbe, dbvars
<1>9. ASSUME NEW x \in Items, Rotate(x)
      PROVE  RdTypeOK'
  <2>1. events' \in 0 .. MaxEvents
    BY <1>5, <1>9 DEF Rotate
  <2>2. [text |-> "good", date |-> day] \in Values
    BY <1>3 DEF Values, Texts
  <2>3. config' \in [Items -> Values]
    BY <1>9, <2>2 DEF Rotate, RdTypeOK
  <2> QED
    BY <1>9, <2>1, <2>3 DEF RdTypeOK, Rotate, dbvars
<1>10. CASE DatabaseDown \/ DatabaseUp
  <2>1. /\ events' \in 0 .. MaxEvents
        /\ dbUp' \in BOOLEAN
        /\ Disturb
        /\ UNCHANGED <<day, config, env, dbvars, proc, attempt, probe>>
    BY <1>3, <1>5, <1>10 DEF DatabaseDown, DatabaseUp
  <2>2. moments' \in [Instances -> SUBSET Times]
    BY <1>3, <1>4, <2>1 DEF dbvars
  <2> QED
    BY <2>1, <2>2 DEF RdTypeOK, Times, dbvars
<1>11. CASE NextDay
  <2>1. day' \in 0 .. MaxDay
    BY <1>3, <1>11, ItemsAssumption DEF NextDay
  <2>2. moments' \in [Instances -> SUBSET Times]
    BY <1>3, <1>4, <1>11, <2>1 DEF NextDay, dbvars
  <2> QED
    BY <1>11, <2>1, <2>2 DEF RdTypeOK, NextDay, Times, dbvars
<1>12. CASE Recover
  <2>1. moments' \in [Instances -> SUBSET Times]
    BY <1>3, <1>4, <1>12 DEF Recover
  <2> QED
    BY <1>12, <2>1 DEF RdTypeOK, Recover, Times
<1>13. CASE UNCHANGED rdvars
  BY <1>13 DEF RdTypeOK, rdvars, dbvars
<1> QED
  BY <1>6, <1>7, <1>8, <1>9, <1>10, <1>11, <1>12, <1>13 DEF RdNext

-----------------------------------------------------------------------------
(* What a request has seen.                                                *)

(* A container well configured on a day was so on the days before.         *)
LEMMA WellConfiguredBefore ==
  ASSUME NEW i \in Instances, NEW d \in Nat, NEW e \in Nat, e <= d, RdTypeOK,
         WellConfigured(i, d)
  PROVE  WellConfigured(i, e)
<1>1. \A x \in Items : env[i][x].date \in Int
  BY DEF RdTypeOK, Values, Undated
<1>2. \A x \in Secrets : d <= env[i][x].date + WarningDays
                           => e <= env[i][x].date + WarningDays
  BY <1>1, ItemsAssumption DEF Items
<1>3. \A x \in Safeguards : d <= env[i][x].date + BackupDays
                              => e <= env[i][x].date + BackupDays
  BY <1>1, ItemsAssumption DEF Items
<1> QED
  BY <1>2, <1>3 DEF WellConfigured

(* What the last check looks at.                                           *)
LEMMA ChecksTheRest ==
  ASSUME NEW i \in Instances, RdTypeOK
  PROVE  validateSafeguards(i) /\ validateSecrets(i) <=> WellConfigured(i, day)
<1>1. /\ day \in Int
      /\ \A x \in Items : env[i][x].date \in Int
  BY DEF RdTypeOK, Values, Undated
<1>2. \A x \in Secrets : day - env[i][x].date > WarningDays
                           <=> ~ day <= env[i][x].date + WarningDays
  BY <1>1, ItemsAssumption DEF Items
<1>3. \A x \in Safeguards : day - env[i][x].date > BackupDays
                              <=> ~ day <= env[i][x].date + BackupDays
  BY <1>1, ItemsAssumption DEF Items
<1>4. validateSecrets(i) <=>
        /\ \A x \in ReadySecrets : env[i][x].text # "missing"
        /\ \A x \in suspiciousKeys : env[i][x].text # "suspicious"
        /\ \A x \in Secrets :
             \/ env[i][x].text = "missing" \/ env[i][x].date = Undated
             \/ day <= env[i][x].date + WarningDays
  BY <1>2, ItemsAssumption DEF validateSecrets, RotationDue
<1>5. validateSafeguards(i) <=>
        \A x \in Safeguards :
          /\ env[i][x].text = "good"
          /\ env[i][x].date = Undated \/ day <= env[i][x].date + BackupDays
  BY <1>3 DEF validateSafeguards
<1> QED
  BY <1>4, <1>5 DEF WellConfigured

(* A container that neither starts, stops nor probes: whatever changes     *)
(* around it becomes one more moment of its request.                       *)
LEMMA BystanderProbe ==
  ASSUME NEW i \in Instances, ProbeOf(i),
         env'[i] = env[i], probe'[i] = probe[i],
         proc[i] = "listening" => proc'[i] = "listening",
         day \in Int, day' \in Int, day <= day', table => table',
         \A m \in moments[i] : m.day \in Int,
         probe[i].stage # "none" => moments'[i] = moments[i] \cup {Moment'}
  PROVE  ProbeOf(i)'
<1> SUFFICES ASSUME probe[i].stage # "none" PROVE SeenBy(i)'
  BY DEF ProbeOf
<1>1. SeenBy(i) /\ moments'[i] = moments[i] \cup {Moment'}
  BY DEF ProbeOf
<1>2. \A m \in moments'[i] : m.day <= day'
  BY <1>1 DEF SeenBy, Moment
<1>3. \A d : WellConfigured(i, d)' <=> WellConfigured(i, d)
  BY DEF WellConfigured
<1>4. (WasReady(i) => WasReady(i)') /\ (WasUnready(i) => WasUnready(i)')
  BY <1>1, <1>3 DEF WasReady, WasUnready
<1>5. Moment' \in moments'[i]
  BY <1>1
<1>6. \A m \in moments[i] : m \in moments'[i]
  BY <1>1
<1> HIDE <1>1
<1> QED
  BY <1>1, <1>2, <1>4, <1>5, <1>6 DEF SeenBy

(* What a step leaves alone is seen as before.                             *)
LEMMA QuietProbe ==
  ASSUME NEW i \in Instances, ProbeOf(i), RdTypeOK,
         env'[i] = env[i], probe'[i] = probe[i], moments'[i] = moments[i],
         proc[i] = "listening" => proc'[i] = "listening",
         UNCHANGED <<day, dbUp, table, rows>>
  PROVE  ProbeOf(i)'
<1>1. Moment' = Moment
  BY DEF Moment
<1>2. probe[i].stage # "none" => moments'[i] = moments[i] \cup {Moment'}
  BY <1>1 DEF ProbeOf, SeenBy
<1>3. day \in Int /\ \A m \in moments[i] : m.day \in Int
  BY DEF RdTypeOK
<1> QED
  BY <1>2, <1>3, BystanderProbe

LEMMA DisturbedProbe ==
  ASSUME NEW i \in Instances, ProbeOf(i), RdTypeOK, Disturb,
         env'[i] = env[i], probe'[i] = probe[i],
         proc[i] = "listening" => proc'[i] = "listening",
         day' \in Int, day <= day', table => table'
  PROVE  ProbeOf(i)'
<1>1. probe[i].stage # "none" => moments'[i] = moments[i] \cup {Moment'}
  BY DEF Disturb
<1>2. day \in Int /\ \A m \in moments[i] : m.day \in Int
  BY DEF RdTypeOK
<1> QED
  BY <1>1, <1>2, BystanderProbe

(* The same for a step of one container, which leaves the others alone.    *)
LEMMA OthersProbe ==
  ASSUME NEW i \in Instances, NEW j \in Instances, i # j,
         ProbeOf(j), StartStep(i) \/ ProbeStep(i) \/ Stop(i), RdTypeOK
  PROVE  ProbeOf(j)'
<1>0. day \in Int
  BY DEF RdTypeOK
<1>1. CASE MigrateStart(i) \/ MigrationBegin(i) \/ MigrationEnd(i)
  <2>1. /\ Disturb /\ UNCHANGED <<day, probe>>
        /\ proc'[j] = proc[j] /\ env'[j] = env[j] /\ (table => table')
    BY <1>1 DEF RdTypeOK, MigrateStart, MigrationBegin, MigrationEnd, MoveTo
  <2> QED
    BY <1>0, <2>1, DisturbedProbe
<1>2. CASE /\ StartStep(i)
           /\ ~ (MigrateStart(i) \/ MigrationBegin(i) \/ MigrationEnd(i))
  <2>1. /\ UNCHANGED <<day, dbUp, table, rows, probe, moments>>
        /\ proc'[j] = proc[j] /\ env'[j] = env[j]
    BY <1>2 DEF RdTypeOK, StartStep, MigrationBreaks, MigrateDone, BareStart,
       Push, Validate, Connect, ConnectFails, MoveTo, dbvars
  <2> QED
    BY <2>1, QuietProbe
<1>3. CASE ProbeStep(i)
  <2>1. UNCHANGED <<day, dbUp, table, rows, env, proc>>
    BY <1>3 DEF ProbeStep, CheckDatabase, CheckTable, CheckRows, CheckRest,
       Answered, dbvars
  <2>2. moments'[j] = moments[j]
    BY <1>3 DEF RdTypeOK, ProbeStep, CheckDatabase, CheckTable, CheckRows,
       CheckRest, Answered
  <2>3. probe'[j] = probe[j]
    <3>1. CASE CheckDatabase(i)
      BY <3>1 DEF RdTypeOK, CheckDatabase
    <3>2. CASE CheckTable(i)
      BY <3>2 DEF RdTypeOK, CheckTable
    <3>3. CASE CheckRows(i)
      BY <3>3 DEF RdTypeOK, CheckRows
    <3>4. CASE CheckRest(i)
      BY <3>4 DEF RdTypeOK, CheckRest
    <3>5. CASE Answered(i)
      BY <3>5 DEF RdTypeOK, Answered
    <3> QED
      BY <1>3, <3>1, <3>2, <3>3, <3>4, <3>5 DEF ProbeStep
  <2> QED
    BY <2>1, <2>2, <2>3, QuietProbe
<1>4. CASE Stop(i)
  <2>1. /\ UNCHANGED <<day, dbUp, table, rows, env>>
        /\ proc'[j] = proc[j] /\ probe'[j] = probe[j]
        /\ moments'[j] = moments[j]
    BY <1>4 DEF RdTypeOK, Stop, MoveTo, dbvars
  <2> QED
    BY <2>1, QuietProbe
<1> QED
  BY <1>1, <1>2, <1>3, <1>4

(* A request is answered as at one of its moments.                         *)
LEMMA AnswerOfAMoment ==
  ASSUME NEW i \in Instances, RdTypeOK, SeenBy(i), probe[i].stage = "rest",
         NEW ok, ok <=> /\ probe[i].db /\ probe[i].migrations
                        /\ validateSafeguards(i) /\ validateSecrets(i)
  PROVE  IF ok THEN WasReady(i) ELSE WasUnready(i)
<1>1. validateSafeguards(i) /\ validateSecrets(i) <=> WellConfigured(i, day)
  BY ChecksTheRest
<1>2. /\ day \in Nat
      /\ \A m \in moments[i] : m.day \in Nat
  BY DEF RdTypeOK
<1>3. CASE ok
  <2>1. PICK m \in moments[i] : m.up /\ m.clean
    BY <1>3 DEF SeenBy
  <2>2. m.day <= day
    BY DEF SeenBy
  <2>3. WellConfigured(i, m.day)
    BY <1>1, <1>2, <1>3, <2>2, WellConfiguredBefore
  <2> QED
    BY <1>3, <2>1, <2>3 DEF WasReady
<1>4. CASE ~ ok
  <2>1. CASE ~ probe[i].db \/ ~ probe[i].migrations
    BY <1>4, <2>1 DEF SeenBy, WasUnready
  <2>2. CASE ~ WellConfigured(i, day)
    <3>1. Moment \in moments[i] /\ Moment.day = day
      BY DEF SeenBy, Moment
    <3> QED
      BY <1>4, <2>2, <3>1 DEF WasUnready
  <2> QED
    BY <1>1, <1>4, <2>1, <2>2
<1> QED
  BY <1>3, <1>4

(* The container that moves: each check records what is there.             *)
LEMMA OwnProbe ==
  ASSUME NEW i \in Instances, RdTypeOK, RowsInv,
         ProbeOf(i), StartStep(i) \/ ProbeStep(i) \/ Stop(i)
  PROVE  ProbeOf(i)'
<1>1. CASE Push(i)
  BY <1>1, QuietProbe DEF Push
<1>2. CASE StartStep(i) /\ ~ Push(i)
  <2>1. proc[i] # "listening" /\ UNCHANGED probe
    BY <1>2 DEF StartStep, MigrateStart, MigrationBegin, MigrationEnd,
       MigrationBreaks, MigrateDone, BareStart, Validate, Connect, ConnectFails
  <2>2. probe'[i].stage = "none"
    BY <2>1 DEF ProbeOf
  <2> QED
    BY <2>2 DEF ProbeOf
<1>3. CASE Stop(i) \/ Answered(i)
  BY <1>3 DEF ProbeOf, RdTypeOK, Stop, Answered, NoProbe
<1>4. CASE ProbeStep(i) /\ ~ Answered(i)
  <2>0. /\ proc[i] = "listening"
        /\ UNCHANGED <<day, env, table, rows, dbUp, proc>>
        /\ Moment' = Moment
    BY <1>4 DEF ProbeStep, CheckDatabase, CheckTable, CheckRows, CheckRest,
       Answered, At, dbvars, Moment
  <2>1. CASE CheckDatabase(i)
    <3>1. /\ probe'[i] = [stage |-> "table", db |-> dbUp, migrations |-> FALSE,
                          ok |-> FALSE]
          /\ moments'[i] = {Moment}
      BY <2>1 DEF RdTypeOK, CheckDatabase, NoProbe
    <3>2. Moment.up = dbUp /\ Moment.day = day /\ day \in Int
      BY DEF RdTypeOK, Moment
    <3> QED
      BY <2>0, <3>1, <3>2 DEF ProbeOf, SeenBy
  <2> DEFINE Seen == /\ SeenBy(i) /\ moments'[i] = moments[i]
                     /\ \A m \in moments[i] : m \in moments'[i]
  <2>2. CASE CheckTable(i)
    <3>1. /\ probe[i].stage = "table" /\ probe' = [probe EXCEPT ![i].stage =
                              IF dbUp /\ table THEN "rows" ELSE "rest"]
          /\ UNCHANGED moments
      BY <2>2 DEF CheckTable, At
    <3>2. /\ probe'[i].stage = IF dbUp /\ table THEN "rows" ELSE "rest"
          /\ probe'[i].db = probe[i].db
          /\ probe'[i].migrations = probe[i].migrations
      BY <3>1 DEF RdTypeOK
    <3>3. SeenBy(i)
      BY <3>1 DEF ProbeOf
    <3>4. ~ (dbUp /\ table) => ~ Moment.up \/ ~ Moment.clean
      BY DEF Moment
    <3> QED
      BY <2>0, <3>1, <3>2, <3>3, <3>4 DEF ProbeOf, SeenBy
  <2>3. CASE CheckRows(i)
    <3> DEFINE seen == dbUp /\ CleanlyApplied
    <3>1. /\ probe[i].stage = "rows"
          /\ probe' = [probe EXCEPT ![i].stage = "rest",
                                    ![i].migrations = seen]
          /\ UNCHANGED moments
      BY <2>3 DEF CheckRows, At
    <3>2. SeenBy(i) /\ table
      BY <3>1 DEF ProbeOf, SeenBy
    <3>3. seen <=> Moment.up /\ Moment.clean
      <4>1. CleanlyApplied <=> \A k \in DOMAIN rows : rows[k].finished
        BY DEF RowsInv, CleanlyApplied
      <4> QED
        BY <3>2, <4>1 DEF Moment
    <3> HIDE DEF seen
    <3>4. /\ probe'[i].stage = "rest"
          /\ probe'[i].db = probe[i].db
          /\ probe'[i].migrations = seen
      BY <3>1 DEF RdTypeOK
    <3> QED
      BY <2>0, <3>1, <3>2, <3>3, <3>4 DEF ProbeOf, SeenBy
  <2>4. CASE CheckRest(i)
    <3> DEFINE answer == /\ probe[i].db /\ probe[i].migrations
                         /\ validateSafeguards(i) /\ validateSecrets(i)
    <3>1. /\ probe[i].stage = "rest"
          /\ probe' = [probe EXCEPT ![i].stage = "answered", ![i].ok = answer]
          /\ UNCHANGED moments
      BY <2>4 DEF CheckRest, At
    <3>2. SeenBy(i)
      BY <3>1 DEF ProbeOf
    <3>3. IF answer THEN WasReady(i) ELSE WasUnready(i)
      BY <3>1, <3>2, AnswerOfAMoment
    <3>4. (WasReady(i) => WasReady(i)') /\ (WasUnready(i) => WasUnready(i)')
      BY <2>0, <3>1 DEF WasReady, WasUnready, WellConfigured
    <3> HIDE DEF answer
    <3>5. /\ probe'[i].stage = "answered"
          /\ probe'[i].db = probe[i].db
          /\ probe'[i].migrations = probe[i].migrations
          /\ probe'[i].ok = answer
      BY <3>1 DEF RdTypeOK
    <3> QED
      BY <2>0, <3>1, <3>2, <3>3, <3>4, <3>5 DEF ProbeOf, SeenBy
  <2> QED
    BY <1>4, <2>1, <2>2, <2>3, <2>4 DEF ProbeStep
<1> QED
  BY <1>1, <1>2, <1>3, <1>4 DEF ProbeStep

LEMMA ProbeInductive == RdInv /\ [RdNext]_rdvars => ProbeInv'
<1> SUFFICES ASSUME RdInv, [RdNext]_rdvars, NEW j \in Instances
             PROVE  ProbeOf(j)'
  BY DEF ProbeInv
<1>1. RdTypeOK /\ RowsInv /\ ProbeOf(j) /\ day \in Int
  BY DEF RdInv, ProbeInv, RdTypeOK
<1>2. ASSUME NEW i \in Instances, StartStep(i) \/ ProbeStep(i) \/ Stop(i)
      PROVE  ProbeOf(j)'
  <2>1. CASE i = j
    BY <1>1, <1>2, <2>1, OwnProbe
  <2>2. CASE i # j
    BY <1>1, <1>2, <2>2, OthersProbe
  <2> QED
    BY <2>1, <2>2
<1>3. CASE DatabaseDown \/ DatabaseUp \/ NextDay \/ Recover
  <2>1. /\ Disturb /\ UNCHANGED <<env, probe, proc, table>>
        /\ day' = day \/ day' = day + 1
    BY <1>3 DEF DatabaseDown, DatabaseUp, NextDay, Recover, dbvars
  <2> QED
    BY <1>1, <2>1, DisturbedProbe
<1>4. CASE (\E x \in Items : Rotate(x)) \/ UNCHANGED rdvars
  <2>1. UNCHANGED <<day, dbUp, table, rows, env, probe, moments, proc>>
    BY <1>4 DEF Rotate, rdvars, dbvars
  <2> QED
    BY <1>1, <2>1, QuietProbe
<1> QED
  BY <1>2, <1>3, <1>4 DEF RdNext

-----------------------------------------------------------------------------
LEMMA Invariance == RdSpec => []RdInv
<1>1. RdInv /\ [RdNext]_rdvars => RdInv'
  BY RowsInductive, TypeInductive, SchemaInductive, ProbeInductive DEF RdInv
<1> QED
  BY <1>1, InitInv, PTL DEF RdSpec

(* Every variable keeps its type, and one container migrates at a time.    *)
THEOREM ReadinessTypes == RdSpec => []RdTypeOK
<1>1. RdInv => RdTypeOK
  BY DEF RdInv
<1> QED
  BY <1>1, Invariance, PTL

(* Any number of containers of any images may start in any of the ways of  *)
(* the repository, die, migrate and push to one database: whoever is past  *)
(* its own `migrate deploy` lacks nothing but what a push has undone.      *)
THEOREM ServesOnItsSchema == RdSpec => []RunsOnItsSchema
<1>1. RdInv => RunsOnItsSchema
  BY DEF RdInv, SchemaInv, RunsOnItsSchema
<1> QED
  BY <1>1, Invariance, PTL

(* The three checks of /ready that wait for the database, one after the    *)
(* other while it changes, are as good as one look at it.                  *)
THEOREM AnswersAreExact == RdSpec => []AnswersAreOfTheirTime
<1>1. RdInv => AnswersAreOfTheirTime
  BY DEF RdInv, ProbeInv, ProbeOf, SeenBy, At, WasReady, WasUnready,
     AnswersAreOfTheirTime
<1> QED
  BY <1>1, Invariance, PTL
=============================================================================
