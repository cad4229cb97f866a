------------------------------- MODULE Readiness -------------------------------
(***************************************************************************)
(* Containers of older and newer images start on one database and answer   *)
(* GET /ready while others migrate it, the database comes and goes,        *)
(* credentials age and operators repair what has failed.                   *)
(*                                                                         *)
(* The repository does not agree on how they start.  Each container here   *)
(* has one of its ways: `prisma migrate deploy && node` (railway.json, the *)
(* Dockerfile of the root, render.yaml); node alone (railway.toml, the     *)
(* Dockerfile of the backend, Procfile, nixpacks.toml).  Two more are jobs *)
(* that end without a server: `prisma db push` (railway.toml, before the   *)
(* deployment), and migrate deploy by hand (DEPLOYMENT_RAILWAY.md, after). *)
(*                                                                         *)
(* /ready never compares the image with the database: it only looks for    *)
(* rows of _prisma_migrations that are open or rolled back.  That an       *)
(* instance runs on its schema rests on the order of its start command.    *)
(*                                                                         *)
(* NODE_ENV is "production".  Prisma's part is external: migrate deploy    *)
(* takes an advisory lock, opens a row per migration, closes it when the   *)
(* script has run, refuses to go on while an earlier row is open (P3009),  *)
(* and to begin on a schema without the table of migrations (P3005).       *)
(***************************************************************************)
EXTENDS Integers, Sequences

CONSTANTS
  Instances,      (* containers                                            *)
  ImageOf,        (* the number of migrations in the image of each         *)
  StartOf,        (* "migrate", "bare", "push" or "by hand"                *)
  Secrets,        (* MOONPAY_WEBHOOK_SECRET and its like, each with the    *)
                  (* date of its rotation                                  *)
  Safeguards,     (* backups with the date of their last test, SSL, no push*)
  StartSecrets,   (* the secrets env-validator insists on                  *)
  ReadySecrets,   (* the secrets /ready insists on                         *)
  suspiciousKeys, (* the secrets whose text /ready looks at                *)
  WarningDays,    (* ROTATION_WARNING_DAYS                                 *)
  BackupDays,     (* 90, in validateBackupConfig                           *)
  Configurations, (* the configurations an operator may have set at first  *)
  ConnectRetries, (* DB_CONNECT_RETRIES                                    *)
  MaxDay,         (* bound: the last day                                   *)
  MaxEvents       (* bound: outages, deaths, failing scripts, rotations    *)

(* An item is missing, of a text that looks like an example or is too      *)
(* short, the placeholder of render.yaml, or good; and it may have a date  *)
(* that can be read.                                                       *)
Texts   == {"missing", "suspicious", "placeholder", "good"}
Undated == -1
Values  == [text : Texts, date : {Undated} \cup 0 .. MaxDay]
Items   == Secrets \cup Safeguards

ASSUME ImagesAssumption ==
  /\ ImageOf \in [Instances -> Nat]
  /\ StartOf \in [Instances -> {"migrate", "bare", "push", "by hand"}]
ASSUME ItemsAssumption ==
  /\ StartSecrets \subseteq Secrets /\ ReadySecrets \subseteq Secrets
  /\ suspiciousKeys \subseteq Secrets
  /\ WarningDays \in Nat /\ BackupDays \in Nat
  /\ MaxDay \in Nat /\ MaxEvents \in Nat
  /\ Configurations \subseteq [Items -> Values]
(* Zero, or what is not a number, would skip connecting.                   *)
ASSUME RetriesAssumption == ConnectRetries \in Nat \ {0}

VARIABLES
  day,        (* the date                                                  *)
  config,     (* the platform's variables                                  *)
  env,        (* process.env of a container, fixed when it was started     *)
  table,      (* does the table _prisma_migrations exist?                  *)
  rows,       (* _prisma_migrations, by started_at                         *)
  schema,     (* the migrations whose changes the schema has               *)
  dbUp,       (* does the database answer?                                 *)
  proc,       (* how far a container is                                    *)
  attempt,    (* connectWithRetry's loop variable                          *)
  probe,      (* how far a container's GET /ready is, and what it has seen *)
  moments,    (* bookkeeping: what there was to see since a GET began      *)
  takenBack,  (* bookkeeping: the migrations that a push has undone        *)
  events      (* how many of those there have been                         *)

dbvars == <<table, rows, schema, takenBack>>
rdvars ==
  <<day, config, env, dbvars, dbUp, proc, attempt, probe, moments, events>>

NoProbe == [stage |-> "none", db |-> FALSE, migrations |-> FALSE, ok |-> FALSE]

Open(r)    == ~ r.finished /\ ~ r.rolledBack
Applied(m) == \E k \in DOMAIN rows :
                rows[k].name = m /\ rows[k].finished /\ ~ rows[k].rolledBack
Image(i)     == 1 .. ImageOf[i]
Unapplied(i) == {m \in Image(i) : ~ Applied(m)}
AnyOpen      == \E k \in DOMAIN rows : Open(rows[k])
Migrating    == \E i \in Instances : proc[i] = "migrating"

Eventful == events < MaxEvents /\ events' = events + 1

(* Slip: only failed rows count, those pending and not rolled back.        *)
NothingFailed == ~ AnyOpen

(* pending = 0, rolledBack = 0 and failed = pending - rolledBack = 0       *)
CleanlyApplied ==
  LET pending    == {k \in DOMAIN rows : ~ rows[k].finished}
      rolledBack == {k \in DOMAIN rows : rows[k].rolledBack}
  IN  pending = {} /\ rolledBack = {}

(* Every GET that is under way lives to see what has changed.              *)
Moment  == [up |-> dbUp, clean |-> table /\ \A k \in DOMAIN rows : rows[k].finished,
            day |-> day]
Disturb == moments' = [i \in Instances |->
             IF probe[i].stage = "none" THEN {} ELSE moments[i] \cup {Moment'}]

RdInit ==
  /\ day = 0
  /\ config \in Configurations
  /\ env = [i \in Instances |-> config]
  /\ table = FALSE /\ rows = <<>> /\ schema = {} /\ takenBack = {}
  /\ dbUp = TRUE
  /\ proc = [i \in Instances |-> "down"]
  /\ attempt = [i \in Instances |-> 1]
  /\ probe = [i \in Instances |-> NoProbe]
  /\ moments = [i \in Instances |-> {}]
  /\ events = 0

-----------------------------------------------------------------------------
(* Starting: prisma migrate deploy                                         *)

MoveTo(i, p) == proc' = [proc EXCEPT ![i] = p]

(* Its prisma gets the lock and makes the table.  With an open row, or on  *)
(* a schema that was pushed, it would end at once, to be started again by  *)
(* the platform.                                                           *)
MigrateStart(i) ==
  /\ StartOf[i] \in {"migrate", "by hand"}
  /\ proc[i] = "down" /\ dbUp
  /\ ~ Migrating /\ ~ AnyOpen
  /\ table \/ schema = {}
  /\ MoveTo(i, "migrating")
  /\ env' = [env EXCEPT ![i] = config]
  /\ table' = TRUE
  /\ UNCHANGED <<day, config, rows, schema, takenBack, dbUp, attempt, probe,
                 events>>
  /\ Disturb

MigrationBegin(i) ==
  /\ proc[i] = "migrating" /\ dbUp /\ ~ AnyOpen
  /\ \E m \in Unapplied(i) :
       /\ \A n \in Unapplied(i) : m <= n
       /\ rows' = Append(rows,
                    [name |-> m, finished |-> FALSE, rolledBack |-> FALSE])
  /\ UNCHANGED <<day, config, env, table, schema, takenBack, dbUp, proc,
                 attempt, probe, events>>
  /\ Disturb

(* The script of the open row has run.                                     *)
Applying == schema' = schema \cup {rows[Len(rows)].name}

MigrationEnd(i) ==
  /\ proc[i] = "migrating" /\ dbUp /\ AnyOpen
  /\ Applying
  /\ rows' = [rows EXCEPT ![Len(rows)].finished = TRUE]
  /\ UNCHANGED <<day, config, env, table, takenBack, dbUp, proc, attempt,
                 probe, events>>
  /\ Disturb

(* Slip: ; for && in the start command.                                    *)
MigrationBreaksUnnoticed(i) ==
  /\ proc[i] = "migrating"
  /\ IF dbUp THEN Eventful ELSE UNCHANGED events
  /\ MoveTo(i, "starting")
  /\ UNCHANGED <<day, config, env, dbvars, dbUp, attempt, probe, moments>>

(* The script fails, or the connection, with the script run or not: the    *)
(* row stays open, and && ends the container.                              *)
MigrationBreaks(i) ==
  /\ proc[i] = "migrating"
  /\ IF dbUp THEN Eventful ELSE UNCHANGED events
  /\ UNCHANGED schema \/ (AnyOpen /\ Applying)
  /\ MoveTo(i, "down")
  /\ UNCHANGED <<day, config, env, table, rows, takenBack, dbUp, attempt,
                 probe, moments>>

(* The server starts, if the command has one.                              *)
MigrateDone(i) ==
  /\ proc[i] = "migrating" /\ dbUp
  /\ ~ AnyOpen /\ Unapplied(i) = {}
  /\ MoveTo(i, IF StartOf[i] = "migrate" THEN "starting" ELSE "down")
  /\ UNCHANGED <<day, config, env, dbvars, dbUp, attempt, probe, moments,
                 events>>

-----------------------------------------------------------------------------
(* Starting: the other ways                                                *)

(* npm run start:prod, or node alone.                                      *)
BareStart(i) ==
  /\ StartOf[i] = "bare"
  /\ proc[i] = "down"
  /\ MoveTo(i, "starting")
  /\ env' = [env EXCEPT ![i] = config]
  /\ UNCHANGED <<day, config, dbvars, dbUp, attempt, probe, moments, events>>

(* prisma db push --accept-data-loss: the schema becomes that of the image,*)
(* whatever it was; _prisma_migrations is neither asked nor told.          *)
Push(i) ==
  /\ StartOf[i] = "push"
  /\ dbUp
  /\ schema' = Image(i)
  /\ takenBack' = takenBack \cup (schema \ Image(i))
  /\ UNCHANGED <<day, config, env, table, rows, dbUp, proc, attempt, probe,
                 moments, events>>

-----------------------------------------------------------------------------
(* Starting: bootstrap, and onModuleInit of PrismaService                  *)

(* EnvironmentValidator.validate: a placeholder only earns a warning.      *)
Validate(i) ==
  /\ proc[i] = "starting"
  /\ MoveTo(i, IF \A x \in StartSecrets : env[i][x].text # "missing"
               THEN "connecting" ELSE "down")
  /\ attempt' = [attempt EXCEPT ![i] = 1]
  /\ UNCHANGED <<day, config, env, dbvars, dbUp, probe, moments, events>>

Connect(i) ==
  /\ proc[i] = "connecting" /\ dbUp
  /\ MoveTo(i, "listening")
  /\ UNCHANGED <<day, config, env, dbvars, dbUp, attempt, probe, moments,
                 events>>

(* Slip: the retry is not counted, and the last one never comes.           *)
ConnectFailsUncounted(i) ==
  /\ proc[i] = "connecting" /\ ~ dbUp
  /\ attempt[i] >= ConnectRetries
  /\ MoveTo(i, "down")
  /\ UNCHANGED <<day, config, env, dbvars, dbUp, attempt, probe, moments,
                 events>>

(* Slip: > for >=.                                                         *)
ConnectFailsOnceMore(i) ==
  /\ proc[i] = "connecting" /\ ~ dbUp
  /\ \/ /\ attempt[i] > ConnectRetries
        /\ MoveTo(i, "down")
        /\ UNCHANGED attempt
     \/ /\ attempt[i] <= ConnectRetries
        /\ attempt' = [attempt EXCEPT ![i] = @ + 1]
        /\ UNCHANGED proc
  /\ UNCHANGED <<day, config, env, dbvars, dbUp, probe, moments, events>>

ConnectFails(i) ==
  /\ proc[i] = "connecting" /\ ~ dbUp
  /\ \/ /\ attempt[i] >= ConnectRetries
        /\ MoveTo(i, "down")
        /\ UNCHANGED attempt
     \/ /\ attempt[i] < ConnectRetries
        /\ attempt' = [attempt EXCEPT ![i] = @ + 1]
        /\ UNCHANGED proc
  /\ UNCHANGED <<day, config, env, dbvars, dbUp, probe, moments, events>>

(* The process dies, at any point: SIGTERM, a crash, a new rollout.        *)
Stop(i) ==
  /\ proc[i] # "down"
  /\ Eventful
  /\ MoveTo(i, "down")
  /\ probe' = [probe EXCEPT ![i] = NoProbe]
  /\ moments' = [moments EXCEPT ![i] = {}]
  /\ UNCHANGED <<day, config, env, dbvars, dbUp, attempt>>

-----------------------------------------------------------------------------
(* GET /ready: three checks that wait for the database, one after the      *)
(* other and whatever the last one found, then those of the environment.   *)

At(i, s) == proc[i] = "listening" /\ probe[i].stage = s

CheckDatabase(i) ==
  /\ At(i, "none")
  /\ probe' = [probe EXCEPT ![i] = [NoProbe EXCEPT !.stage = "table",
                                                   !.db = dbUp]]
  /\ moments' = [moments EXCEPT ![i] = {Moment}]
  /\ UNCHANGED <<day, config, env, dbvars, dbUp, proc, attempt, events>>

(* to_regclass: a failed query, or no table, ends the check of migrations. *)
CheckTable(i) ==
  /\ At(i, "table")
  /\ probe' = [probe EXCEPT ![i].stage =
                  IF dbUp /\ table THEN "rows" ELSE "rest"]
  /\ UNCHANGED <<day, config, env, dbvars, dbUp, proc, attempt, moments,
                 events>>

CheckRows(i) ==
  /\ At(i, "rows")
  /\ probe' = [probe EXCEPT ![i].stage = "rest",
                            ![i].migrations = dbUp /\ CleanlyApplied]
  /\ UNCHANGED <<day, config, env, dbvars, dbUp, proc, attempt, moments,
                 events>>

(* rotationDue, of a secret that is there and has a date: 61 days are too  *)
(* many, and a warning makes the report as bad as a missing secret does.   *)
RotationDue(i, x) ==
  /\ env[i][x].text # "missing" /\ env[i][x].date # Undated
  /\ day - env[i][x].date > WarningDays

(* Optional secrets are in the list only when they are set.                *)
validateSecrets(i) ==
  LET secrets == ReadySecrets \cup {x \in Secrets : env[i][x].text # "missing"}
  IN  /\ \A x \in secrets : env[i][x].text # "missing" /\ ~ RotationDue(i, x)
      /\ \A x \in suspiciousKeys : env[i][x].text # "suspicious"

(* validateProductionSafety, validateBackupConfig.                         *)
validateSafeguards(i) ==
  \A x \in Safeguards :
    /\ env[i][x].text = "good"
    /\ env[i][x].date # Undated => ~ day - env[i][x].date > BackupDays

(* The rest runs without waiting, and the answer goes out.                 *)
CheckRest(i) ==
  /\ At(i, "rest")
  /\ probe' = [probe EXCEPT ![i].stage = "answered",
                 ![i].ok = /\ probe[i].db /\ probe[i].migrations
                           /\ validateSafeguards(i) /\ validateSecrets(i)]
  /\ UNCHANGED <<day, config, env, dbvars, dbUp, proc, attempt, moments,
                 events>>

(* The client has its answer.                                              *)
Answered(i) ==
  /\ At(i, "answered")
  /\ probe' = [probe EXCEPT ![i] = NoProbe]
  /\ moments' = [moments EXCEPT ![i] = {}]
  /\ UNCHANGED <<day, config, env, dbvars, dbUp, proc, attempt, events>>

-----------------------------------------------------------------------------
(* Around the program                                                      *)

DatabaseDown ==
  /\ dbUp /\ Eventful /\ dbUp' = FALSE
  /\ UNCHANGED <<day, config, env, dbvars, proc, attempt, probe>>
  /\ Disturb

DatabaseUp ==
  /\ ~ dbUp /\ dbUp' = TRUE
  /\ UNCHANGED <<day, config, env, dbvars, proc, attempt, probe, events>>
  /\ Disturb

NextDay ==
  /\ day < MaxDay /\ day' = day + 1
  /\ UNCHANGED <<config, env, dbvars, dbUp, proc, attempt, probe, events>>
  /\ Disturb

(* An operator rotates a secret or tests a backup.  Running containers     *)
(* keep their environment.                                                 *)
Rotate(x) ==
  /\ Eventful
  /\ config' = [config EXCEPT ![x] = [text |-> "good", date |-> day]]
  /\ UNCHANGED <<day, env, dbvars, dbUp, proc, attempt, probe, moments>>

(* prisma migrate resolve --rolled-back, or the UPDATE of the repository's *)
(* recovery migrations, which says it clears the failed state.             *)
Recover ==
  /\ dbUp /\ ~ Migrating /\ AnyOpen
  /\ rows' = [k \in DOMAIN rows |->
                IF Open(rows[k]) THEN [rows[k] EXCEPT !.rolledBack = TRUE]
                ELSE rows[k]]
  /\ UNCHANGED <<day, config, env, table, schema, takenBack, dbUp, proc,
                 attempt, probe, events>>
  /\ Disturb

-----------------------------------------------------------------------------
StartStep(i) ==
  \/ MigrateStart(i) \/ MigrationBegin(i) \/ MigrationEnd(i)
  \/ MigrationBreaks(i) \/ MigrateDone(i) \/ BareStart(i) \/ Push(i)
  \/ Validate(i) \/ Connect(i) \/ ConnectFails(i)

ProbeStep(i) ==
  \/ CheckDatabase(i) \/ CheckTable(i) \/ CheckRows(i)
  \/ CheckRest(i) \/ Answered(i)

RdNext ==
  \/ \E i \in Instances : StartStep(i) \/ ProbeStep(i) \/ Stop(i)
  \/ \E x \in Items : Rotate(x)
  \/ DatabaseDown \/ DatabaseUp \/ NextDay \/ Recover

(* An attempt to connect ends, one way or the other.                       *)
RdSpec ==
  /\ RdInit /\ [][RdNext]_rdvars
  /\ \A i \in Instances : WF_rdvars(Connect(i) \/ ConnectFails(i))

-----------------------------------------------------------------------------
(* Properties                                                              *)

(* The types; and at most one container migrates, as the advisory lock has *)
(* it.                                                                     *)
RdTypeOK ==
  /\ day \in 0 .. MaxDay /\ config \in [Items -> Values]
  /\ env \in [Instances -> [Items -> Values]]
  /\ table \in BOOLEAN /\ schema \subseteq Nat /\ takenBack \subseteq Nat
  /\ rows \in Seq([name : Nat \ {0}, finished : BOOLEAN, rolledBack : BOOLEAN])
  /\ dbUp \in BOOLEAN /\ events \in 0 .. MaxEvents
  /\ proc \in [Instances ->
       {"down", "migrating", "starting", "connecting", "listening"}]
  /\ attempt \in [Instances -> 1 .. ConnectRetries]
  /\ probe \in [Instances -> [stage : {"none", "table", "rows", "rest",
       "answered"}, db : BOOLEAN, migrations : BOOLEAN, ok : BOOLEAN]]
  /\ moments \in [Instances ->
       SUBSET [up : BOOLEAN, clean : BOOLEAN, day : 0 .. MaxDay]]
  /\ \A i, j \in Instances :
       proc[i] = "migrating" /\ proc[j] = "migrating" => i = j

(* A container whose start command migrates first runs on a database with  *)
(* every migration of its image, although other images migrate it, scripts *)
(* fail and are recovered, and nothing in the program checks it.  What it  *)
(* may lack is what a push has undone; a container that starts bare is     *)
(* promised nothing.                                                       *)
RunsOnItsSchema ==
  \A i \in Instances :
    StartOf[i] = "migrate" /\ proc[i] \in {"starting", "connecting", "listening"}
      => Image(i) \ schema \subseteq takenBack

(* What the environment of a container has to be like on a day.  Nothing   *)
(* is asked about a placeholder, about the text of the other secrets, or   *)
(* about the user of the database.                                         *)
WellConfigured(i, d) ==
  /\ \A x \in ReadySecrets : env[i][x].text # "missing"
  /\ \A x \in suspiciousKeys : env[i][x].text # "suspicious"
  /\ \A x \in Secrets :
       \/ env[i][x].text = "missing" \/ env[i][x].date = Undated
       \/ d <= env[i][x].date + WarningDays
  /\ \A x \in Safeguards :
       /\ env[i][x].text = "good"
       /\ env[i][x].date = Undated \/ d <= env[i][x].date + BackupDays

(* GET /ready looks at one thing after the other while all of them change, *)
(* and yet its answer is that of a single look: when it is "ready", there  *)
(* was a moment of the request with the database up, every migration in    *)
(* its history finished, and the container well configured; when it is     *)
(* not, there was a moment at which one of these was not so.               *)
AnswersAreOfTheirTime ==
  \A i \in Instances :
    At(i, "answered") =>
      IF probe[i].ok
      THEN \E m \in moments[i] : m.up /\ m.clean /\ WellConfigured(i, m.day)
      ELSE \E m \in moments[i] : ~ (m.up /\ m.clean /\ WellConfigured(i, m.day))

(* connectWithRetry gives up: with the database down for good, a container *)
(* does not hang in its start.                                             *)
ConnectingEnds ==
  \A i \in Instances :
    proc[i] = "connecting" ~> proc[i] \in {"listening", "down"}
=============================================================================
