# IronVault Wallet: a TLA+ model of the backend

IronVault Wallet is a custodial wallet: a NestJS API over PostgreSQL (through
Prisma) that keeps a balance per user, records movements in a ledger, is
credited by payment providers' webhooks and by administrators, and watches
itself with background jobs. This directory holds TLA+ modules of its backend,
the TLC configurations that check them, and proofs checked by TLAPS.

Paths below are relative to `src/backend/src` unless they begin with another
directory.

## 1. The system and its parts

| Part | Code | State it keeps | Operations |
|---|---|---|---|
| Wallet movements | `wallet/wallet.service.ts`, `common/concurrency`, `common/idempotency` | `Wallet.balance`, `WalletLedgerEntry` rows with a unique nullable key, row locks | `creditWallet`, `debitWallet` |
| Wallet reads | `wallet/wallet.service.ts`, `wallet/services` | none | `getWallet`, `getBalance` with an integrity check, entries, totals, `createWallet` |
| Transactions | `transaction/transaction.service.ts` | `Transaction` rows with a unique nullable key, `Wallet.balance` | `createTransaction`, listing |
| Administration | `admin/admin.service.ts`, `admin/admin.controller.ts`, `admin/admin-access.logger.ts` | `Wallet.balance`, flags, `AdminAccessLog` | `manualCredit`, reports page by page, `clearWalletFlag`, a log row per request |
| Provider reconciliation | `admin/provider-reconciliation.*` | `MissingWebhookAlert`, `OnRamp.status`, `Wallet.balance` | `reconcileProviders`, `replayMissingWebhook`, `resolveMissingWebhook` |
| On-ramp webhooks | `onramp/*` | `OnRamp`, `WebhookEvent.externalId` | `initiateOnRamp`, `processEvent` |
| Webhook retry | `admin/webhook-retry.*`, `admin/dead-letter-queue.service.ts` | `WebhookEvent.status/retryCount`, `DeadLetterQueue` | `retryFailedWebhooks`, `manuallyRetryDeadLetter`, `resolve`, `archive` |
| Ledger audit | `admin/ledger-integrity.monitor.ts` | `Wallet.flaggedForReview`, `AlertLog` | the timer's audit |
| Alerts | `admin/alerts.service.ts` | `AlertLog`, an in-memory list of failures | four kinds of alert, acknowledge, resolve |
| Rate limiting | `common/rate-limit/*` | an in-memory list of timestamps per client | the guard, the clean-up |
| Reconciliation script | `backend/scripts/reconcile-balance.ts` | `Wallet.balance` | compare, and `--fix` |
| Authentication, roles | `auth/*` | `User` | sign-up, log-in, guards |
| Start-up and health | `railway.json`, `railway.toml`, `render.yaml`, the Dockerfiles, `main.ts`, `config/*`, `health/*`, `prisma/*` | `_prisma_migrations`, the schema; the environment of a process | migrations, pushes, environment checks, connecting, `GET /ready` |
| Logging, metrics, filters | `common/logging`, `common/metrics`, `common/filters` | counters | output |
| Web | `src/web` | none | static pages |

How they interact: everything shared is in PostgreSQL at READ COMMITTED.
Six paths write `Wallet.balance`; two of them (`creditWallet`, `debitWallet`)
lock the row with `SELECT ... FOR UPDATE` before they read it, the other four
do not. `processEvent` calls `creditWallet` from inside a transaction that the
call does not join. The jobs are timers in every API process, so several
instances run them on the same rows; and a new instance migrates the database
while older ones serve. Rate limiting and the failure window of
the alerts are in the memory of one process.

What is hard here: the interleaving of those paths; lookups made before a
transaction and trusted inside it; credits and records committed apart;
rollbacks (Prisma gives a transaction up after 2 s without a connection or 5 s
of work), crashes between two statements; providers and clients that send again;
and jobs that decide on rows read long before. `PROJECT.json` lists each as a
hazard, at its line, with the properties that watch it.

## 2. Modules

| Module | Models | Extends |
|---|---|---|
| `WalletService` | `creditWallet`, `debitWallet` as concurrent requests | |
| `AbstractWallet` | what the two promise, as an account with atomic effects | |
| `WalletRefinement` | the mapping of the first onto the second | `WalletService` |
| `WalletServiceProofs` | the theorems about both | |
| `Lists`, `ListLemmas` | filtering and adding up lists, as recursive functions; what these do for lists of every length | |
| `LedgerTotals` | the totals of `WalletLedgerService` | `Lists` |
| `BalanceWriters` | the other four writers beside the first two | `WalletService`, `LedgerTotals` |
| `LedgerAudit` | the audit job and the integrity check of reads | `BalanceWriters` |
| `LedgerAuditProofs` | the theorems about `BalanceWriters` and `LedgerAudit` | |
| `OnRampWebhook`, `OnRampWebhookProofs` | `processEvent` around `creditWallet`, with the connection pool; theorems | `WalletService` |
| `WebhookRetry`, `WebhookRetryProofs` | the retry job, dead letters, administrators; theorems | |
| `WebhookAlerts` | what the monitor of that job reports of its failures (theorems: `WebhookRetryProofs`) | `WebhookRetry`, `Lists` |
| `ProviderReconciliation` | the audit of completed on-ramps and its alerts | |
| `AlertPages`, `AlertPagesProofs` | an administrator who pages through those alerts; theorems about both | `ProviderReconciliation`, `Lists` |
| `RateLimiter` | the guard of the limits and its store | `Lists` |
| `ApiRequests`, `ApiRequestsProofs` | every handler of the API: guards, work, access-log row; theorems | `RateLimiter` |
| `Readiness`, `ReadinessProofs` | containers that migrate, start and answer `GET /ready`; theorems | |
| `MC...` | instances for TLC | the module they are named after |

Some operators are marked "Slip" in the comments. They are not part of any
specification: each is a definition changed the way a plausible mistake would
change it, and is used to see that the properties notice the mistake.

### WalletService

One element of `Requests` is one call. `call` holds its arguments, `pc` how far
it is or its answer:

    new --lookup--> begin --lock--> locked --commit--> committed --> ok
     |                |               |
     ok / rejected    aborted         rejected / conflict / aborted

`CheckIdempotency`, `AnswerDuplicate` and `RejectArguments` are the code before
`$transaction`; `LockWallet` is the `SELECT ... FOR UPDATE`, which waits for
`rowLock` and puts the balance it reads into `seen`; `Refuse` is the owner and
funds test of a debit; `Commit` is the UPDATE, the INSERT and the COMMIT in one
step, because nobody sees a transaction's writes before its commit; `Conflict`
is the unique index on `idempotencyKey`. `Abort` is Prisma giving the
transaction up, `Crash` the death of the process or connection at any point.
`HasFrozenAt` says whether table `Wallet` has the column that `lockWallet`
selects. No migration of the repository creates it: FALSE is the committed
schema, where every call fails at its lock (`LockWalletFails`); run
`WalletSchemaGap` takes it. The other runs take the schema the documents
describe, TRUE. `Created` are the wallets that exist: a call may name another
one, and fails at its lock too.

`RowKey` is where credit and debit part: a debit computes a key for its lookup
and leaves it out of its row.

`LedgerTotals` is the arithmetic of the integrity checks. It goes by the type of an
entry, and the DTO of a credit admits the types of debits. `TypeFits` tells which
calls the totals count on the right side; `BalanceIsLedgerTotal` is about the
wallets whose entries come from such calls. `Lists` holds the two things the code
does with lists whose length matters here, `Filter` and `SumOf`.

### BalanceWriters

`Jobs` run `manualCredit`, `createTransaction`, `replayMissingWebhook` or the
script's `--fix`, statement by statement, among the requests. A transactional
job takes the row with its UPDATE (`TakeRow`) and keeps it until it ends; a
replay or a fix only waits for the row. The insert of a ledger entry needs the
key-share lock of its foreign key, which only `SELECT ... FOR UPDATE` excludes.
A fix reads the wallet and its entries, walks over them (`ChainIntact`,
`FixCompare`) and writes what the walk says after a person has agreed. `stale`
remembers the fixes whose wallet got an entry meanwhile; it guards nothing.

### OnRampWebhook

A delivery is a request of `WalletService`. `opc` is the outer transaction's
progress, `conns` the connections in use: `<<d, "outer">>`, `<<d, "inner">>`.
`Expire` is Prisma's timeout of the outer transaction, which the credit inside
does not notice. Property `Spec` of run `OnRampWebhook`, and theorem
`WebhooksAreRequests` in general, say that the credits made this way are behaviours
of `WalletService`, so that what is proved of it holds here. The mapping is the
identity: the module adds variables and keeps those of `WalletService`.
`PaymentsAssumption` is what a provider guarantees by its ids: two deliveries of one
event id are about one payment, so about one wallet.

### LedgerAudit

`AuditStart` reads the balances of a batch, `AuditQuery` is each of the three
queries per wallet, in any order (`Promise.all`), `AuditFlag` one transaction,
`AuditAlert` the alerts. A batch is any `AuditLimit` wallets, as the query names no
order. Readers are GET requests. `disturbed` remembers which wallets were written
since they were read; it guards nothing. Entries are in commit order; `tied` says
how many of the latest of a wallet share a `createdAt`, any of which a query for
"the latest entry" may return (`LastBalances`).

### WebhookRetry

`Tick` takes a batch of the oldest retryable rows; each instance works through the
batch it has read, one statement at a time (`Retry`, `AddToQueue`,
`MarkDeadLetter`). `StatementFails` is the `catch` of the loop, `Restart` the
process. `RetryRead` and `RetryReset` are the two statements of an administrator's
retry. Rows in status `failed` are given: nothing in the repository writes that
status except that reset. `events` counts restarts, failed statements and requests
of administrators, and is there to bound them (`Eventful`).

### WebhookAlerts

The monitor around that job. The failures of a cycle (`due`) are reported one by
one when it is over: `CountFailure` is `alertWebhookFailure` up to its `await`, with
the list `recent` trimmed to the window, the threshold and the five minutes between
two alerts; `InsertAlert` is the insert of the row in the database, and only when
the instance is told of it, perhaps ticks later, is the time of the alert noted
(`NoteAlert`). `PostFails` is that insert throwing, with the row made or not, which
ends the cycle with failures uncounted; `QueryFails` the query of the batch. Both
leave a `reconciliation_crash` row that nobody waits for (`PostCrash`). A restart at
work or at rest forgets the window, and a row that is awaited (`Forget`). Two things
are bookkeeping and guard nothing but the insert itself: `told` says of a row when
its instance was told of it (`Awaited`, `Lost`, or a time), `unposted` whose last
alert was not made.

### ProviderReconciliation

Each instance has a timer (`due`), which goes off at its time or later and is set
anew from then. `AuditStart` takes the cutoff (`started`), `Fetch` is the one query,
and the instance then works through the rows it returned (`audit`). A row carries
what the fetch saw of its alert (`known`), and `CheckOnRamp` trusts that: when
another instance has raised the alert since, the unique index on `onRampId` ends the
audit (`CheckConflict`). `AuditSkipped` is the test of `running` at a timer that goes
off too early, `AuditFails` a failed statement, `Restart` a new process, whose first
audit is a whole interval away. `Resolve` is `resolveMissingWebhook`, also as the last
step of a replay; the credit of a replay is in `BalanceWriters`. `excused` remembers,
per instance, the on-ramps that were completed when a timer of it was last late by
more than `Late`, an audit of it skipped or broken off; it guards nothing.

A completion carries a stamp up to `CommitDelay` older than the moment from which it
can be seen. `Late` and `CommitDelay` are not limits of the program: the first only
says from when on a timer counts as late, the second how far `Complete` may lag.

`Complete` is external: no code of the repository completes an on-ramp that has
no alert yet. Nor does any code write `WebhookEvent.transactionId`, through
which the audit looks for webhooks, so the model has only the branch the
program can take, "missing webhook".

### AlertPages

`raised` is the list of alerts as it is ordered, `walk` an administrator who reads
it page by page: `Begin`, then `ReadPage` with the limit and offset as the
controller clamps them (`parseLimit`, `parseOffset`) until a page is short.
`Others` is a step of `ProviderReconciliation`, and what it does to the list. `walk`
remembers the rows that were there at the beginning and those that left meanwhile,
only to state the property. Every list of the API is paged by the same two numbers.

### RateLimiter

A clock, the store's list per address, and a history of accepted requests to
compare it with. The guard is global and runs before the guard that
authenticates, so `request.user` is never set and the key is the address.
`EmptyStore` is a restart.

### ApiRequests

One element of `Requests` is one HTTP request. `phase` is where it is:

    new --guards--> working --statements--> (done) --row--> answered
     |                 |
     limited, refused  failed --row--> answered          (died: the process)

A handler is a record: the tier of its limit, its guards in the order Nest runs
them, the roles it asks for, whether it checks its input before or inside its
`try`, the statements of its service (`"read"` stands for a run of reads,
`"change"` for a change of its own or a transaction), and the outcomes it writes an
`AdminAccessLog` row for. All 43 handlers of the admin, auth, on-ramp, profile, transaction
and wallet controllers are there, as constants with the handler's name; `Called` picks those a
run is about. `Arrive` is the guards and the check, `Statement` and
`StatementFails` the work, `AnswerLost` a change that throws although it has
committed, because the acknowledgement of its COMMIT never came; `LogAccess` the row
and the answer, `LogAccessFails` the insert that throws, with the row made or not,
and is swallowed, `Crash` the death of the process with every request it works on
and its list of timestamps. `unlogged` remembers whose row was not made, `unaware`
who lost an acknowledgement; they guard nothing. What a statement does is in the
modules of the services.

### Readiness

The repository does not say in one voice how the backend starts, so a container has
one of the ways (`StartOf`):

* `"migrate"`: `prisma migrate deploy` and then node, as in `railway.json:11`, the
  `Dockerfile:14` of the root and `render.yaml:15`;
* `"bare"`: node alone, as in `railway.toml:9`, `backend/Dockerfile:14`, `Procfile:1`,
  `nixpacks.toml:15` and `npm run start:prod` of `docs/DEPLOYMENT_RAILWAY.md:17`;
* `"push"`: `prisma db push --accept-data-loss`, what `railway.toml:8` runs before a
  deployment; it ends without a server;
* `"by hand"`: `migrate deploy` by an operator after the deployment
  (`docs/DEPLOYMENT_RAILWAY.md:39`), also without a server.

A container that migrates goes

    down --> migrating --> starting --> connecting --> listening

and a bare one begins at `starting` (`BareStart`). `MigrateStart` to `MigrateDone` are
`prisma migrate deploy` (external: advisory lock, a row per migration, refusal while a
row is open or the schema was made without the table), `MigrationBreaks` is the `&&`
after it, `Push` the push, which makes `schema` that of its image and leaves
`_prisma_migrations` alone. `Validate` is the check of the environment, `Connect` and
`ConnectFails` the loop of `connectWithRetry`. A `GET /ready` is the sequence
`CheckDatabase`, `CheckTable`, `CheckRows` of queries, each awaited, and
`CheckRest`, which does not wait. `Recover` is the UPDATE of the repository's two
recovery migrations. `env` is a copy of the platform's variables made when the
container starts.

The text of a secret or safeguard is missing, suspicious (`your_`, `example_`, `test_`,
or too short), the placeholder of `render.yaml`, or good; it may have a date.
`Validate` only warns of the placeholder, `validateSecrets` does not know it, and of
suspicious texts it sees those of four keys (`suspiciousKeys`). Two things are
bookkeeping and guard nothing: `moments` is what there was to see since a GET began,
`takenBack` the migrations a push has undone. `NODE_ENV` is "production"; elsewhere
`/ready` skips what `validateSecrets` and `validateSafeguards` say.

## 3. What TLC checks

The largest runs take one to two and a half minutes, the others seconds. Bounds:

* `WalletService`: two wallets of two users and the id of one that does not
  exist, four requests, nine calls (the same event on two wallets, a zero amount,
  an untrusted admin, a credit with the type of a debit, debits beyond the funds, of
  another user, with and without reference). Two requests show every race of two; four allow a credit, two
  racing debits and a duplicate.
* `WalletSchemaGap`, `WalletDebitRetry`: one wallet and three requests, a credit
  or a debit each.
* `BalanceWriters`, `WritersLostUpdate`: one wallet, because writers only meet on
  one; two requests and two jobs of any kind.
* `OnRampWebhook`: two deliveries of five events (completed, pending, of nothing,
  of a user without wallet, with a wrong secret), and a pool of two connections,
  all of which two deliveries can hold.
* `WebhookRetry`: two rows, two instances, one administrator, limit 2, a batch of
  one row, so that the instances meet on it, and two events (`MaxEvents`): a crash
  between the statements of a dead letter and one more, a reset in the middle of a
  batch, or a resolved item.
* `WebhookAlerts`: three rows, batches of two and one instance, because the window is
  in the memory of one; three events; threshold 2, a window of three ticks, spacing
  of one, three ticks (`MaxTime`), so that failures leave the window and a second
  alert is near enough to be refused or far enough to be sent.
* `LedgerAudit`: two wallets, a request, a job, a reader; a batch of one wallet, so
  that the audit leaves one out.
* `AlertPages`: two on-ramps, two instances; an interval of one tick, timers that
  count as on time and completions that are seen up to one tick late, and a lookback
  of three ticks, the shortest that `FlaggedInTime` promises anything of; four ticks
  (`MaxTime`), so that on-ramps leave the lookback; one restart or failed statement
  (`MaxFaults`); pages of one row where two are asked for. A walk through the pages
  is followed for one tick (`WalkTime`, `WalkBound`), in which alerts are raised and
  resolved as in any other; behaviours without a walk go on to the end.
* `ApiRequests`: three requests, of an administrator, a user and someone without a
  token, from one address; nine handlers, one of each kind
  (`OneOfEachKind`); a window of two ticks, three
  ticks, limits 1 and 2; one crash. Two requests use a limit up, the third meets it.
* `Readiness`: a container that migrates first and one that starts bare, of an image
  with two migrations; a job that pushes and one that migrates by hand, of the image
  before, with one. Two retries; two secrets, of which the start, `/ready` and its
  look at the text insist on one, and one safeguard; a day stands for so many that a
  date of day 0 is too old on day 1 (`MaxDay`). One event (`MaxEvents`): an outage, a
  death, a failing script or a rotation; the database comes back and operators
  recover at any time.

Amounts are small integers in the smallest unit. Requests, jobs and instances
are symmetric where a run declares it, and no run with liveness does.

### Runs that pass

| Run | Question |
|---|---|
| `WalletService` | Do racing credits and debits lose, invent, double or overdraw anything, are answers true, and is every behaviour one of the abstract account? |
| `BalanceWriters` | What survives the writers that do not lock? Non-negative balances, true answers, client keys executed once, no alert closed by a replay without its credit, manual credits that keep balance and ledger in step, and a repair that writes what the totals say unless the ledger moved while it waited. |
| `OnRampWebhook` | Is a payment credited once, and acknowledged only when credited? Do deliveries that exhaust the pool end, and is every request answered? Are their credits those of `WalletService`? |
| `WebhookRetry` | Is a dead letter ever lost, or a limit overrun by more than the racing instances explain? |
| `WebhookAlerts` | Is every failed row dead-lettered, although batches are smaller than the backlog? Does a burst of failures leave an alert, and do alerts keep their distance from those the instance was told of, although both are decided around an `await` that may throw with the row made? |
| `LedgerAudit` | Are the verdicts of the audit and of reads exact for a wallet nobody wrote meanwhile, whichever of two latest entries a query returns? |
| `AlertPages` | Do the windows of successive audits leave a gap, when the lookback allows for what timers and commits lag? Is a resolved alert ever raised again? How many alerts can someone miss who pages through them meanwhile? |
| `ApiRequests` | Does the window slide, does trimming lose anything, are refusals exact? What can be believed of the access log, and does it leave out a change, whatever fails? |
| `Readiness` | Does a container that migrates first run on its schema, although only the order of its start command sees to it, beside containers that start otherwise? Is an answer of `/ready` true of some moment of the request, although its parts are of different ones? Does a start without a database end? |

### Runs that end in a violation

Each states what a document, comment or test of the repository says, and
shows how the code differs; the findings in `PROJECT.json` quote the lines.

| Run | What happens |
|---|---|
| `WalletSchemaGap` | `lockWallet` selects a column no migration creates: no credit lands. |
| `WalletDebitRetry` | A repeated debit is executed again. |
| `WritersLostUpdate` | `createTransaction` overwrites a movement. |

The models show more places where code and documents part. They are visible in
the actions named here and have no run of their own:

* `wallet/dto/credit-wallet.dto.ts:27` lets a credit carry a debit type, after
  which the totals count it on the wrong side. `MCCalls` has such a call, and the
  property leaves its wallet out.
* `wallet/wallet.service.ts:228`: of two concurrent deliveries of one key, the
  second gets the unique index's error instead of the first one's result
  (`Conflict`).
* `transaction/transaction.service.ts:129`: a transaction writes no ledger entry
  (`TransactCommit`), so balance and ledger part at once.
* `admin/admin.service.ts:432`: a manual credit records the `balanceBefore` of an
  unlocked read, and the chain of entries breaks (`ManualCommit`).
* `admin/provider-reconciliation.service.ts:200`: a replay never tests the alert's
  status and carries no key, so two replays credit twice (`ReplayStart`); and
  because of `:65` payments whose webhook did arrive are flagged as well.
* `backend/scripts/reconcile-balance.ts:141`: `--fix` writes the total computed
  before the prompt (`FixWrite`) and undoes what was committed meanwhile; it also
  undoes every `createTransaction`, whose amounts are in no ledger, and entries
  that share a millisecond may come to it in the wrong order.
* `onramp/onramp.service.ts:146`: the credit and the event's row are two commits,
  so a payment can be credited and its event not recorded (`StartCredit`,
  `Expire`).
* `admin/webhook-retry.service.ts:65`: a row that was reset while a batch was held
  is dead-lettered with the old count; `:69`: one retry less than the limit is
  made (`Exhausted`).
* `admin/dead-letter-queue.service.ts:176` archives an item that is not resolved.
* `admin/ledger-integrity.monitor.ts:53`: every audit starts at offset 0 and
  without an order, so wallets beyond a batch may never be audited (`AuditStart`).
* `admin/admin.service.ts:498` and `wallet/wallet.service.ts:426`: balance and
  totals are read at different times, so a consistent wallet may be flagged, or
  its GET fail; the properties hold for wallets nobody writes.
* `common/rate-limit/rate-limit.middleware.ts:83`: the user is never known when
  the guard runs, so users behind one address, and all tiers, share one limit
  (`Accept`); a restart forgets what was used of it (`EmptyStore`); and the tier
  `DEFAULT` (`common/rate-limit/rate-limit.config.ts:49`) is nobody's: handlers
  without a decorator have no limit (`NoTier`).
* `wallet/wallet.controller.ts:34`, `onramp/onramp.controller.ts:44`: `RolesGuard` is
  on the class and so runs before the `JwtAuthGuard` of the handler. A handler with
  `@Roles` finds no user and refuses everybody: crediting and debiting through
  `POST /wallets`, a wallet's ledger and the webhook logs answer 403 to any token
  (`LateJwt`, `RoleKnown`).
* `admin/admin.controller.ts:1257`, `:1449`: the two summaries write no row when they
  fail, where every other handler of the controller does (`getDLQStats`).
* `admin/admin.service.ts:79`: the list of wallets is paged without an order, so its
  pages promise nothing; `AlertPages` is about a list that has one.
* `admin/alerts.service.ts:121`: the window of failures and the time of the last alert
  are in memory, so a restart may hide a burst or repeat an alert (`Forget`).
* `admin/webhook-retry.service.ts:31`: with WEBHOOK_MAX_RETRIES not a number no row is
  ever exhausted. The model takes a number, as `LimitsAssumption` says.
* `admin/provider-reconciliation.monitor.ts:29`, `.service.ts:40`: the lookback equals
  the interval by default, both an hour, but a timer goes off later than it was set to
  and is set from then on, and the cutoff is counted from when it goes off. So the
  windows of successive audits do not touch: an on-ramp that is completed just after
  a query, or stamped before it and committed after it, is in neither. Nothing has to
  fail for this. `FlaggedInTime` therefore has the premise that the lookback exceeds
  the interval by these lags; with `Lookback = Interval` and without the premise TLC
  shows the gap within a few steps. A restart, a skipped audit or a conflict with
  another instance loses on-ramps in the same way, with any lookback that allows only
  for lags; what had been completed by then is in `excused`.
* `admin/admin.controller.ts:1304` and its like: a change whose COMMIT succeeded and
  whose acknowledgement was lost throws, and the request gets a row of status "error",
  and the client an error, about work that was done, a manual credit for instance
  (`AnswerLost`). An error row is not a reason to do it again.
* `admin/alerts.service.ts:120`: an insert that was made and throws leaves a row whose
  time is not noted, so the next failure inserts another at once (`PostFails`).
* `railway.toml:8` against `railway.json:11`: two files of the root that
  `docs/DEPLOYMENT_RAILWAY.md:13` names side by side deploy one service, the one with a
  push and a bare start, the other with migrations. A database that was only pushed
  has no `_prisma_migrations`, so `/ready` answers 503 for good, and `migrate deploy`
  refuses to begin on it (`MigrateStart`, `CheckTable`). A bare container listens
  whatever its database is like (`BareStart`); `RunsOnItsSchema` promises it nothing.
  And where `prisma/database-safety.service.ts:124` forbids `db push` in production it
  looks at a variable, PRISMA_DB_PUSH_ALLOWED, not at whether anybody pushed.
* `config/secrets.service.ts:140`: PLACEHOLDER_UPDATE_IN_RENDER_DASHBOARD, of which
  `config/env-validator.ts:170` warns at the start, is a good secret to `/ready`; the
  texts of the TRANSAK and PAYSTACK secrets are not looked at. And
  `docs/SECRETS_AND_ACCESS_CONTROL.md:265` has `/ready` refuse a privileged database
  user, for which there is a method that nothing calls
  (`config/secrets.service.ts:179`). `WellConfigured` says what is looked at.
* `prisma/database-safety.service.ts:79`: a migration that was given up keeps its
  row with `rolled_back_at`, and counts as pending and as rolled back for ever. So
  after the repository's own recovery (`Recover`) `/ready` answers 503 for good,
  and "Run: npm run migrate:deploy" (`docs/DATABASE_OPERATIONS.md:141`) does not
  help. Nor can the recovery migrations run where they are needed: the row they
  repair makes `migrate deploy` refuse to start.
* `docs/DATABASE_SAFETY.md:21` has `/ready` check for pending migrations; it sees
  only rows of the table, never migrations of the image that have none.
* `config/secrets.service.ts:86`: secrets fail readiness at 60 days, as every
  warning does, where `docs/SECRETS_AND_ACCESS_CONTROL.md:63` says 90; and the
  "rotation warnings" branch of `health/readiness.service.ts:142` is never taken
  (`validateSecrets`).
* `prisma/prisma.service.ts:60`: with DB_CONNECT_RETRIES 0 or not a number the
  loop is skipped, and the application listens without having connected.

`CHECK_DEADLOCK FALSE` is set for four runs, which really stop: the retry job has
nothing to do once no row is retryable (`WebhookRetry`, `WebhookAlerts`), and the
clocks of `AlertPages` and `ApiRequests` stop at their bounds. The audit of
`LedgerAudit` starts again and again. Elsewhere a stuttering action that is enabled
only when everybody has an answer (`Quiescent`, `AllDone`, `Delivered`) keeps
deadlock checking meaningful.

### Fairness

* `FairSpec`: weak fairness of each request's steps (the event loop and the
  database run what can run) and strong fairness of `LockWallet`, because
  PostgreSQL queues the waiters of a row. No fairness of `Abort` and `Crash`.
* `CalmSpec`: the same without any fault, for `WalletSchemaGap`: what fails there
  fails in calm weather.
* `OFairSpec`: in addition strong fairness of the steps that wait for the pool,
  which serves its waiters in order, and weak fairness of `Expire`, a timer.
  The timer is essential: without it deliveries that hold all connections wait
  for ever.
* `AFairSpec`: weak fairness of the monitor of each instance, its timer and what the
  event loop owes it (`MonitorStep`). None of the failures, the restarts and the
  administrators, and none of the clock.
* `RdSpec`: weak fairness of the attempt to connect, a timer. None of the database:
  it may stay away.

## 4. What is proved

Every safety property that a passing run checks is a theorem, for all values of the
constants that satisfy the named assumptions of the modules, and so is the
refinement of the abstract account. `PROJECT.json` lists the theorems. What
follows is the argument of each proof: the invariant, why it has to say more than
the property, and what it assumes.

### WalletServiceProofs

Assumed of the constants: calls are calls, wallets have owners, the null values are
not values.

`LockInv` says that a request at `locked` holds the lock of its
row; two of them cannot hold the same one, so nobody commits to a row between
another's lock and commit and `seen` is the balance (`NoStaleRead`).
`InFlightInv` carries the tests a request has passed into its later steps, and
`EntriesInv` says of every entry that its author is done, and that type, amount
and key are those of its call; from them follow `OnlyPermittedMoves` and, with
`LockedReadIsCurrent`, the chain. `NeverNegative` is inductive with the funds
test on a current balance: without the lock it is not. `KeyUnique` (no two
entries share a key other than NULL) is what the unique index gives; with
`EntriesInv` it yields `CreditedOncePerKey`. The answers need that a request
which has not committed has written nothing (`RecordedInv`).

`BalanceIsTotal`: an entry adds its amount to the totals (`SumAppends`), and a
commit writes the same amount to the balance, because what it read under the lock
is current. The condition on types goes through a step backwards: if all entries
fit after it, all of them fitted before, and the new one does.

`ServiceImplementsAccount` follows the commit: `Commit` is `Apply`, the answers are
`Confirm`, `Fail` and `Vanish`, and every other step stutters; the enabling
conditions of the abstract actions are the invariants above.

### LedgerAuditProofs

About any jobs beside any requests. Assumed: all wallets exist, tasks are tasks, an
on-ramp's amount is not negative (`OnRampAssumption`, from `validateAmount`), and
readers are not wallets.

Of the writers that take no lock before they read:

* `LockedReadsSurviveWriters`. They still wait for the row when they write, and a
  transaction keeps the row from its UPDATE on (`JobsHoldRows`), so what a request
  has read under its lock stays true.
* `WritersFundsNeverNegative`. The balance a job has read may be old, but `FundsInv`
  says that everything anybody may one day write is at least zero: what jobs have
  read or computed, what the entries record, what the funds tests let through.
  Nothing stronger holds of these writes, as run `WritersLostUpdate` shows.
* `JobAnswersAreTrue`, `ReplaysCreditFirst`. `JobRecords` says in which stages a job
  has its record, which is the order of its statements.
* `IncrementsAreSafe`. A manual credit increments in the database, so its unlocked
  read falsifies its entry's `balanceBefore`, not the balance.
* `QuietFixesAreExact`. The script follows `balanceBefore` and `balanceAfter` from
  entry to entry and stops at a gap, the totals add amounts up; `WalkIsTotal`
  shows by induction over the entries that the two agree on every ledger without
  a gap.

`AuditKeepsWriters` carries all of this over to `LedgerAudit`. There, every query that
has been answered for a wallet nobody wrote since has the answer it would have now
(`FreshReading`, `FreshRead`), in whatever order the queries of a batch ran, and
`TiedOK` says that there are at least as many entries as may tie for the latest;
once all are answered, verdict and mismatch are the same arithmetic
(`QuietVerdictsAreExact`, `QuietReadsAreExact`).

### OnRampWebhookProofs

Every step of a delivery is a step of its credit call or
leaves the wallet service alone (`StepsAreRequests`), so `WebhooksAreRequests` holds
and the theorems of `WalletServiceProofs` apply. On top of them: what is recorded or
acknowledged is in the ledger (`OInv`), because a call that returned "ok" has its
entry or met one of its key (`SuccessIsCredited`), and no entry ever goes
(`CreditsStay`). `PaymentsCreditedOnce` needs that the entries of one payment are in
one wallet (`PaymentsAssumption`, for users that have one) and carry one key
(`OneCredit`); for any number of deliveries, connections and crashes.

### WebhookRetryProofs

For any rows, instances, limit and batch size. A row about to
be marked is in the queue (`MarkInv`), hence `DeadLettersNeverLost`. The limit is a
race: an instance that holds a row with a count it read long ago will raise the
counter once more. `BoundInv` bounds the sum of the counter and the number of those
instances (`Raisers`): a retry takes one from the second and adds it to the first,
and a new batch adds an instance only while the counter is two below the limit. It
needs that the rows of a batch are distinct (`DistinctInv`).

`AlertsKeepRetry` shows that the monitor of `WebhookAlerts` leaves all of this as it
is, which gives `DeadLettersKept`. An alert is noted in `lastAlert` only after its
insert, so `AlertsKeepDistance` needs that what is still on its way is far enough
from what is noted, and that no row was told of later than the noted time (`Spaced`).
A row whose acknowledgement was lost is no part of this: it is a second row that the
spacing does not keep away, and the theorem does not say that it does.
For `NoBurstUnnoticed`, `Alerted` says that an instance whose list has reached the
threshold has a row near the end of the list, told of or lost, unless an alert is on
its way or was not made. Trimming the list keeps its last element (`RememberedType`).

### AlertPagesProofs

For any on-ramps, instances, intervals, lookbacks and lags. `NoGapBetweenAudits` has
the premise that the lookback exceeds the interval by the lags, and is about each
instance and the on-ramps completed since it was last late, skipped or broken off. A
timer is never further away than an interval (`TimersInv`); one that is late owes an
audit only to completions stamped within a commit's lag of now (`LateOf`); and an
on-ramp that has no alert, and is not in the hands of the audit, is due for one
within its lookback, lateness included (`CoverOf`). So the audit that starts, however
late, takes its cutoff in time for whatever is still owed. A query that is out has no
rows yet (`OneStage`), so that a fetch drops none. `KnownInv` says that what an audit
has seen of alerts stays true, which is why a resolved one stays resolved.
`WalksOnlyRead` carries both over to `AlertPages`.

`WalksMissLittle` is about the end of a walk, so it needs to know the way: counted
from the newest alert, the positions the walk has passed hold no more unseen alerts
of those it began with than have left the list (`Walking`). An alert that is raised
moves the others back, out of the passed part (`NewestAppends`); one that is resolved
moves at most one into it (`NewestOfFilter`, `NewestOneMore`); and a page shows what
it passes (`PageShape`). That nothing is left behind a short page needs every alert
to be in the list, exactly once (`ListInv`).

### ApiRequestsProofs

For any requests, callers and handlers of `Handlers`. How many
statements a request has behind it follows from its phase (`ProgressInv`), with the
exception of those that lost an acknowledgement (`unaware`), rows are about requests
that have their answer (`RowsInv`), and an administrator's handler
that has an outcome without a row only reads (`AdminRows`, a case distinction over
all of them).

`LimitIsKept` and `NoneDeniedInError` hold because the store's list, which every
request and the clean-up trim, counts the same as the full history for every window
that ends now or later (`StoreInv`). `ConfigAssumption` gives what this needs: the
clean-up keeps records at least as long as a window.

### ReadinessProofs

For any containers, images, secrets, safeguards,
configurations, ways to start and bounds that satisfy the assumptions of `Readiness`:
`ReadinessTypes`, `ServesOnItsSchema` and `AnswersAreExact`. A migration once
applied stays applied (`AppliedStays`), since a closing step only meets the open row,
which is the last, and a recovery only rows that never finished; and what is applied
is in the schema unless a push has taken it back (`SchemaInv`, `SchemaGrows`). So what
`MigrateDone` found when it let a container pass is true as long as it runs, but for
`takenBack`. `ProbeInv` says of each stage of a GET that what it has found was so at
one of the moments of the request: a good history was found with the database up, and
a bad one, or a database that was away, at a moment that is kept (`SeenBy`). That one
moment does for a ready answer needs that a container which is well configured on the
day of the answer was so on every earlier day (`WellConfiguredBefore`).

### ListLemmas: induction over lists

The provers cannot instantiate the library's induction theorems, whose parameter is
an operator. `ListLemmas` states induction with a set in its place:
`Induction` says that a set of naturals with 0 and all successors is `Nat`, from the
least element of its complement (`Least`); `ListInduction` says the same of a set of
lists, the empty one and `Append`; and `Recursion` that a recursive function over
0..N exists. `Filter` and `SumOf` are functions of that kind, so what they do to
`Append` is proved (`FilterAppends`, `SumAppends`), and everything else follows by
`ListInduction`: which elements a filter keeps (`FilterType`, `FilterMisses`), filters
of filters (`FilterTwice`), how lengths add up (`FilterSplits`), and what is
among the last few elements (`Newest...`).

### Only model-checked

`EveryRequestAnswered`, `EveryDeliveryEnds`, `FailedIsDeadLettered` and `ConnectingEnds`,
because liveness needs fairness and `ENABLED`, which are out of the prover's reach.

## 5. What is not modelled, and why

* Floating point. Balances are `Float` columns; the models count in integers.
* Timestamps. The ledger is in commit order; `createdAt` has milliseconds, and the
  models know of it only that latest entries may tie (`LedgerAudit`). Alerts are
  listed in the order they were raised.
* Creation of users and wallets: all exist beforehand, and wallets are never
  deleted. Sign-up and `createWallet` are requests of `ApiRequests` like any other.
* DTOs, parsing, hashing and tokens, except where they decide which calls are
  possible and in which order the guards decide (`ApiRequests`). Acknowledging and
  resolving an `AlertLog` row writes columns nobody reads but the lists.
* `lockWallets`, `lockWalletWithTimeout`, `isWalletLocked`, `alertCreditSpike` and the
  reports of `SecretsService` that nothing calls.
* The `count` beside a page, which the pages do not depend on.
* Logging, metrics, filters, the web pages: output, and no state of the wallet.
* External: PostgreSQL's locks and rollbacks, Prisma's timeouts, the pool's
  queue and the clock are modelled from how the code uses them, and marked so.

## 6. Plan

1. Done: `WalletService` with its proofs and refinement, `BalanceWriters`,
   `OnRampWebhook`, `WebhookRetry`, `ProviderReconciliation` through `AlertPages`,
   `RateLimiter` through `ApiRequests`, `Readiness`, `WebhookAlerts`, `LedgerAudit`, all
   of these with proofs.
2. Next: an abstract specification of the access log, as the sequence of outcomes
   an auditor is promised, and the creation of a wallet by two requests at once.
3. Proofs: done for every safety property of the runs. Next, the specification of 2
   as a refinement, and the types of the modules whose type invariant is part of a
   larger one (`OnRampWebhook`, `LedgerAudit`, `ApiRequests`, `AlertPages`) as theorems
   of their own.
