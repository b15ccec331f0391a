# A verification project for SOLVAREN

SOLVAREN is a control plane for business disbursements over Safaricom M-PESA: officers of three
levels prepare, approve and release payment batches; a Node service executes released batches
through Daraja B2C, takes the provider's callbacks, and reconciles what it does not know. Its
README claims three things everything else serves: no single thing can release money, an unknown
outcome is never resolved by guessing, and no failure is invisible. This directory holds TLA+
modules that model the code behind those claims, TLC runs over small instances, and TLAPS proofs
for every instance. Paths below are relative to the repository.

## 1. Inventory

All state is in PostgreSQL. The service runs in several replicas; every replica serves routes,
polls four queues (payments, callbacks, reconciliation, backups) and ticks a scheduler. What
serialises them is row locks, `pg_try_advisory_xact_lock` (which refuses rather than waits), unique
constraints and triggers.

| Component | State | Operations | Talks to | What is hard | What makes it correct |
|---|---|---|---|---|---|
| Batch lifecycle (`routes/batches.ts`, `core/batch-state.ts`) | `payment_batches`, `payment_instructions`, `approvals`, `batch_editors`, `risk_findings` | create, upload, validate, submit, approve, reject, hold | risk, ceremony | editing, rejecting and approving over many versions | what is released is what was approved, by people who did not prepare it |
| Authorization ceremony (`services/authorization.ts`, `core/manifest.ts`, `core/sod.ts`) | `authorization_challenges` | begin, release, abandon, expire | lifecycle, policy, execution | challenges that expire, are handed over, presented twice; housekeeping without the lock | a release is signed by the officer the challenge was issued to, over the rows it releases |
| Policy and risk (`core/policy.ts`, `core/risk.ts`, `services/risk-service.ts`) | `organization_policies`, `risk_findings`, `daily_disbursement_totals` | assess, persist findings, evaluate | lifecycle, ceremony | totals and assessments read before, used after | limits hold over all batches, findings are reviewed |
| Payment execution (`queues/payment-executor.ts`) | `idempotency_claims`, `transactions`, instruction status | prepare, send, record, roll up | queue, Daraja, reconciliation | a crash between sending and recording; two consumers of one message | one request per instruction, on record before it is sent |
| Job queue (`queue/queue.ts`, `queue/runner.ts`) | `job_queue` | send, claim, settle, recover leases, dead-letter | all consumers | leases that outlast or underlast their worker | every job ends, no live message is lost |
| Callbacks (`routes/callbacks.ts`, `queues/callback-processor.ts`) | `provider_callbacks` | ingest, apply results, timeouts, status answers | execution, reconciliation | late, duplicated, reordered, lost | the ledger says what M-PESA did; a settled outcome is final |
| Reconciliation (`queues/reconciliation-worker.ts`) | `reconciliation_cases` | sweep, query, escalate | Daraja, callbacks | status read before a provider call and written after it | what was paid is recorded in the end |
| Transaction state machine (`core/txn-state.ts`, migration 0003) | - | assert, guard trigger | everything that writes a row | three writers with SQL of their own | only edges of the machine |
| Idempotency (`core/idempotency.ts`) | `idempotency_claims` | decide on an existing claim | execution | claim and row disagreeing | both settle together |
| Daraja client and configuration (`packages/daraja`, `services/daraja-config.ts`, `routes/admin.ts`) | token cache, `daraja_configurations` | authorize, send, query; save, test, enable, rotate | execution, reconciliation | replies that are neither yes nor no; credentials changed under a test | ambiguous is never taken for a refusal |
| Rate limiter (`rate-limiter.ts`) | `rate_limit_buckets` | acquire | execution | a refill computed from the time a transaction began, several replicas | never above rate and burst |
| Audit chain (`db/audit-writer.ts`, `core/audit.ts`, migration 0003) | `audit_events` | append, seal, verify | every writer, restore | concurrent appends, handlers that record after they commit | a chain that verifies, grows only at its end and tells what happened |
| Scheduler (`scheduler.ts`, `index.ts`) | advisory locks, `scheduled_job_runs` | tick, sweep, housekeeping, backup schedules | all of the above | several replicas, a crash after the daily marker | each job runs, once at a time |
| Backup (`queues/backup-worker.ts`, `storage/s3.ts`) | backup rows, objects | export, upload, retire | scheduler, queue | a crash between object and row | a recorded backup is restorable |
| Restore (`scripts/restore-snapshot.mjs`) | triggers, every table | suspend, load, arm | snapshots, audit chain | an interruption with triggers suspended | exit code 0 means whole and protected |
| Deployment (`scripts/migrate.mjs`, `server.ts`) | `schema_migrations` | migrate, verify, serve, shut down | scheduler | two deploys at once, a death half-way | the schema is what its table says |
| Sessions (`services/auth.ts`, `routes/auth.ts`, `middleware/security.ts`) | sessions, sign-in challenges | sign in, step up, revoke | every route | challenges used twice | one use per challenge |
| Access control (`core/rbac.ts`) | static table | permissions by level | every route | a permission and an edge's level that disagree | who may move a batch, and along which edge |
| CSV ingest, money, MSISDN, export (`core/csv.ts`, `money.ts`, `msisdn.ts`, `export-csv.ts`) | a file and its rows | tokenize, validate, find duplicates | lifecycle | quoting, separators and formats that interact | what is paid is what the file says |
| Failure reasons, explorer, AI text, dashboard, web console | - | lookup, read-only views | - | - | tested as functions; not modelled |

Hazards, each at its source line with the properties that would catch it, are in `PROJECT.json`.

## 2. Modules

| Module | Models |
|---|---|
| `TxnState` | `txn-state.ts` and the ledger trigger: edges and guards, no variables |
| `Execution` | one released batch: queue, executor, callbacks, roll-up, reconciliation, with M-PESA as environment |
| `Payout` | abstract: commit, request once, decide, record what was decided. `Execution` implements it |
| `Settlement` | abstract: one batch released, begun, paid, rolled up. `Execution` and `BatchLifecycle` implement it |
| `ExecutionProofs`, `ExecutionRefinement` | theorems about `Execution` |
| `MCExecution` | `Execution` for TLC, with symmetry |
| `Authority` | `rbac.ts` and the edges of `batch-state.ts`: permissions, `assertTransition`, no variables |
| `BatchLifecycle` | batches from draft to release: routes, ceremony, housekeeping |
| `FourEyes` | abstract: prepare, approve, withdraw, release. `BatchLifecycle` implements it |
| `LifecycleProofs` | theorems about `BatchLifecycle` |
| `MCBatchLifecycle` | `BatchLifecycle` for TLC |
| `Backup` | the backup schedule, requests and settings, the backups queue, upload and retention |
| `Archive` | abstract: backups recorded, dropped beyond the limit, marked when dropped. `Backup` implements it |
| `BackupProofs` | theorems about `Backup` |
| `MCBackup` | `Backup` for TLC, with symmetry |
| `AuditChain` | appends to the audit log: the writer, the trigger, the transaction around both, verification |
| `Restore` | `AuditChain` across a lost database: snapshot, `restore-snapshot.mjs`, going live again |
| `AuditLog` | abstract: a log that grows at its end, or goes back to its last snapshot. `Restore` implements it |
| `AuditProofs` | theorems about `Restore`, and through it about `AuditChain` |
| `MCRestore` | `Restore` for TLC |
| `RateLimiter` | the token bucket |
| `DarajaConfig` | integrations: store, rows and the requests of administrators |
| `Gateway` | both, with the executors that take a permit and load credentials |
| `GatewayProofs` | theorems about `Gateway` |
| `MCGateway` | `Gateway` for TLC, with symmetry |
| `Money` | amounts and phone numbers, as operators |
| `CsvIngest` | an uploaded file, character by character and row by row |
| `MCCsvIngest` | its headers and lines for TLC |
| `CsvProofs` | theorems about the rows of `CsvIngest` |
| `Deployment` | migrators, the start and end of replicas, the scheduler's locks |
| `DeploymentProofs` | theorems about `Deployment` |

### 2.1 Execution

`Init` is the state `releaseBatch` commits: the batch QUEUED and, per instruction, a CLAIMED claim
and a payments job. `batch`, `instr`, `claim`, `txn`, `job`, `rcase`, `tries` and `enabled` are
columns; an instruction has at most one claim, one transaction and one payments job, so these are
functions of the instruction. `pc` and `on` say where a consumer is in `executeInstruction`; `cb`
where a provider delivery is between ingest and roll-up; `sweep` where the reconciliation worker is;
`lock` and `verdict` are the batch advisory lock and what its holder read. `provider`, `asked` are
M-PESA; `requests` and `contra` are history, `faults`, `throttles`, `toggles` budgets.

A step is one database transaction or one provider call, as the code commits them:

| Code | Actions |
|---|---|
| `claimBatch`, `settleBatch`, `recoverExpiredLeases` | `ClaimJob`, `SettleJob`, `RecoverLease` |
| `executeInstruction`, `prepareSubmission` | `Throttle`, `PrepareSubmission`, `SkipSubmission`, `SkipDisabled`, `LoadClientFails`, `SendPayment`, `RecordAck`, `RecordRejection` |
| `markForReconciliation` | `MarkForReconciliation` |
| `maybeSettleBatch` | `WorkerTakesLock`, `WorkerFindsLockBusy`, `WorkerSettlesBatch`, and the same of callbacks |
| `ingest`, `handleCallbackBatch` | `StoreCallback`, `EnqueueCallback`, `CallbackNeverApplied`, `CallbackHandledAgain` |
| `applyB2cResult`, `applyTransactionStatus` | `ApplyB2cResult`, `ApplyTransactionStatus` |
| `sweep`, `reconcileTransaction`, `queryTransactionStatus`, `escalate` | `SweepSelects`, `SweepOpensCase`, `ReconcileSelects`, `AskStatus`, `QueryFails`, `QueryUnavailable`, `RecordQuery`, `MarkReconciling`, `Escalate` |
| process death, aborted transaction | `WorkerCrash`, `UnclassifiedError`, `CallbackDiesBeforeRollUp`, `SweepDies` |

Abstractions: a consumer holds one message (a batch of ten is ten consumers in turn; that it makes
leases run out under a live worker is a fault of `RecoverLease`); each provider delivery has its own
callback consumer; one reconciliation pass at a time per instruction; time is abstract, so a lease,
a stale row or a delayed job may be due at any moment; `RESULT_OK` carries a receipt and a queue
timeout never reports success, which the parser enforces; the executor's delayed reconciliation job
is `ReconcileSelects`; the advisory lock on an instruction is not contended between prepared
callers. Fingerprints, receipts and amounts are not told apart.

### 2.2 Batch lifecycle

Each route takes the batch advisory lock and the batch row `FOR UPDATE` in one transaction, so it is
one action, and a refusal is no step. L2_REVIEW and AUTHORIZED are passed through inside one
transaction and never stored. `chal` is the challenge table; `approval` the latest APPROVE row, with
the approved contents kept as history; `cooling` says whether the cooling-off period still runs;
`signals` is what an assessment would find now and may change at any time before release, because it
depends on other batches and on the clock.

`runHousekeeping` takes no batch lock and commits its statements apart: `HousekeepingAbandons`
closes the stale challenges and remembers their batches in `reopening`; `HousekeepingReopens` then
returns those still AUTHORIZATION_PENDING to L3_READY; any route may run between them, and
`HousekeepingDies` there.

`Authority` is the matrix of permissions and the table of edges, and `AssertTransition` the function
that puts them together; every command of a batch asks it, `Create` and `Upload` ask `Holds` alone. It
asks for the permission of an edge and not for its level, so L2 rejects and holds at L3_READY. A
manifest is a batch with its version, approval and instructions: `BuildChallenge` computes it when a
ceremony opens, a release compares the whole of it with the one in the challenge.

Abstractions: instructions are one value of `Payloads` per batch; the ceiling is counted in batches
and for one day; the security key, the PIN, step-up freshness and acknowledgement texts only refuse,
so they are left out; `Conflicts` says which officer declared a conflict with whom a set of
instructions pays, and is fixed, because no route writes it; what execution makes of a released batch
is `Execute`, `PaymentSucceeds` and `Settle`, the interface to `Execution`.

The two modules meet in `Settlement`: a batch is released to QUEUED, begun by the first prepared
instruction, paid while it runs or after its timeout, and rolled up once, FAILED only if no row says
SUCCESS. `Execution`, where the batch has rows and no officers, and each batch of `BatchLifecycle`,
where execution is three actions, implement it; so what the lifecycle counts towards the ceiling is
what an execution can record, and when.

### 2.3 Backup

`config`, `attempt` and `job` are the rows of `backup_configurations`, `backup_attempts` and the
backups queue; `stored` says whose object is in storage. An attempt is its reference: a request
brings its own, so a redelivery meets it again; a scheduled message gets a new one at each delivery.
`clock` orders `started_at`, which a consumer takes before it inserts its row, so attempts need not
succeed in the order they started. `pc` is the place in `runBackup` and, from `surplus` on, in
`enforceRetention`, whose selection is `picked` and whose remaining work is `todo`.

| Code | Actions |
|---|---|
| `routes/admin.ts` | `ConfigureTarget`, `SetSchedule`, `RequestBackup` |
| `runBackupSchedules` under `runLocked` | `SelectDue`, `RecordMissed`, `SendScheduled`, `AdvanceWindow`, `SchedulerStops` |
| `runBackup`, `recordFailure` | `ReadConfig`, `Refuse`, `InsertAttempt`, `Upload`, `Commit`, `FailAttempt` |
| `enforceRetention` | `SelectSurplus`, `DeleteObject`, `DeleteFails`, `MarkRetired`, `MarkFails`, `RecordRetention` |
| the handler's catch, the queue | `StatementFails`, `Ack`, `Crash`, `Claim`, `LeaseExpires` |

Where a statement fails decides who catches it: before the attempt row the handler does and
acknowledges; after it `runBackup` does and writes FAILED; in retention it also tries to write FAILED,
over a SUCCESS, which the trigger refuses together with its whole transaction. Storage may fail at
any call, and a failing put may still leave the object. `TestConnection` is external: no code sets
`last_test_ok` of a backup target, and without it no schedule can be enabled. The message type
ENFORCE_RETENTION has no sender and the branch for a missing target no way in; both are left out.

`Archive` is what remains of this without consumers, deliveries, storage calls and settings: attempts
recorded as successful whose object can be restored (`held`), those beyond some retention count, which
may be dropped, and those marked as no longer restorable, which only dropped ones are. An object that
was put and whose attempt was not recorded is in storage and not in the archive.

### 2.4 Audit chain and restore

`events` and `changed` are the committed rows of the log and of the business tables. A request is a
handler that records one event: those of `Together` do it in the transaction of their change, those of
`After` commit the change first (the routes that call `inTransaction` a second time), those of `Denied`
record a refusal and then throw, which takes the record with it. `tail` is what `writeAuditEvent` read;
`holder` is the transaction that has the advisory lock of `seal_audit_event`.

`Restore` puts `AuditChain` into a world where the database is lost: `view` is the REPEATABLE READ
transaction of `buildLogicalSnapshot`, `snapshot` its result; `phase`, `off`, `at` and `toLoad` are the
script, from the first suspended trigger to the last one armed. SIGINT, a refused row, SIGKILL and a
trigger that cannot be armed are faults. The handler of SIGINT arms the triggers while the load goes on
beside it until `process.exit`: `loop` is where that load is, and once `audit_events_seal` (the trigger at
place `Sealing`) is armed it lets through only the row that follows the last.

| Code | Actions |
|---|---|
| `inTransaction`, `writeAuditEvent`, `seal_audit_event` | `Begin`, `ReadTail`, `Insert`, `LoseRace`, `Commit`, `Refuse`, `Fail`, `Retry` |
| `POST /admin/audit/verify` | the operators `Slice`, `StartHash`, `VerifyChain`, in `ChainVerifies` |
| `buildLogicalSnapshot` | `ReadLedger`, `ReadEvents` |
| `restore-snapshot.mjs` | `StartRestore`, `Suspend`, `StopSuspending`, `LoadPeople`, `RefuseCodes`, `LoadLedger`, `LoadRow`, `LoadEnds`, `LoadStops`, `Interrupt`, `InterruptedLoadEnds`, `Arm`, `Killed` |

Abstractions: the digest is a record of what it covers, so distinct inputs have distinct digests; one
organization; a snapshot is read in two steps, ledger and log. The runbook is the operator: no
application is connected before exit code 0 (`GoLive`), and a restore that failed is run again.

### 2.5 The way to Daraja

`RateLimiter` counts the bucket in units, with `Permit` of them in one permit, because a refill may be
a fraction of one. `began` is `now()` of a transaction, which is when it began and not when it got the
row: `Settle` may write a `last_refill_at` earlier than the one it found, and `rewound` adds up by how
much. `DarajaConfig` has the object store and the rows apart, as the code has: a rotation overwrites
each secret in place (`PutSecret`, in any order) and then resets the row (`Upsert`), and may die in
between. A set of credentials is the number of the rotation that brought it; consumer key and secret are
one field, because Daraja refuses halves of two pairs exactly as it refuses a wrong pair. `Gateway` adds
the executor: `Acquire`, `LoadRow`, `NotConfigured`, `ReadSecret`, `Finish`. `torn` and `calm` mark what a
rotation disturbed; the code does nothing about it, and the properties except it.

### 2.6 Files of payments

`Files` is what an author may upload: header, lines, separator, line end, whether cells are quoted when
they must be, always, or as SOLVAREN's own export writes them. `FileText` writes it down; `ReadText`
is the loop of `parseCsvGrid`, one branch per disjunct; `MapColumns`, `ValidateRow` and `Report` are
`parsePaymentCsv`. `Meant` is what the author meant, and the properties compare the two. The only
abstraction of text is that "KES", "254" and the nine digits of a subscriber are one character each.

### 2.7 Deployment and scheduler

`schema` is what was executed, in order; `table` says whether `schema_migrations` is there, and `recorded`
what it says. `runner` is a run of `migrate.mjs` between the creation of that table, its first read, the
lock, the second read and the migrations, each in one transaction with its row. `CREATE TABLE IF NOT
EXISTS` is run before the lock, and is two steps where the table is not found: `MissTable` and
`CreateTable`, which fails ("collided", exit code 1) when another migrator has created it in between. A
migrator whose connection breaks between two statements gets another from the driver and goes on without
the lock (`LoseMigrationLock`); `strays` remembers it. `replica`, `chain` and `step` are a process of `server.ts` and its promise
chain of scheduled jobs; `jobLock` the session locks of `runLocked`, held by a reserved connection that
`Sever` breaks while the job goes on; `clock`, `claimed` and `ranOn` the daily window and its marker.
Migrations are their numbers; only one that was applied is ever edited.

| Code | Actions |
|---|---|
| `migrate` | `MissTable`, `CreateTable`, `ReadApplied`, `LockMigrations`, `Reread`, `Apply`, `MigratorFails`, `LoseMigrationLock` |
| `verifyDatabase`, `main`, `shutdown` | `Serve`, `Stop`, `Stopped`, `Die` |
| `startScheduler`, `runLocked`, `dailyWindowHasNotRunToday` | `Tick`, `RunLocked`, `ReadClock`, `ClaimDay`, `JobEnds`, `Sever` |

## 3. Runs

Bounds are CONSTANTS, named in the modules; deadlock is not checked, because a batch that settled or
was held, and a bound that is reached, really stop the system.

| Run | Instance | Asks |
|---|---|---|
| `exec_redelivery` | 1 instruction, 2 consumers, 2 attempts, the sweep, 2 faults, 1 throttle, 1 switch of the integration | Do lease expiry, crash and redelivery ever cause a second request, a lost one, an unknown outcome nobody pursues? Is every step one of `Payout`, in which a request is on record before it is sent? |
| `exec_batch` | 2 instructions, 1 consumer, unreadable replies, 1 fault | Is a written batch verdict true of all rows? Is the life of the batch that of `Settlement`? |
| `exec_late` | 1 instruction, every kind of delivery, the delayed reconciliation job | Do row, claim and case ever say what M-PESA did not do, in whatever order results, timeouts and status answers come? Is a settled row final? |
| `exec_live` | no result callback at all, 1 fault | Is a made payment recorded in the end, does every job end? |
| `life_ceremony` | 1 batch, officers 1/1/2 of which one L3 is in conflict with one of 2 payloads, 3 versions, 2 approvals, 2 ceremonies, 1 housekeeping crash | Is what is released what was approved and signed, by unrelated people? Does an abandoned ceremony let go? |
| `backup_retention` | 1 request, 1 scheduled message, 2 consumers, 2 attempts, retention 1 or 2, suspension after 2 failures, 1 change of the settings, 2 faults | Does retention ever reach a backup it must keep, or say what is not so? Is a window of the schedule passed over, an attempt left open without a fault? Is every step one of `Archive`? |
| `audit_chain` | 3 requests, one of each kind, 2 deliveries, 2 faults, 2 triggers, 1 lost database | Does the log verify, grow only at its end and agree with the business tables, also after a restore? Is a restore that reports success whole and protected? |
| `daraja_gateway` | 2 executors, a burst of one permit at half a permit per second, 2 integrations, 2 administrators, 2 rotations, 1 that dies | Is the rate kept? Does a payment use the credentials that were tested? |
| `csv_upload` | every file of at most 2 lines out of 12, 3 headers, 2 separators, every quoting and line end | Is the grid what was written, a payment what was meant, a duplicate found? |
| `deployment` | 2 deploys of 2 migrations, one of which may have an edited file, over every stage of the schema and with no `schema_migrations` at all, 2 replicas, 2 jobs, 2 days, 1 fault | Is the schema what its table says, do migrators race only for the table, does a replica serve on all of it, does each job run in one place and again and again? |

Why the bounds suffice: a second request needs a second consumer or a redelivery, and two
attempts allow a redelivery after a crash or a lease expiry, while the other consumer still holds the first. The roll-up compares rows of different
status, so two instructions show every verdict. A late or duplicated delivery needs one repetition.
In the lifecycle two approvals and two challenges let each be stale while another is current; three
versions let an officer edit one version, another be approved, rejected and replaced. One batch
suffices for everything but the ceiling, because no other property relates two batches; two L3 officers,
because a ceremony may be handed over and one of them is in conflict with one payload and free to release
the other. One L2 officer approves as often as it takes; a second could do no more. For backups
a request and a scheduled message delivered twice make three attempts, so with a retention count of 1
a run has two objects to delete and can fail at one of them; suspension after five failures is scaled
to two. `MaxFirings` = 1 leaves no second window; the proof of `NoWindowLost` has no such bound.

In the audit chain three requests make every order of reading the tail, waiting and committing, and one
of them may fail and be delivered again; two triggers let a script stop between them. One tick of the
bucket's clock lets an executor wait through it, and makes a refill of less than a permit; the theorems
have no bound. Two rotations, a test and an enabling are enough for credentials to be tested that are no
longer there. The twelve lines of `MCCsvIngest` each have something of their own: separators of thousands,
quotes, line ends and separators in a cell, formula characters, amounts at and beyond the limits, and
names, numbers and amounts that are missing or wrong; two lines are enough for a duplicate and for a
cell that runs into the next. Two migrations, one of them not looked for by `verifyDatabase`, let a
migrator stop half-way; two jobs, one daily, put one behind the other in a chain.

Two more runs state what a comment of the repository says and TLC refutes. They are modelled as the code
is:

| Run | Statement | What happens |
|---|---|---|
| `find_rollup` | "once every instruction has reached a terminal state" (`payment-executor.ts:553`) | the last roll-up meets a busy lock and its retry returns at `processed_at` |
| `find_amount` | "Rejects anything else outright" (`money.ts:24`) | in a file separated by semicolons an unquoted `15,000` is cut at the comma and accepted as KES 15 |

Met in reading, without a run of their own. Most are modelled as the code is, so that the properties hold
in spite of them or name them as an exception.

Execution:
- an unreadable 2xx reply is no ambiguous code (`client.ts:235-259`), so the payment is FAILED although
  M-PESA makes it (`payment-executor.ts:194` says no money moved); `FailedIsUnpaid` is checked with
  readable replies for that reason, and the theorem assumes them;
- a result that contradicts a settled outcome opens no case when the reference was used before
  (`callback-processor.ts:162,180-193`);
- a batch in TIMEOUT is never rolled up again (`payment-executor.ts:589`; `docs/runbooks/payment-stuck.md:42`
  expects it);
- a local refusal uses up an attempt (`payment-executor.ts:67` says it does not); an instruction met by a
  disabled integration is acknowledged and leaves no row (`:51` says the failure is recorded);
- an escalated transaction gets a new case and is queried again (`reconciliation-worker.ts:20`); a query
  and its undecided answer each count as an attempt (`:162,263`); the sweep loads client, row and
  credentials one after another (`:176-201`).

Lifecycle:
- housekeeping returns a batch to L3_READY under a ceremony begun between its two statements
  (`index.ts:223`; `batch-state.ts:8-10` says `assertTransition` is the only way);
- the daily ceiling counts what is paid, not what is in flight (`authorization.ts:443`, `policy.ts:30`);
- the record of a refused PIN is rolled back with the refusal (`authorization.ts:337-358`);
- HELD has no way back (`batches.ts:553`); the policy subtracts dispositioned findings from signals
  assessed anew (`policy.ts:109`).

Backup and restore:
- a consumer that dies after inserting its attempt leaves it STARTED for ever
  (`docs/specification-coverage.md` has every attempt end); a failing statement before that leaves a
  handled message without any attempt (`backup-worker.ts:86`, against its comment);
- the surplus is deleted newest first (`backup-worker.ts:303`; `:281` says oldest first); a first backup,
  with nothing to retire, shows `retention_complete` false; a successful request sets
  `last_scheduled_run_at` to null; no code performs the connection test a schedule needs;
- the hashes of recovery codes are left out of a snapshot (`backup-worker.ts:70`) and NOT NULL in the
  table (`0001_foundation.sql:215`), so the restore of an organization that has any always stops there
  (`restore-snapshot.mjs:4` promises a usable one);
- an error or SIGINT while triggers are being suspended leaves those already suspended off
  (`restore-snapshot.mjs:205,247-256`): only a later run that ends with code 0 arms them;
- after SIGINT the load goes on while the handler arms the triggers (`restore-snapshot.mjs:230-235,258-279`),
  so rows may still be loaded past those that are armed already; the exit code is 130, and such a database
  does not go live (`RestoredIsWhole`).

Audit chain: handlers of `After` commit their change and record it next, so a crash between the two leaves
a change that the log does not tell (`audit-writer.ts:6-7,41`).

The way to Daraja:
- an executor that waited for the bucket writes `now()`, the time it began, and sets `last_refill_at` back
  (`rate-limiter.ts:93-97`), so the same interval is refilled twice;
- a rotation puts its secrets before it resets the row (`daraja-config.ts:226-263`): one that dies between
  leaves the integration ENABLED on secrets nobody tested; a slow test of the old credentials marks the
  new ones as tested (`admin.ts:171-180`); the test shows Daraja the consumer key and secret, and not the
  security credential that payments use;
- two integrations enabled at the same time may both be ENABLED (`admin.ts:232-237`); payments prefer
  production;
- every payment has a client of its own, so the collapsing of token requests (`client.ts:94-96`) never
  has two to collapse.

Files:
- `lineNumber` counts the rows that are kept, not lines of the file (`csv.ts:43,223`); an unterminated quote
  takes the rest of the file into one cell; text after a closing quote is appended to the cell;
- the first column with one of the names wins where a file has two; a quoted `1500,00` is read as
  KES 150,000; the total an upload answers with includes rows that are refused after it because their
  recipient is inactive (`batches.ts:160-168,225-233`);
- an export does not quote `;` or a tab, and its lines of provenance must be removed before it is uploaded
  again.

Deployment:
- `schema_migrations` is created outside the advisory lock (`migrate.mjs:83-89,141`). On a fresh database two
  migrators may both find it missing and both create it, and PostgreSQL refuses one of them, which exits
  with code 1 although nothing is wrong with it: `docs/deployment.md:98` says that replicas released
  together do not race. `RacesAtTheTableOnly` says how far that is true: this is the only place, but for
  the next one, and never all of them fail there;
- the lock belongs to a session, and the driver replaces a session without a word: a migrator that lost its
  connection between two migrations goes on without the lock, and may then make another one fail, or fail
  because of it. The schema stays what its table says (`SchemaIsRecorded` has no exception for it);
- after the lock only names are compared (`migrate.mjs:145-149`): a migration that two images have with
  different text is run from the one that came first, and the other deploy reports success;
- `verifyDatabase` looks for nine tables and one trigger; that these imply all migrations is
  `ServesOnWholeSchema`, and it holds because the last migration makes one of them;
- the daily marker is committed before its job runs (`scheduler.ts:178`), so a crash in between skips the
  day; a lost reserved connection frees the lock while the job it stood for goes on, which
  `EachRunsOnce` excepts; an image that lacks migrations that were applied is accepted.

## 4. Fairness

`Execution`'s `Fairness` is what the loops of `queue/runner.ts` and the scheduler give: a live
consumer finishes what it holds (weak fairness of `WorkerProgress`, `CallbackProgress`), the lease of
a dead one runs out (`LeaseRunsOut`), the sweep runs again and again (`SweepProgress`), and M-PESA
decides a request it took in. Nothing is assumed of the delivery of results, of crashes, switches or
throttling. Strong fairness of `AskStatus` says that a query which fails over and over is taken once
in the end; without it an unreachable provider keeps every outcome unknown for ever. `BatchLifecycle`
assumes that time passes and that housekeeping runs: officers owe nothing. `CeremonyEnds` excepts
runs in which housekeeping died between its statements, for then nobody but an officer frees the
batch.

`Restore` assumes that a request in flight goes on while the application is connected, and that the
operator sees a restore through; `InFlightEnds` then says that no lock of the chain is left behind.
`Deployment` assumes weak fairness of what a replica does with the head of its chain, and strong fairness
of the timers of all jobs but the daily one. A timer is `setInterval`, which fires for ever while the
process serves, and the chain it appends to is unbounded; in the model the chain is bounded by `MaxChain`,
so that a timer is disabled whenever the other jobs fill it, and strong fairness says that the bound never
keeps a timer out for good. Clock, deploys and faults owe nothing.

## 5. Proofs

The theorems hold for every number of instructions, consumers, batches and officers and for every
bound, from the named assumptions on the constants alone (`ExecutionAssumption`, `LifecycleAssumption`,
`BackupAssumption`, `AuditAssumption` with `RestoreAssumption`, `LimiterAssumption` with `ConfigAssumption`,
`DeploymentAssumption`).

`ExecutionProofs` rests on one inductive invariant in layers. `TypeOK` comes first. `KnownInv`: claim
and row say the same thing, and a consumer past `prepareSubmission` finds both written. `CallInv`: at
most one consumer is past it and the request count is zero until it sends. Neither the property
`AtMostOneRequest` nor `OneCaller` is inductive alone: a second consumer is kept out because the row
exists, and that it exists is `KnownInv`. `TruthInv`: what a row, a delivery or a consumer's program
counter says, `provider` did. `EdgesOnly` needs the statuses a row ever reaches (`RowInv`).
On these stand three more. `VerdictInv` says of the batch and of what a roll-up has read alike that it is
true of all rows: it stays true because settled rows are final and no row goes away, and for no other
reason, since the lock does not keep callbacks out. `CaseInv` needs that a used reference belongs to a
case that is there. `AckInv` needs both: a message is acknowledged because its consumer wrote a row, or
because it found the claim taken, or the batch past execution, and each of these means a row.
Proved: types (`TypeCorrect`), `SingleCaller`, `NeverPaidTwice`, `RecordedFirst`,
`ClaimMirrorsLedger`, `NoFalseSuccess`, `NoFalseFailure` (with readable replies), `RollUpIsTrue`,
`UnknownIsFollowed`, `CasesTellTheTruth`, `NothingIsDropped`, `EdgesOnly`: every safety property of the
execution runs.

`ExecutionRefinement` proves that `Execution`, with readable replies, implements `Payout`: the intent
is the claim, the record the settled status of the row. Every action is a step of `Payout` or a
stutter, by the same invariant. `ExecutionImplementsSettlement` needs no readable replies: that a
row becomes SUCCESS only while the batch runs, or after its timeout, is `PaidWhileRunning`, and that the
roll-up says FAILED only of a batch in which no row says SUCCESS is `VerdictInv`, since the rows may have
changed since they were read. `RecordedFirst` is of a property that no run lists: a step that broke it
would be no step of `Payout`.

`LifecycleProofs` has three layers. `TypeOK`; `DecisionInv`: what a batch that awaits release, or is
released, says of its officers, its approval and its findings, and that the releaser is None until the
one step that names him; `CeremonyInv`: a burnt challenge belongs to a released batch, a live one of a
*pending* batch names the approval that stands. The restriction to pending batches is essential:
housekeeping can leave a live challenge under L3_READY, its batch can then be
rejected and approved anew, and only the index on open challenges, which refuses a new ceremony, keeps
the stale one from being released. From these follow `DutiesSeparated`, `NoEditAfterApproval`,
`NoUnreviewedFinding`, `SignedOnce` and `NoConflictedRelease`: every safety property of the lifecycle
run. The matrix and the edges enter through eight lemmas (`ValidateEdge` to `AuthorizeEdge`), one per
command: from which states, and at which level, `assertTransition` lets it pass. `DutiesSeparated` says
therefore also that a submitter is of L1, an approver of L2 and a releaser of L3; that no officer has two
levels is an assumption no proof needed, since the four are told apart by the code's own comparisons.
`StoredMovesAreEdges` says that every change of a stored state, housekeeping's included, is an edge of
`batch-state.ts` or two that meet in a state that is never stored. `LifecycleImplementsFourEyes`: hands are
editors and creator, an approval stands while the batch is approved, a released batch has its releaser.
`LifecycleImplementsSettlement` is stated of each batch, for any number of them; being a formula with a
parameter it is proved and in no cfg.

`BackupProofs` rests on `TypeOK`, `OwnInv` (no two consumers run one attempt, because the second to
insert its reference finds it taken; what is about to be recorded as a success is in storage) and
`RetainInv`: whatever a retention run picked, deleted or retired is *covered*, that is, has as many newer
successful attempts as some retention count. Covered attempts stay covered, because successes are only
added and `started_at` never changes (`RowsKept`), and that is the whole reason why a selection may
be stale when it is used. The run's invariant speaks of the newest attempts only and is not inductive:
it says nothing of what a consumer has selected and not yet deleted. From the layers follow
`NewestKept`, `RetiredGone`, `CompletionTrue` and `OutcomeFinal`; `WindowsKept` has a small invariant of
its own. `FaultsAbandon` is a count: an attempt at STARTED that no consumer works at was left by one that
died or failed to write its failure, each of these is a fault, and no fault leaves two. `ArchiveImplemented`
takes the layers together: a `Commit` is a `Record` because its object is in storage (`OwnInv`), a
`DeleteObject` is a `Drop` because what was picked is covered (`RetainInv`), a `MarkRetired` is a `Mark`
because what a run has deleted nobody puts again. `RetiredGone` and `OutcomeFinal` are consequences, and the
run checks them through `ImplementsArchive`.

`AuditProofs` works with the set of rows as a chain (`Linked`): every row but the first has its predecessor
among them, and sequences are distinct. What a request read is a place of that chain, and it is the last
one for the request that holds the lock; the digest comparison of the trigger makes it so, and `Row` then
adds a link. That every slice verifies follows from `Linked` alone. For the restore the invariant says
what part of the snapshot is loaded at each place of the script, and that a snapshot is itself sound.
`LogRefines` proves `LogIsAppendOnly`, that `Restore` implements `AuditLog`. A log is there a sequence, and
here a set of rows that are numbered; `Counted` rows, whose numbers are 1 to their cardinality, are one, and
`LogInv` carries that, with one row per request, through what is live, what the snapshot's transaction sees
and what the snapshot holds, each part of the one before. A part of a log that is
itself counted is its beginning (`OrderedPart`), the row after the end makes it longer by one request
(`OrderedAppend`), and what goes live again is the snapshot because the script's invariant says so.

`GatewayProofs` proves the bound of the bucket with `rewound` as the slack, for every rate, burst and price
of a permit; and that store, row, test and load agree in an environment that is not `torn`: a rotation that
met nothing is alone there, and what it has put is its own.

`DeploymentProofs` has two halves that meet only in `Serve`. `TodoCovers`: what a migrator means to apply
has everything that is not recorded, with the lock or without it, so what it takes next is recorded (and
then it fails) or is the next one; hence `SchemaIsRecorded`, and `ServesOnWholeSchema` because a schema that
has the last migration has them all. `LockIsOwned`: while nobody has lost the lock, its holder has nothing
else to apply, from the second read on, and cannot fail for that. `RacesConfined` proves
`RacesAtTheTableOnly`: the migrators that failed are a finite set no larger than the faults that are gone
(`FailuresCounted`), and once the table is there somebody has made it and gone on (`TableIsMade`), unless
it was there before, when nobody collides. For the scheduler: who
is past `runLocked` and has its connection has the lock; and `kept` is 1 exactly for the days in `ranOn`.

`CsvProofs` is about the rows, for every text. `Answers` says which rows have been looked at, those from 2
to `next`, and what became of each; from it follow `EveryRowIsAnswered`, `OnlyPaymentsAccepted` (nothing is
accepted that `money.ts` and `msisdn.ts` did not take) and `WarningsAreOfDuplicates`, which needs that
lines are distinct: two rows that agree make a set of at least two.

Only model-checked, and why: `PaidIsRecorded`, `JobsFinish`, `CeremonyEnds`, `InFlightEnds` and
`JobsKeepRunning` are liveness under fairness, which is beyond TLAPS; `GridIsAsWritten`, `AnswersAreTrue`
and `DuplicatesAreFound` compare the rows with what an author meant, which is induction over the text, and
the total is a fold over the rows. Every other property of a run is proved.

## 6. Plan

The order was by what can cost money: execution with reconciliation, the lifecycle with the ceremony,
backups; then the audit chain with restore, the way to Daraja, files of payments, deployment and
scheduler. Worth doing next:

1. A queue of its own: claims in batches, backoff and the draining of a shutdown, with `Execution`'s
   consumers as its clients.
2. Sign-in challenges and sessions, as a module that the ceremony's freshness check could be composed
   with.

## Not modelled

Sessions and sign-in: a session only ever refuses an action of the other modules, and none of their
properties counts on it. Failure reasons, dashboard, explorer and assistant routes and the web console:
lookup tables, read-only queries and views; they keep no state another process could disturb, and tests
reach them better. The token cache, the wire formats of Daraja and of storage, encryption and signatures:
their content is not what the properties tell apart. Per component, what is left out is in the notes of
`PROJECT.json`.
