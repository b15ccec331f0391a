----------------------------- MODULE Deployment -----------------------------
(***************************************************************************)
(* A release: scripts/migrate.mjs brings the schema up to date, replicas   *)
(* of server.ts prove the database and serve, and scheduler.ts runs each   *)
(* job in one replica at a time, behind a session advisory lock.           *)
(*                                                                         *)
(* Migrations are numbered in the order of their names.  A session lock is *)
(* free when its connection is gone, whatever became of its owner.         *)
(***************************************************************************)
EXTENDS Integers, FiniteSets, Sequences, FiniteSetsExt

CONSTANTS
  Deploys,      \* runs of migrate.mjs
  Edited,       \* those whose image may have an edited file
  Migrations,   \* how many files an image has: 8
  Proven,       \* the migrations of the tables and the trigger verifyDatabase looks for
  Replicas,
  Jobs,         \* of LOCK_KEYS
  Daily,        \* "housekeeping"
  LastDay,      \* days of the clock
  MaxChain,     \* ticks waiting in a replica
  MaxFaults,    \* processes that die, connections and statements that fail
  None

Names == 1..Migrations

ASSUME DeploymentAssumption ==
  /\ Migrations \in Nat \ {0}
  /\ Proven \subseteq Names /\ Migrations \in Proven   \* job_queue, in 0008
  /\ Edited \subseteq Deploys /\ Daily \in Jobs
  /\ LastDay \in Nat /\ MaxChain \in Nat \ {0} /\ MaxFaults \in Nat
  /\ None \notin Deploys \cup Replicas

VARIABLES
  files,      \* the text of the migrations in each deploy's image
  schema,     \* what was executed and committed, in order
  table,      \* schema_migrations is there
  recorded,   \* its rows: name -> checksum
  runner,     \* each migrator's place, and what it read
  migrating,  \* who has MIGRATION_LOCK_KEY
  strays,     \* who lost it with its connection, and went on (history)
  replica,    \* "down", "serving", "stopping"
  chain,      \* ticks that wait for `active`, the one being run first
  step,       \* of the job being run
  severed,    \* the reserved connection was lost
  jobLock,    \* who has the lock of each job
  clock,      \* UTC day, and whether it is past 02:00
  claimed,    \* the date a daily job read
  ranOn,      \* scheduled_job_runs
  kept,       \* how often the daily job was begun for each day (history)
  faults      \* left

migration == <<files, schema, table, recorded, runner, migrating, strays>>
scheduler == <<replica, chain, step, severed, jobLock, clock, claimed, ranOn, kept>>
vars      == <<migration, scheduler, faults>>

Image == {"as released", "edited"}

\* Where a migrator may be, and where it has ended.
Busy  == {"released", "creating", "reading", "waiting", "locked", "applying"}
Ended == {"migrated", "refused", "collided", "failed"}

\* Only a migration that has been applied is ever edited here.  The table may be
\* there without a row: --status, or a migrator that failed, leaves it so.
Init ==
  /\ files \in [Deploys -> [Names -> Image]]
  /\ \A d \in Deploys, n \in Names : d \notin Edited \/ n # 1 => files[d][n] = "as released"
  /\ \E applied \in 0..Migrations :
       /\ recorded = [n \in 1..applied |-> "as released"]
       /\ applied = 0 => \A d \in Deploys : files[d][1] = "as released"
       /\ table \in IF applied = 0 THEN BOOLEAN ELSE {TRUE}
  /\ schema = [n \in DOMAIN recorded |-> <<n, recorded[n]>>]
  /\ runner = [d \in Deploys |-> [at |-> "released", todo |-> {}]]
  /\ migrating = None /\ strays = {}
  /\ replica = [r \in Replicas |-> "down"]
  /\ chain = [r \in Replicas |-> <<>>]
  /\ step = [r \in Replicas |-> "none"]
  /\ severed = [r \in Replicas |-> FALSE]
  /\ jobLock = [j \in Jobs |-> None]
  /\ clock = [day |-> 0, open |-> FALSE]
  /\ claimed = [r \in Replicas |-> 0]
  /\ ranOn = {} /\ kept = [day \in 0..LastDay |-> 0]
  /\ faults = MaxFaults

-----------------------------------------------------------------------------
(* migrate.mjs                                                             *)

\* process.exit or the end of the script: the connection closes, the lock is free.
Exit(d, how) ==
  /\ runner' = [runner EXCEPT ![d] = [at |-> how, todo |-> {}]]
  /\ migrating' = IF migrating = d THEN None ELSE migrating

\* CREATE TABLE IF NOT EXISTS, without the lock: the name is not found ...
MissTable(d) ==
  /\ runner[d].at = "released" /\ ~table
  /\ runner' = [runner EXCEPT ![d].at = "creating"]
  /\ UNCHANGED <<files, schema, table, recorded, migrating, strays, scheduler, faults>>

\* ... and the table is created, which fails if another has done so since.
CreateTable(d) ==
  /\ runner[d].at = "creating"
  /\ IF table THEN Exit(d, "collided") /\ UNCHANGED table
     ELSE /\ table' = TRUE
          /\ runner' = [runner EXCEPT ![d].at = "reading"] /\ UNCHANGED migrating
  /\ UNCHANGED <<files, schema, recorded, strays, scheduler, faults>>

\* schema_migrations, found or made, is read, drift is refused, and what is pending is noted.
ReadApplied(d) ==
  LET drifted == {n \in DOMAIN recorded : recorded[n] # files[d][n]}
      pending == Names \ DOMAIN recorded
  IN  /\ runner[d].at = "reading" \/ (runner[d].at = "released" /\ table)
      /\ CASE drifted # {} -> Exit(d, "refused")
           [] drifted = {} /\ pending = {} -> Exit(d, "migrated")
           [] OTHER -> /\ runner' = [runner EXCEPT ![d] = [at |-> "waiting", todo |-> pending]]
                       /\ UNCHANGED migrating
      /\ UNCHANGED <<files, schema, table, recorded, strays, scheduler, faults>>

LockMigrations(d) ==
  /\ runner[d].at = "waiting" /\ migrating = None
  /\ migrating' = d
  /\ runner' = [runner EXCEPT ![d].at = "locked"]
  /\ UNCHANGED <<files, schema, table, recorded, strays, scheduler, faults>>

\* Mutant: what was pending before the wait is applied.
RereadNothing(d) ==
  /\ runner[d].at = "locked"
  /\ runner' = [runner EXCEPT ![d].at = "applying"]
  /\ UNCHANGED <<files, schema, table, recorded, migrating, strays, scheduler, faults>>

\* Another deploy may have applied some of it, or all.
Reread(d) ==
  LET todo == runner[d].todo \ DOMAIN recorded
  IN  /\ runner[d].at = "locked"
      /\ IF todo = {} THEN Exit(d, "migrated")
         ELSE runner' = [runner EXCEPT ![d] = [at |-> "applying", todo |-> todo]] /\ UNCHANGED migrating
      /\ UNCHANGED <<files, schema, table, recorded, strays, scheduler, faults>>

\* schema_migrations with the row of n.
WithRow(n, text) == [k \in DOMAIN recorded \cup {n} |-> IF k = n THEN text ELSE recorded[k]]

\* The tables are there already, or the name is.
Applied(n) == n \in DOMAIN recorded \/ \E k \in DOMAIN schema : schema[k][1] = n

\* Mutant: the row is written after the transaction of its migration.
ApplyThenRecord(d) ==
  LET n == Min(runner[d].todo)
  IN  /\ runner[d].at = "applying"
      /\ schema' = Append(schema, <<n, files[d][n]>>)
      /\ \/ /\ recorded' = WithRow(n, files[d][n])
            /\ IF runner[d].todo = {n} THEN Exit(d, "migrated")
               ELSE runner' = [runner EXCEPT ![d].todo = @ \ {n}] /\ UNCHANGED migrating
            /\ UNCHANGED faults
         \/ /\ faults > 0 /\ faults' = faults - 1
            /\ Exit(d, "failed") /\ UNCHANGED recorded
      /\ UNCHANGED <<files, table, strays, scheduler>>

\* Mutant: the files are taken in the order of the directory.
ApplyUnsorted(d) ==
  \E n \in runner[d].todo :
      /\ runner[d].at = "applying"
      /\ schema' = Append(schema, <<n, files[d][n]>>)
      /\ recorded' = WithRow(n, files[d][n])
      /\ IF runner[d].todo = {n} THEN Exit(d, "migrated")
         ELSE runner' = [runner EXCEPT ![d].todo = @ \ {n}] /\ UNCHANGED migrating
      /\ UNCHANGED <<files, table, strays, scheduler, faults>>

\* The next migration and its row, in one transaction.
Apply(d) ==
  LET n == Min(runner[d].todo)
  IN  /\ runner[d].at = "applying"
      /\ IF Applied(n) THEN Exit(d, "failed") /\ UNCHANGED <<schema, recorded>>
         ELSE /\ schema' = Append(schema, <<n, files[d][n]>>)
              /\ recorded' = WithRow(n, files[d][n])
              /\ IF runner[d].todo = {n} THEN Exit(d, "migrated")
                 ELSE runner' = [runner EXCEPT ![d].todo = @ \ {n}] /\ UNCHANGED migrating
      /\ UNCHANGED <<files, table, strays, scheduler, faults>>

\* The migrator dies, or a statement of it fails: its transaction is rolled back.
MigratorFails(d) ==
  /\ faults > 0 /\ faults' = faults - 1
  /\ runner[d].at \in Busy
  /\ Exit(d, "failed")
  /\ UNCHANGED <<files, schema, table, recorded, strays, scheduler>>

\* The connection breaks between two statements.  The driver opens another for the
\* next one, and the lock stays behind, free.
LoseMigrationLock(d) ==
  /\ faults > 0 /\ faults' = faults - 1
  /\ migrating = d
  /\ migrating' = None
  /\ strays' = strays \cup {d}
  /\ UNCHANGED <<files, schema, table, recorded, runner, scheduler>>

Migrate(d) ==
  \/ MissTable(d) \/ CreateTable(d) \/ ReadApplied(d)
  \/ LockMigrations(d) \/ Reread(d) \/ Apply(d)

-----------------------------------------------------------------------------
(* server.ts                                                               *)

\* main: verifyDatabase, then the workers, the scheduler and the port.  A replica
\* that finds something missing exits, and is tried again.
Serve(r) ==
  /\ replica[r] = "down"
  /\ Proven \subseteq DOMAIN recorded
  /\ replica' = [replica EXCEPT ![r] = "serving"]
  /\ UNCHANGED <<migration, chain, step, severed, jobLock, clock, claimed, ranOn, kept, faults>>

\* shutdown: no more ticks; what the chain holds is waited for.
Stop(r) ==
  /\ replica[r] = "serving"
  /\ replica' = [replica EXCEPT ![r] = "stopping"]
  /\ UNCHANGED <<migration, chain, step, severed, jobLock, clock, claimed, ranOn, kept, faults>>

Stopped(r) ==
  /\ replica[r] = "stopping" /\ chain[r] = <<>>
  /\ replica' = [replica EXCEPT ![r] = "down"]
  /\ UNCHANGED <<migration, chain, step, severed, jobLock, clock, claimed, ranOn, kept, faults>>

Without(r) == [j \in Jobs |-> IF jobLock[j] = r THEN None ELSE jobLock[j]]

\* The process dies, or passes the deadline of its shutdown.
Die(r) ==
  /\ faults > 0 /\ faults' = faults - 1
  /\ replica[r] # "down"
  /\ replica' = [replica EXCEPT ![r] = "down"]
  /\ chain' = [chain EXCEPT ![r] = <<>>]
  /\ step' = [step EXCEPT ![r] = "none"]
  /\ severed' = [severed EXCEPT ![r] = FALSE]
  /\ claimed' = [claimed EXCEPT ![r] = 0]
  /\ jobLock' = Without(r)
  /\ UNCHANGED <<migration, clock, ranOn, kept>>

-----------------------------------------------------------------------------
(* scheduler.ts                                                            *)

\* A timer: the job is put at the end of the promise chain.
Tick(r, job) ==
  /\ replica[r] = "serving" /\ Len(chain[r]) < MaxChain
  /\ chain' = [chain EXCEPT ![r] = Append(@, job)]
  /\ UNCHANGED <<migration, replica, step, severed, jobLock, clock, claimed, ranOn, kept, faults>>

\* runLocked returns: the lock is released in a finally, and so is the connection.
Return(r) ==
  /\ chain' = [chain EXCEPT ![r] = Tail(@)]
  /\ step' = [step EXCEPT ![r] = "none"]
  /\ claimed' = [claimed EXCEPT ![r] = 0]
  /\ severed' = [severed EXCEPT ![r] = FALSE]
  /\ jobLock' = Without(r)

\* pg_try_advisory_lock: who does not get it returns.
RunLocked(r) ==
  /\ chain[r] # <<>> /\ step[r] = "none"
  /\ IF jobLock[Head(chain[r])] # None THEN Return(r)
     ELSE /\ jobLock' = [jobLock EXCEPT ![Head(chain[r])] = r]
          /\ step' = [step EXCEPT ![r] = IF Head(chain[r]) = Daily THEN "gate" ELSE "running"]
          /\ UNCHANGED <<chain, severed, claimed>>
  /\ UNCHANGED <<migration, replica, clock, ranOn, kept, faults>>

\* dailyWindowHasNotRunToday reads the clock ...
ReadClock(r) ==
  /\ step[r] = "gate"
  /\ IF ~clock.open THEN Return(r)
     ELSE /\ claimed' = [claimed EXCEPT ![r] = clock.day]
          /\ step' = [step EXCEPT ![r] = "claiming"]
          /\ UNCHANGED <<chain, severed, jobLock>>
  /\ UNCHANGED <<migration, replica, clock, ranOn, kept, faults>>

\* Mutant: the day is marked by what it finds there, and not by what it inserts.
ClaimAnyDay(r) ==
  /\ step[r] = "claiming" /\ ~severed[r]
  /\ ranOn' = ranOn \cup {claimed[r]}
  /\ kept' = [kept EXCEPT ![claimed[r]] = @ + 1]
  /\ step' = [step EXCEPT ![r] = "running"]
  /\ UNCHANGED <<migration, replica, chain, severed, jobLock, clock, claimed, faults>>

\* ... and inserts the day's row, unless it is there.
ClaimDay(r) ==
  /\ step[r] = "claiming" /\ ~severed[r]
  /\ IF claimed[r] \in ranOn THEN Return(r) /\ UNCHANGED <<ranOn, kept>>
     ELSE /\ ranOn' = ranOn \cup {claimed[r]}
          /\ kept' = [kept EXCEPT ![claimed[r]] = @ + 1]
          /\ step' = [step EXCEPT ![r] = "running"]
          /\ UNCHANGED <<chain, severed, jobLock, claimed>>
  /\ UNCHANGED <<migration, replica, clock, faults>>

\* Mutant: the lock is left to the end of the process.
JobLeaves(r) ==
  /\ step[r] = "running" \/ (step[r] = "claiming" /\ severed[r])
  /\ chain' = [chain EXCEPT ![r] = Tail(@)]
  /\ step' = [step EXCEPT ![r] = "none"]
  /\ severed' = [severed EXCEPT ![r] = FALSE]
  /\ UNCHANGED <<migration, replica, jobLock, clock, claimed, ranOn, kept, faults>>

\* The job is done or has thrown; a claim without its connection throws.
JobEnds(r) ==
  /\ step[r] = "running" \/ (step[r] = "claiming" /\ severed[r])
  /\ Return(r)
  /\ UNCHANGED <<migration, replica, clock, ranOn, kept, faults>>

\* The reserved connection breaks; the job has its own, and goes on.
Sever(r) ==
  /\ faults > 0 /\ faults' = faults - 1
  /\ step[r] # "none" /\ ~severed[r]
  /\ severed' = [severed EXCEPT ![r] = TRUE]
  /\ jobLock' = Without(r)
  /\ UNCHANGED <<migration, replica, chain, step, clock, claimed, ranOn, kept>>

ClockMoves ==
  /\ \/ ~clock.open /\ clock' = [clock EXCEPT !.open = TRUE]
     \/ clock.open /\ clock.day < LastDay /\ clock' = [day |-> clock.day + 1, open |-> FALSE]
  /\ UNCHANGED <<migration, replica, chain, step, severed, jobLock, claimed, ranOn, kept, faults>>

Work(r) == RunLocked(r) \/ ReadClock(r) \/ ClaimDay(r) \/ JobEnds(r)

Next ==
  \/ \E d \in Deploys : Migrate(d) \/ MigratorFails(d) \/ LoseMigrationLock(d)
  \/ \E r \in Replicas :
       \/ Serve(r) \/ Stop(r) \/ Stopped(r) \/ Die(r)
       \/ \E job \in Jobs : Tick(r, job)
       \/ Work(r) \/ Sever(r)
  \/ ClockMoves

Spec == Init /\ [][Next]_vars

\* A chain is as long as it must be in the code: MaxChain must not keep a timer out for ever.
Fairness ==
  \A r \in Replicas : WF_vars(Work(r)) /\ \A job \in Jobs \ {Daily} : SF_vars(Tick(r, job))

FairSpec == Spec /\ Fairness

-----------------------------------------------------------------------------
DeploymentTypeOK ==
  /\ files \in [Deploys -> [Names -> Image]]
  /\ schema \in Seq(Names \X Image)
  /\ DOMAIN recorded \subseteq Names /\ \A n \in DOMAIN recorded : recorded[n] \in Image
  /\ table \in BOOLEAN
  /\ runner \in [Deploys -> [at : Busy \cup Ended, todo : SUBSET Names]]
  /\ migrating \in Deploys \cup {None} /\ strays \subseteq Deploys
  /\ replica \in [Replicas -> {"down", "serving", "stopping"}]
  /\ chain \in [Replicas -> Seq(Jobs)]
  /\ step \in [Replicas -> {"none", "gate", "claiming", "running"}]
  /\ severed \in [Replicas -> BOOLEAN]
  /\ jobLock \in [Jobs -> Replicas \cup {None}]
  /\ clock \in [day : 0..LastDay, open : BOOLEAN]
  /\ claimed \in [Replicas -> 0..LastDay]
  /\ ranOn \subseteq 0..LastDay /\ kept \in [0..LastDay -> Nat]
  /\ faults \in 0..MaxFaults

(* "Each migration runs at most once, recorded in schema_migrations.  Each *)
(* runs inside a transaction" (migrate.mjs:9): what was executed is the    *)
(* first migrations, once each and in order, and the table says so, with   *)
(* the text that was executed, whoever raced, failed or died.              *)
SchemaIsRecorded ==
  /\ DOMAIN recorded = DOMAIN schema
  /\ \A k \in DOMAIN schema : schema[k] = <<k, recorded[k]>>

(* "two replicas released together do not race"                            *)
(* (docs/deployment.md:98).  Behind the lock they do not: while no         *)
(* migrator has lost it with its connection, one fails only of a fault of  *)
(* its own, never because of another.  In front of it they do: on a fresh  *)
(* database two may both miss schema_migrations and both create it         *)
(* (migrate.mjs:83), and one exits 1 for it.  But never all of them do:    *)
(* where one has collided, another made the table and went on.             *)
RacesAtTheTableOnly ==
  /\ strays = {} => Cardinality({d \in Deploys : runner[d].at = "failed"}) <= MaxFaults - faults
  /\ (\E d \in Deploys : runner[d].at = "collided") =>
       \E d \in Deploys : runner[d].at \notin {"released", "creating", "collided"}

(* "Refuse to serve traffic against a database that is unreachable or not  *)
(* migrated" (server.ts:66): verifyDatabase looks for nine tables and one  *)
(* trigger, and a replica that serves has every migration all the same,    *)
(* also while a deploy is under way.                                       *)
ServesOnWholeSchema ==
  \A r \in Replicas : replica[r] # "down" => DOMAIN recorded = Names

Runs(r, job) == step[r] = "running" /\ Head(chain[r]) = job

(* "whichever replica gets the lock runs the job, the others return        *)
(* immediately" (scheduler.ts:18) and "only a persisted marker stops a     *)
(* replica that restarted at 02:05 running it again" (scheduler.ts:170):   *)
(* no two replicas run the same job, but when one of them has lost the     *)
(* connection that its lock was on, and even then, and whatever died, was  *)
(* released or ran past midnight, the daily job is run once a day.         *)
EachRunsOnce ==
  /\ \A job \in Jobs : \A r, s \in Replicas :
       Runs(r, job) /\ Runs(s, job) /\ ~severed[r] /\ ~severed[s] => r = s
  /\ \A day \in 0..LastDay : kept[day] <= 1

(* "released in a finally so a thrown job does not hold it until the       *)
(* process exits" (scheduler.ts:120), and "a replica that dies mid-job     *)
(* releases the lock": while a replica serves, every job but the daily one *)
(* is run again and again, there or elsewhere.                             *)
JobsKeepRunning ==
  (\E r \in Replicas : <>[](replica[r] = "serving")) =>
    \A job \in Jobs \ {Daily} : []<>(\E r \in Replicas : Runs(r, job))
=============================================================================
