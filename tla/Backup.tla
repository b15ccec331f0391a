------------------------------- MODULE Backup -------------------------------
(***************************************************************************)
(* Backups of one organization: the schedule (apps/api/src/index.ts run    *)
(* under the advisory lock of scheduler.ts), the requests and settings of  *)
(* routes/admin.ts, and the backups queue with its consumer                *)
(* (queues/backup-worker.ts), which uploads a snapshot, records it and     *)
(* then retires the objects beyond the retention count.                    *)
(*                                                                         *)
(* Each statement or database transaction and each call to object storage  *)
(* is one step.  The content of a snapshot and the columns only shown to   *)
(* an administrator (status, messages, last_scheduled_run_at) are left     *)
(* out.  A target exists from the start: no route removes one.             *)
(***************************************************************************)
EXTENDS Naturals, FiniteSets

CONSTANTS
  Workers,      \* backup consumers, one message in hand at a time
  Manual,       \* on-demand requests: each carries its attempt reference
  None,         \* no message in hand
  Retentions,   \* values of retention_max_count an administrator may set
  MaxFirings,   \* bound on scheduled messages
  MaxAttempts,  \* QUEUE_POLICIES.backups.maxAttempts
  MaxFailures,  \* consecutive failures that suspend the target
  MaxEdits,     \* bound on changes of the settings
  MaxFaults     \* bound on crashes, failing statements and slow workers

Firings == 1..MaxFirings
Jobs    == Manual \cup Firings

\* (organization_id, attempt_reference): fixed by a request, fresh at each delivery otherwise.
Refs == (Manual \X {0}) \cup (Firings \X (1..MaxAttempts))

ASSUME BackupAssumption ==
  /\ None \notin Refs
  /\ IsFiniteSet(Manual) /\ Manual \cap Firings = {}
  /\ Retentions # {} /\ Retentions \subseteq Nat \ {0}
  /\ MaxFirings \in Nat /\ MaxAttempts \in Nat \ {0} /\ MaxFailures \in Nat \ {0}
  /\ MaxEdits \in Nat /\ MaxFaults \in Nat

VARIABLES
  config,    \* the backup_configurations row
  next,      \* next_scheduled_run_at, relative to now
  window,    \* which window that is
  missed,    \* windows with a MISSED attempt
  sched,     \* progress of runBackupSchedules
  job,       \* job_queue rows of the backups queue
  attempt,   \* backup_attempts
  stored,    \* attempts whose object is in storage
  clock,     \* orders the started_at of the attempts
  pc, on,    \* per worker: where it is in runBackup, and its attempt
  at,        \* its startedAt
  picked,    \* the surplus enforceRetention selected
  todo,      \* what of it is not handled yet
  hand,      \* the attempt whose object it has just deleted
  dirty,     \* did one of its deletions fail?
  edits, faults   \* what is used of each budget

schedule  == <<next, window, missed, sched>>
retention == <<picked, todo, hand, dirty>>
local     == <<pc, on, at, retention>>
vars      == <<config, schedule, job, attempt, stored, clock, local, edits, faults>>

Configs == [tested : BOOLEAN, enabled : BOOLEAN, keep : Retentions,
            failures : Nat, suspended : BOOLEAN]
JobRows == [status : {"NONE", "PENDING", "IN_FLIGHT", "SUCCEEDED", "DEAD_LETTERED"},
            attempts : 0..MaxAttempts, window : Nat]
Rows    == [status : {"NONE", "STARTED", "SUCCESS", "FAILED"}, at : Nat,
            retired : BOOLEAN, complete : BOOLEAN]

\* Labels of runBackup once its attempt row exists, and of enforceRetention in it.
Retaining == {"surplus", "delete", "mark"}
Running   == {"upload", "commit", "failed"} \cup Retaining

TypeOK ==
  /\ config \in Configs
  /\ next \in {"NULL", "LATER", "DUE", "OVERDUE"} /\ window \in Nat /\ missed \subseteq Nat
  /\ sched \in {"idle", "late", "due", "sent"}
  /\ job \in [Jobs -> JobRows]
  /\ \A j \in Jobs : job[j].status \in {"NONE", "PENDING"} => job[j].attempts < MaxAttempts
  /\ attempt \in [Refs -> Rows] /\ stored \subseteq Refs /\ clock \in Nat
  /\ pc \in [Workers -> {"idle", "read", "refuse", "insert", "ack"} \cup Running]
  /\ on \in [Workers -> Refs \cup {None}] /\ at \in [Workers -> Nat]
  /\ \A w \in Workers : pc[w] = "idle" <=> on[w] = None
  /\ picked \in [Workers -> SUBSET Refs] /\ todo \in [Workers -> SUBSET Refs]
  /\ \A w \in Workers : todo[w] \subseteq picked[w]
  /\ hand \in [Workers -> Refs \cup {None}]
  /\ \A w \in Workers : pc[w] = "mark" => hand[w] \in todo[w]
  /\ dirty \in [Workers -> BOOLEAN]
  /\ edits \in 0..MaxEdits /\ faults \in 0..MaxFaults

\* A target just configured, for the first time or again after its schedule has run before.
Init ==
  /\ \E k \in Retentions :
       config = [tested |-> FALSE, enabled |-> FALSE, keep |-> k,
                 failures |-> 0, suspended |-> FALSE]
  /\ next \in {"NULL", "LATER"} /\ window = 0 /\ missed = {} /\ sched = "idle"
  /\ job = [j \in Jobs |-> [status |-> "NONE", attempts |-> 0, window |-> 0]]
  /\ attempt = [r \in Refs |->
       [status |-> "NONE", at |-> 0, retired |-> FALSE, complete |-> FALSE]]
  /\ stored = {} /\ clock = 0
  /\ pc = [w \in Workers |-> "idle"] /\ on = [w \in Workers |-> None]
  /\ at = [w \in Workers |-> 0]
  /\ picked = [w \in Workers |-> {}] /\ todo = [w \in Workers |-> {}]
  /\ hand = [w \in Workers |-> None] /\ dirty = [w \in Workers |-> FALSE]
  /\ edits = 0 /\ faults = 0

Succeeded == {r \in Refs : attempt[r].status = "SUCCESS"}
Live      == {r \in Succeeded : ~attempt[r].retired}
Newer(S, r) == {s \in S : attempt[s].at > attempt[r].at}

UseFault == faults < MaxFaults /\ faults' = faults + 1
Goto(w, label) == pc' = [pc EXCEPT ![w] = label]

-----------------------------------------------------------------------------
(* The settings and the on-demand request of routes/admin.ts.              *)

UseEdit == edits < MaxEdits /\ edits' = edits + 1

\* POST /admin/backups/target over an existing row.
ConfigureTarget(k) ==
  /\ UseEdit
  /\ config' = [tested |-> FALSE, enabled |-> FALSE, keep |-> k,
                failures |-> 0, suspended |-> FALSE]
  /\ UNCHANGED <<schedule, job, attempt, stored, clock, local, faults>>

\* No code sets last_test_ok of a backup target; an operator does it in the database.
TestConnection ==
  /\ ~config.tested
  /\ config' = [config EXCEPT !.tested = TRUE]
  /\ UNCHANGED <<schedule, job, attempt, stored, clock, local, edits, faults>>

SetSchedule(enabled, k) ==
  /\ enabled => config.tested
  /\ UseEdit
  /\ config' = [config EXCEPT !.enabled = enabled, !.keep = k]
  /\ UNCHANGED <<schedule, job, attempt, stored, clock, local, faults>>

RequestBackup(m) ==
  /\ job[m].status = "NONE"
  /\ job' = [job EXCEPT ![m].status = "PENDING"]
  /\ UNCHANGED <<config, schedule, attempt, stored, clock, local, edits, faults>>

-----------------------------------------------------------------------------
(* runBackupSchedules: select, record the miss, send, advance the window.  *)

\* The bound on scheduled messages; without one left the window stands still.
MayFire == \E n \in Firings : job[n].status = "NONE"

TimePasses ==
  /\ MayFire
  /\ next \in {"LATER", "DUE"}
  /\ next' = IF next = "LATER" THEN "DUE" ELSE "OVERDUE"
  /\ UNCHANGED <<config, window, missed, sched, job, attempt, stored, clock, local, edits, faults>>

SelectDue ==
  /\ sched = "idle"
  /\ config.enabled /\ ~config.suspended /\ next # "LATER"
  /\ MayFire
  /\ sched' = IF next = "OVERDUE" THEN "late" ELSE "due"
  /\ UNCHANGED <<config, next, window, missed, job, attempt, stored, clock, local, edits, faults>>

RecordMissed ==
  /\ sched = "late"
  /\ missed' = missed \cup {window}
  /\ sched' = "due"
  /\ UNCHANGED <<config, next, window, job, attempt, stored, clock, local, edits, faults>>

SendScheduled ==
  /\ sched = "due"
  /\ \E n \in Firings :
       /\ job[n].status = "NONE" /\ \A k \in 1..(n - 1) : job[k].status # "NONE"
       /\ job' = [job EXCEPT ![n].status = "PENDING", ![n].window = window]
  /\ sched' = "sent"
  /\ UNCHANGED <<config, next, window, missed, attempt, stored, clock, local, edits, faults>>

\* Mutant: the window is advanced before the message is sent.
AdvanceFirst ==
  /\ sched = "due"
  /\ next' = "LATER" /\ window' = window + 1
  /\ sched' = "idle"
  /\ UNCHANGED <<config, missed, job, attempt, stored, clock, local, edits, faults>>

AdvanceWindow ==
  /\ sched = "sent"
  /\ next' = "LATER" /\ window' = window + 1
  /\ sched' = "idle"
  /\ UNCHANGED <<config, missed, job, attempt, stored, clock, local, edits, faults>>

\* A crash or a failing statement ends the run; the next tick starts over.
SchedulerStops ==
  /\ sched # "idle"
  /\ UseFault
  /\ sched' = "idle"
  /\ UNCHANGED <<config, next, window, missed, job, attempt, stored, clock, local, edits>>

-----------------------------------------------------------------------------
(* The backups queue.                                                      *)

Claim(w, j) ==
  /\ pc[w] = "idle"
  /\ job[j].status = "PENDING"
  /\ job' = [job EXCEPT ![j].status = "IN_FLIGHT", ![j].attempts = @ + 1]
  /\ on' = [on EXCEPT ![w] = IF j \in Manual THEN <<j, 0>> ELSE <<j, job[j].attempts + 1>>]
  /\ Goto(w, "read")
  /\ UNCHANGED <<config, schedule, attempt, stored, clock, at, retention, edits, faults>>

Release(w) ==
  /\ Goto(w, "idle")
  /\ on' = [on EXCEPT ![w] = None] /\ at' = [at EXCEPT ![w] = 0]
  /\ picked' = [picked EXCEPT ![w] = {}] /\ todo' = [todo EXCEPT ![w] = {}]
  /\ hand' = [hand EXCEPT ![w] = None] /\ dirty' = [dirty EXCEPT ![w] = FALSE]
  /\ UNCHANGED <<config, schedule, attempt, stored, clock, edits>>

\* Every outcome is acknowledged, the failures too.
Ack(w) ==
  /\ pc[w] = "ack"
  /\ job' = [job EXCEPT ![on[w][1]].status = IF @ = "IN_FLIGHT" THEN "SUCCEEDED" ELSE @]
  /\ Release(w)
  /\ UNCHANGED faults

Crash(w) ==
  /\ pc[w] # "idle"
  /\ UseFault
  /\ Release(w)
  /\ UNCHANGED job

\* The lease runs out by a crash; on a worker still at its snapshot it costs a fault.
LeaseExpires(j) ==
  /\ job[j].status = "IN_FLIGHT"
  /\ IF \E w \in Workers : on[w] # None /\ on[w][1] = j THEN UseFault ELSE UNCHANGED faults
  /\ job' = [job EXCEPT ![j].status =
       IF job[j].attempts >= MaxAttempts THEN "DEAD_LETTERED" ELSE "PENDING"]
  /\ UNCHANGED <<config, schedule, attempt, stored, clock, local, edits>>

-----------------------------------------------------------------------------
(* runBackup.                                                              *)

ReadConfig(w) ==
  /\ pc[w] = "read"
  /\ clock' = clock + 1
  /\ at' = [at EXCEPT ![w] = clock + 1]
  /\ Goto(w, IF config.suspended THEN "refuse" ELSE "insert")
  /\ UNCHANGED <<config, schedule, job, attempt, stored, on, retention, edits, faults>>

\* INSERT ... ON CONFLICT DO NOTHING: a reference that is taken stays as it is.
Insert(w, status) ==
  attempt' = IF attempt[on[w]].status # "NONE" THEN attempt
             ELSE [attempt EXCEPT ![on[w]].status = status, ![on[w]].at = at[w]]

Refuse(w) ==
  /\ pc[w] = "refuse"
  /\ Insert(w, "FAILED")
  /\ Goto(w, "ack")
  /\ UNCHANGED <<config, schedule, job, stored, clock, on, at, retention, edits, faults>>

InsertAttempt(w) ==
  /\ pc[w] = "insert"
  /\ Insert(w, "STARTED")
  /\ Goto(w, IF attempt[on[w]].status = "NONE" THEN "upload" ELSE "ack")
  /\ UNCHANGED <<config, schedule, job, stored, clock, on, at, retention, edits, faults>>

\* Snapshot, put and head.  A failing put or head may leave the object behind.
Upload(w) ==
  /\ pc[w] = "upload"
  /\ \/ stored' = stored \cup {on[w]} /\ Goto(w, "commit")
     \/ stored' \in {stored, stored \cup {on[w]}} /\ Goto(w, "failed")
  /\ UNCHANGED <<config, schedule, job, attempt, clock, on, at, retention, edits, faults>>

Commit(w) ==
  /\ pc[w] = "commit"
  /\ attempt' = [attempt EXCEPT ![on[w]].status = "SUCCESS"]
  /\ config' = [config EXCEPT !.failures = 0]
  /\ Goto(w, "surplus")
  /\ UNCHANGED <<schedule, job, stored, clock, on, at, retention, edits, faults>>

\* Mutant: the catch leaves the attempt as it is.
FailWithoutOutcome(w) ==
  /\ pc[w] = "failed"
  /\ Goto(w, "ack")
  /\ UNCHANGED <<config, schedule, job, attempt, stored, clock, on, at, retention, edits, faults>>

\* guard_backup_attempt_update refuses to overwrite an outcome, and the transaction with it.
FailAttempt(w) ==
  /\ pc[w] = "failed"
  /\ IF attempt[on[w]].status = "STARTED"
     THEN /\ attempt' = [attempt EXCEPT ![on[w]].status = "FAILED"]
          /\ config' = [config EXCEPT !.failures = @ + 1,
                                      !.suspended = IF config.failures + 1 >= MaxFailures THEN TRUE ELSE @]
     ELSE UNCHANGED <<attempt, config>>
  /\ Goto(w, "ack")
  /\ UNCHANGED <<schedule, job, stored, clock, on, at, retention, edits, faults>>

-----------------------------------------------------------------------------
(* enforceRetention.                                                       *)

\* Mutant: the offset is one too small.
SurplusOffByOne(keep) == {r \in Live : Cardinality(Newer(Live, r)) + 1 >= keep}

\* ORDER BY started_at DESC OFFSET keep
Surplus(keep) == {r \in Live : Cardinality(Newer(Live, r)) >= keep}

\* The surplus comes in the order of the query: the newest of it first.
Foremost(w) == {r \in todo[w] : Newer(todo[w], r) = {}}

SelectSurplus(w) ==
  /\ pc[w] = "surplus"
  /\ picked' = [picked EXCEPT ![w] = Surplus(config.keep)]
  /\ todo' = [todo EXCEPT ![w] = Surplus(config.keep)]
  /\ Goto(w, IF Surplus(config.keep) = {} THEN "ack" ELSE "delete")
  /\ UNCHANGED <<config, schedule, job, attempt, stored, clock, on, at, hand, dirty, edits, faults>>

DeleteObject(w) ==
  /\ pc[w] = "delete"
  /\ \E r \in Foremost(w) : stored' = stored \ {r} /\ hand' = [hand EXCEPT ![w] = r]
  /\ Goto(w, "mark")
  /\ UNCHANGED <<config, schedule, job, attempt, clock, on, at, picked, todo, dirty, edits, faults>>

\* Mutant: a failure is passed over in silence.
SkipInSilence(w, r) ==
  /\ todo' = [todo EXCEPT ![w] = @ \ {r}]
  /\ hand' = [hand EXCEPT ![w] = None]
  /\ Goto(w, "delete")
  /\ UNCHANGED <<config, schedule, job, attempt, stored, clock, on, at, picked, dirty, edits>>

\* The deletion or the marker failed: noted, and on to the next object.
SkipObject(w, r) ==
  /\ todo' = [todo EXCEPT ![w] = @ \ {r}]
  /\ hand' = [hand EXCEPT ![w] = None] /\ dirty' = [dirty EXCEPT ![w] = TRUE]
  /\ Goto(w, "delete")
  /\ UNCHANGED <<config, schedule, job, attempt, stored, clock, on, at, picked, edits>>

\* Mutant: the object is taken for deleted although the call failed.
DeleteFailsUnseen(w) ==
  /\ pc[w] = "delete"
  /\ \E r \in Foremost(w) : hand' = [hand EXCEPT ![w] = r]
  /\ Goto(w, "mark")
  /\ UNCHANGED <<config, schedule, job, attempt, stored, clock, on, at, picked, todo, dirty, edits, faults>>

DeleteFails(w) ==
  /\ pc[w] = "delete"
  /\ \E r \in Foremost(w) : SkipObject(w, r)
  /\ UNCHANGED faults

MarkRetired(w) ==
  /\ pc[w] = "mark"
  /\ attempt' = [attempt EXCEPT ![hand[w]].retired = TRUE]
  /\ todo' = [todo EXCEPT ![w] = @ \ {hand[w]}]
  /\ hand' = [hand EXCEPT ![w] = None]
  /\ Goto(w, "delete")
  /\ UNCHANGED <<config, schedule, job, stored, clock, on, at, picked, dirty, edits, faults>>

\* The result goes on the newest successful attempt, whichever attempt this run served.
RecordRetention(w) ==
  /\ pc[w] = "delete" /\ todo[w] = {}
  /\ attempt' = [r \in Refs |->
       IF r \in Succeeded /\ Newer(Succeeded, r) = {}
       THEN [attempt[r] EXCEPT !.complete = ~dirty[w]] ELSE attempt[r]]
  /\ Goto(w, "ack")
  /\ UNCHANGED <<config, schedule, job, stored, clock, on, at, retention, edits, faults>>

-----------------------------------------------------------------------------
(* A statement fails.  Before the try block the handler's catch takes it,  *)
(* inside it runBackup's own catch, and in that catch the handler's again. *)

StatementFails(w) ==
  /\ UseFault
  /\ \/ pc[w] \in {"read", "refuse", "insert", "failed"} /\ Goto(w, "ack")
     \/ pc[w] \in {"commit", "surplus"} /\ Goto(w, "failed")
     \/ pc[w] = "delete" /\ todo[w] = {} /\ Goto(w, "failed")
  /\ UNCHANGED <<config, schedule, job, attempt, stored, clock, on, at, retention, edits>>

MarkFails(w) ==
  /\ pc[w] = "mark"
  /\ UseFault
  /\ SkipObject(w, hand[w])

Consume(w) ==
  \/ \E j \in Jobs : Claim(w, j)
  \/ ReadConfig(w) \/ Refuse(w) \/ InsertAttempt(w) \/ Upload(w) \/ Commit(w) \/ FailAttempt(w)
  \/ SelectSurplus(w) \/ DeleteObject(w) \/ DeleteFails(w) \/ MarkRetired(w) \/ RecordRetention(w)
  \/ Ack(w)

Next ==
  \/ \E k \in Retentions : ConfigureTarget(k)
  \/ TestConnection
  \/ \E enabled \in BOOLEAN, k \in Retentions : SetSchedule(enabled, k)
  \/ \E m \in Manual : RequestBackup(m)
  \/ TimePasses \/ SelectDue \/ RecordMissed \/ SendScheduled \/ AdvanceWindow \/ SchedulerStops
  \/ \E j \in Jobs : LeaseExpires(j)
  \/ \E w \in Workers : Consume(w) \/ Crash(w) \/ StatementFails(w) \/ MarkFails(w)

Spec == Init /\ [][Next]_vars

-----------------------------------------------------------------------------
(* Properties.                                                             *)

\* The newest successful backups, as many as the smallest retention count, are in storage and
\* not retired: no overlap of backups, retention runs, redeliveries, crashes and changes of the
\* count deletes one of them (backup-worker.ts:281, "only ever beyond the limit").
NewestAreRestorable ==
  \A r \in Succeeded :
    (\A k \in Retentions : Cardinality(Newer(Succeeded, r)) < k) =>
      r \in stored /\ ~attempt[r].retired

\* object_retired_at says the object is no longer restorable: none is left in storage
\* (0007_backup_retention_marker.sql:23).
RetiredIsGone == \A r \in Refs : attempt[r].retired => r \notin stored

\* Retention is claimed complete only if everything the run selected is retired
\* (backup-worker.ts:282, "do not claim retention complete").
CompletionIsTrue ==
  \A w \in Workers : pc[w] = "delete" /\ todo[w] = {} /\ ~dirty[w] =>
    \A r \in picked[w] : attempt[r].retired /\ r \notin stored

\* A window is left behind only when a backup has been queued for it, wherever the scheduler
\* stops (index.ts:146, a missed execution must not silently disappear).
NoWindowLost ==
  \A v \in 0..(window - 1) : \E n \in Firings : job[n].status # "NONE" /\ job[n].window = v

\* An attempt with an outcome keeps it: in particular a retention run that fails after the
\* upload was committed does not turn the backup into a failure (backup-worker.ts:232-241).
OutcomeIsFinal ==
  [][\A r \in Refs : attempt[r].status \in {"SUCCESS", "FAILED"} =>
       attempt'[r].status = attempt[r].status]_vars

\* Attempts begun, without an outcome, that no consumer will give one any more.
Abandoned ==
  {r \in Refs : attempt[r].status = "STARTED" /\
     \A w \in Workers : on[w] = r => pc[w] \notin {"upload", "commit", "failed"}}

\* Every attempt gets a terminal status (docs/specification-coverage.md:98), except that each
\* crash or failing statement may cost one: a failing upload, an overlapping delivery or a
\* retention run that fails never leaves an attempt at STARTED, and no fault costs two.
OnlyFaultsAbandon == Cardinality(Abandoned) <= faults

\* The archive of these attempts: what is recorded, what can still be restored, what is marked.
Began  == [r \in Refs |-> IF r \in Succeeded THEN attempt[r].at ELSE 0]
Failed == {r \in Refs : attempt[r].status = "FAILED"}
Held   == Succeeded \cap stored
Marked == {r \in Refs : attempt[r].retired}

Promised == INSTANCE Archive WITH
  began <- Began, recorded <- Succeeded, failed <- Failed, held <- Held, marked <- Marked

\* Consumers, deliveries, failures and changes of the settings amount to an archive that records
\* each attempt once with its object in storage, deletes only beyond the limit (backup-worker.ts:281)
\* and marks only what is gone (0007_backup_retention_marker.sql:23).
ImplementsArchive == Promised!Spec
=============================================================================
