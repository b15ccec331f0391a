------------------------------- MODULE Restore -------------------------------
(***************************************************************************)
(* The audit log across a disaster: snapshots of the live database         *)
(* (buildLogicalSnapshot of queues/backup-worker.ts), its loss, and the    *)
(* restore into a freshly migrated one by scripts/restore-snapshot.mjs,    *)
(* after which the requests of AuditChain go on.                           *)
(*                                                                         *)
(* The snapshot is reduced to the ledger (the changes), the audit rows and *)
(* whether there are recovery codes, whose hashes are left out of it.      *)
(* The operator follows docs/runbooks/backup-restore.md: no application is *)
(* connected during a restore, one that does not exit with code 0 is run   *)
(* again (with --force when rows are there), and one that does goes live.  *)
(***************************************************************************)
EXTENDS AuditChain

CONSTANTS
  Triggers,       \* length of TRIGGERS_TO_SUSPEND
  Sealing,        \* the place of audit_events_seal in it
  NoSnapshot,     \* no snapshot yet, or none being taken
  MaxDisasters    \* bound on lost databases

ASSUME RestoreAssumption ==
  /\ Triggers \in Nat \ {0} /\ Sealing \in 1..Triggers
  /\ MaxDisasters \in Nat

VARIABLES
  codes,      \* has anybody generated recovery codes?
  phase,      \* of the database and of the script that loads it
  off,        \* suspended triggers, by their place in the list
  at,         \* the trigger the script has come to
  toLoad,     \* rows of the audit section still to insert
  ok,         \* exitCode is 0 so far
  loop,       \* the place of a load that goes on beside the handler of SIGINT
  view,       \* what the transaction of the snapshot under way sees
  snapshot,   \* the last snapshot completed
  disasters

script == <<phase, off, at, toLoad, ok, loop>>
vars   == <<chain, codes, script, view, snapshot, disasters>>

Database == [events |-> events, changed |-> changed, codes |-> codes]

RestoreTypeOK ==
  /\ TypeOK
  /\ phase \in {"serving", "lost", "suspending", "people", "ledger", "loading", "arming", "exited"}
  /\ codes \in BOOLEAN /\ off \subseteq 1..Triggers /\ at \in 1..Triggers
  /\ snapshot # NoSnapshot => toLoad \subseteq snapshot.events
  /\ ok \in BOOLEAN /\ loop \in {"none", "people", "ledger", "loading"} /\ disasters \in 0..MaxDisasters

RestoreInit ==
  /\ Init /\ codes = FALSE
  /\ phase = "serving" /\ off = {} /\ at = 1 /\ toLoad = {} /\ ok = TRUE /\ loop = "none"
  /\ view = NoSnapshot /\ snapshot = NoSnapshot /\ disasters = 0

Serve ==
  /\ phase = "serving" /\ Work
  /\ UNCHANGED <<codes, script, view, snapshot, disasters>>

\* POST /auth/recovery-codes
GenerateCodes ==
  /\ phase = "serving" /\ ~codes
  /\ codes' = TRUE
  /\ UNCHANGED <<chain, script, view, snapshot, disasters>>

-----------------------------------------------------------------------------
(* buildLogicalSnapshot: one REPEATABLE READ transaction over all tables.  *)

\* Its first SELECT fixes what all of them see; the ledger comes before the audit rows.
ReadLedger ==
  /\ phase = "serving" /\ view = NoSnapshot
  /\ view' = Database
  /\ UNCHANGED <<chain, codes, script, snapshot, disasters>>

\* Mutant: READ COMMITTED, where each table is read as it is by then.
ReadEventsLater ==
  /\ phase = "serving" /\ view # NoSnapshot
  /\ snapshot' = [view EXCEPT !.events = events]
  /\ view' = NoSnapshot
  /\ UNCHANGED <<chain, codes, script, disasters>>

ReadEvents ==
  /\ phase = "serving" /\ view # NoSnapshot
  /\ snapshot' = view
  /\ view' = NoSnapshot
  /\ UNCHANGED <<chain, codes, script, disasters>>

\* The database is lost with all connections to it; a migrated one takes its place.
Disaster ==
  /\ phase = "serving" /\ snapshot # NoSnapshot
  /\ disasters < MaxDisasters /\ disasters' = disasters + 1
  /\ events' = {} /\ changed' = {} /\ codes' = FALSE /\ holder' = None
  /\ pc' = [r \in Requests |-> IF pc[r] \in {"open", "read", "inserted"} THEN "failed" ELSE pc[r]]
  /\ tail' = [r \in Requests |-> NoTail]
  /\ phase' = "lost" /\ view' = NoSnapshot
  /\ UNCHANGED <<tries, faults, off, at, toLoad, ok, loop, snapshot>>

-----------------------------------------------------------------------------
(* scripts/restore-snapshot.mjs.                                           *)

Fault == faults < MaxFaults /\ faults' = faults + 1

\* Leave the script for the loop of restoreTriggers.
GoArm == phase' = "arming" /\ at' = 1

StartRestore ==
  /\ phase = "lost" \/ (phase = "exited" /\ ~ok)
  /\ phase' = "suspending" /\ at' = 1 /\ ok' = TRUE /\ toLoad' = {}
  /\ UNCHANGED <<chain, codes, off, loop, view, snapshot, disasters>>

\* ALTER TABLE ... DISABLE TRIGGER, each committed by itself.
Suspend ==
  /\ phase = "suspending"
  /\ off' = off \cup {at}
  /\ IF at = Triggers THEN phase' = "people" /\ at' = 1
                      ELSE phase' = phase /\ at' = at + 1
  /\ UNCHANGED <<chain, codes, toLoad, ok, loop, view, snapshot, disasters>>

\* triggersSuspended is still false: restoreTriggers returns at once.
StopSuspending ==
  /\ phase = "suspending" /\ Fault
  /\ phase' = "exited" /\ ok' = FALSE
  /\ UNCHANGED <<codes, events, changed, pc, tail, holder, tries, off, at, toLoad, loop, view, snapshot, disasters>>

\* The load is at a place, by itself or beside the handler of SIGINT.
LoadIsAt(place) == phase = place \/ (phase = "arming" /\ loop = place)
LoadGoesTo(place) ==
  \/ phase # "arming" /\ phase' = place /\ UNCHANGED loop
  \/ phase = "arming" /\ loop' = place /\ UNCHANGED phase

\* Users get a password nobody can match; a recovery code has no hash, which is NOT NULL.
LoadPeople ==
  /\ LoadIsAt("people") /\ ~snapshot.codes
  /\ LoadGoesTo("ledger")
  /\ UNCHANGED <<chain, codes, off, at, toLoad, ok, view, snapshot, disasters>>

RefuseCodes ==
  /\ phase = "people" /\ snapshot.codes
  /\ GoArm /\ ok' = FALSE
  /\ UNCHANGED <<chain, codes, off, toLoad, loop, view, snapshot, disasters>>

LoadLedger ==
  /\ LoadIsAt("ledger")
  /\ changed' = changed \cup snapshot.changed
  /\ LoadGoesTo("loading") /\ toLoad' = snapshot.events
  /\ UNCHANGED <<codes, events, pc, tail, holder, tries, faults, off, at, ok, view, snapshot, disasters>>

\* Mutant: the sequence is assigned on arrival, as by the trigger that seals an insert.
LoadRowRenumbered ==
  /\ LoadIsAt("loading")
  /\ \E e \in toLoad :
       /\ toLoad' = toLoad \ {e}
       /\ events' = events \cup {[e EXCEPT !.sequence = LastRow.sequence + 1]}
  /\ UNCHANGED <<codes, changed, pc, tail, holder, tries, faults, phase, off, at, ok, loop, view, snapshot, disasters>>

\* The rows come in the order of a SELECT without ORDER BY; one that exists is skipped.  The
\* trigger, once armed again, lets through only the row that follows the last, as it is.
LoadRow ==
  /\ LoadIsAt("loading")
  /\ \E e \in toLoad :
       /\ Sealing \notin off => e.previousHash = LastRow.eventHash
       /\ toLoad' = toLoad \ {e}
       /\ events' = IF \E f \in events : f.sequence = e.sequence THEN events ELSE events \cup {e}
  /\ UNCHANGED <<codes, changed, pc, tail, holder, tries, faults, phase, off, at, ok, loop, view, snapshot, disasters>>

LoadEnds ==
  /\ phase = "loading" /\ toLoad = {}
  /\ GoArm
  /\ UNCHANGED <<chain, codes, off, toLoad, ok, loop, view, snapshot, disasters>>

\* Mutant: the failure of a row is printed, but the script exits with code 0.
LoadStopsQuietly ==
  /\ phase \in {"people", "ledger", "loading"} /\ Fault
  /\ GoArm
  /\ UNCHANGED <<codes, events, changed, pc, tail, holder, tries, off, toLoad, ok, loop, view, snapshot, disasters>>

\* A row is refused: exitCode 1.
LoadStops ==
  /\ phase \in {"people", "ledger", "loading"} /\ Fault
  /\ GoArm /\ ok' = FALSE
  /\ UNCHANGED <<codes, events, changed, pc, tail, holder, tries, off, toLoad, loop, view, snapshot, disasters>>

\* SIGINT: the handler arms the triggers and exits with 130; the load does not know of it.
Interrupt ==
  /\ phase \in {"people", "ledger", "loading", "arming"} /\ Fault
  /\ loop' = IF phase = "arming" THEN loop ELSE phase
  /\ GoArm /\ ok' = FALSE
  /\ UNCHANGED <<codes, events, changed, pc, tail, holder, tries, off, toLoad, view, snapshot, disasters>>

\* It comes to its end, meets a trigger that is armed again, or recovery codes.
InterruptedLoadEnds ==
  /\ loop # "none" /\ loop' = "none"
  /\ UNCHANGED <<chain, codes, phase, off, at, toLoad, ok, view, snapshot, disasters>>

\* restoreTriggers goes on to the next trigger when one cannot be enabled.
Arm ==
  /\ phase = "arming"
  /\ \/ off' = off \ {at} /\ UNCHANGED <<ok, faults>>
     \/ Fault /\ ok' = FALSE /\ UNCHANGED off
  /\ IF at = Triggers THEN phase' = "exited" /\ at' = 1 /\ loop' = "none"
                      ELSE phase' = phase /\ at' = at + 1 /\ loop' = loop
  /\ UNCHANGED <<codes, events, changed, pc, tail, holder, tries, toLoad, view, snapshot, disasters>>

\* SIGKILL, or the machine.
Killed ==
  /\ phase \in {"suspending", "people", "ledger", "loading", "arming"} /\ Fault
  /\ phase' = "exited" /\ ok' = FALSE /\ loop' = "none"
  /\ UNCHANGED <<codes, events, changed, pc, tail, holder, tries, off, at, toLoad, view, snapshot, disasters>>

\* After exit code 0 the operator verifies the chain and connects the application.
GoLive ==
  /\ phase = "exited" /\ ok
  /\ phase' = "serving"
  /\ UNCHANGED <<chain, codes, off, at, toLoad, ok, loop, view, snapshot, disasters>>

Script ==
  \/ StartRestore \/ Suspend \/ LoadPeople \/ RefuseCodes
  \/ LoadLedger \/ LoadRow \/ LoadEnds \/ InterruptedLoadEnds \/ Arm \/ GoLive

Next ==
  \/ Serve \/ GenerateCodes \/ ReadLedger \/ ReadEvents \/ Disaster
  \/ Script \/ StopSuspending \/ LoadStops \/ Interrupt \/ Killed

(* A request of the application runs on by itself, and the operator sees a *)
(* restore through.                                                        *)
Fairness ==
  /\ \A r \in Requests :
       WF_vars(phase = "serving" /\ Proceed(r) /\ UNCHANGED <<codes, script, view, snapshot, disasters>>)
  /\ WF_vars(Script)

RestoreSpec == RestoreInit /\ [][Next]_vars /\ Fairness

-----------------------------------------------------------------------------
(* Whatever failed or was interrupted before, a restore that exits with    *)
(* code 0 leaves the whole snapshot and every trigger armed                *)
(* (restore-snapshot.mjs:8-13).                                            *)
RestoredIsWhole ==
  phase = "exited" /\ ok => Database = snapshot /\ off = {}

\* A live database, restored or not, has a chain that verifies ...
LiveChainVerifies == phase = "serving" => ChainVerifies

\* ... and changes and events that belong together.
LiveRecordedWithChange == phase = "serving" => RecordedWithChange

(* Requests in flight end: a lock of the chain is never left behind.       *)
InFlightEnds ==
  \A r \in Requests :
    pc[r] \in {"open", "read", "inserted"} ~> pc[r] \in {"recorded", "refused", "failed"}

\* The log by position, and how much of it the last snapshot keeps.
InOrder(rows) == [i \in 1..Cardinality(rows) |-> (CHOOSE e \in rows : e.sequence = i).request]
Keeps == IF snapshot = NoSnapshot THEN {} ELSE snapshot.events

(* Refinement: an auditor sees a log that only grows at its end, and goes  *)
(* back only to its last snapshot.                                         *)
Log == INSTANCE AuditLog WITH
  log  <- InOrder(IF phase = "serving" THEN events ELSE Keeps),
  kept <- Cardinality(Keeps)

LogIsAppendOnly == Log!Spec
=============================================================================
