------------------------------ MODULE AuditChain ------------------------------
(***************************************************************************)
(* The audit log of one organization: writeAuditEvent of                   *)
(* apps/api/src/db/audit-writer.ts, the digests of packages/core/src/      *)
(* audit.ts, the trigger that seals an insert (db/migrations/0003) and the *)
(* verification of POST /admin/audit/verify.                               *)
(*                                                                         *)
(* A request is any handler or job that records one event.  A statement of *)
(* its transaction that another request can come before is one step; the   *)
(* content of an event is reduced to the request that it is about.         *)
(***************************************************************************)
EXTENDS Naturals, FiniteSets

CONSTANTS
  Together,   \* requests that record in the transaction of their change
  After,      \* requests that commit their change first and record it next
  Denied,     \* releases with a wrong PIN: the refusal is recorded, then thrown
  None,       \* nobody holds the lock of the chain
  MaxTries,   \* deliveries of a request of Together that fails
  MaxFaults   \* bound on dying processes, lost connections and timeouts

Requests == Together \cup After \cup Denied

ASSUME AuditAssumption ==
  /\ Together \cap After = {} /\ Together \cap Denied = {} /\ After \cap Denied = {}
  /\ None \notin Requests
  /\ MaxTries \in Nat \ {0} /\ MaxFaults \in Nat

VARIABLES
  events,    \* committed rows of audit_events
  changed,   \* requests whose business change is committed
  pc,        \* where each request is
  tail,      \* the end of the chain as the request read it
  holder,    \* who holds the advisory lock of the chain
  tries,     \* deliveries so far
  faults

chain == <<events, changed, pc, tail, holder, tries, faults>>

-----------------------------------------------------------------------------
(* The digest of an event covers its content, its sequence and the digest  *)
(* before it; distinct inputs have distinct digests.                       *)

GENESIS_HASH == <<None, 0, None>>
Digest(previousHash, sequence, request) == <<previousHash, sequence, request>>

\* sealAuditEvent
Seal(request, previousHash, sequence) ==
  [sequence |-> sequence, previousHash |-> previousHash, request |-> request,
   eventHash |-> Digest(previousHash, sequence, request)]

NoTail == [sequence |-> 0, eventHash |-> GENESIS_HASH]

IsLast(e) == \A f \in events : f.sequence <= e.sequence

\* SELECT sequence, event_hash ... ORDER BY sequence DESC LIMIT 1
LastRow ==
  IF events = {} THEN NoTail
  ELSE LET last == CHOOSE e \in events : IsLast(e)
       IN  [sequence |-> last.sequence, eventHash |-> last.eventHash]

Recorded(r) == \E e \in events : e.request = r

-----------------------------------------------------------------------------
(* verifyChain on the slice the route selects.                             *)

Following(from) == {e \in events : e.sequence >= from}

\* WHERE sequence >= from ORDER BY sequence ASC LIMIT limit
Slice(from, limit) ==
  {e \in Following(from) :
     Cardinality({f \in Following(from) : f.sequence < e.sequence}) < limit}

\* The digest of the row before the slice, when there is one.
StartHash(from) ==
  IF \E e \in events : e.sequence + 1 = from
  THEN (CHOOSE e \in events : e.sequence + 1 = from).eventHash
  ELSE GENESIS_HASH

IsBefore(S, f, e) ==
  f.sequence < e.sequence /\ ~\E g \in S : f.sequence < g.sequence /\ g.sequence < e.sequence

\* Each event names its predecessor in the slice and hashes to its own digest.
VerifyChain(S, startHash) ==
  \A e \in S :
    /\ \A f \in S : IsBefore(S, f, e) => e.previousHash = f.eventHash
    /\ (\A f \in S : f.sequence >= e.sequence) => e.previousHash = startHash
    /\ e.eventHash = Digest(e.previousHash, e.sequence, e.request)

-----------------------------------------------------------------------------
TypeOK ==
  /\ \A e \in events :
       /\ e = Seal(e.request, e.previousHash, e.sequence)
       /\ e.sequence \in Nat \ {0} /\ e.request \in Requests
  /\ changed \subseteq Requests
  /\ pc \in [Requests -> {"idle", "open", "read", "inserted", "recorded", "refused", "failed"}]
  /\ DOMAIN tail = Requests /\ \A r \in Requests : tail[r].sequence \in Nat
  /\ holder \in Requests \cup {None}
  /\ tries \in [Requests -> 0..MaxTries]
  /\ faults \in 0..MaxFaults

Init ==
  /\ events = {} /\ changed = {} /\ holder = None /\ faults = 0
  /\ pc = [r \in Requests |-> "idle"]
  /\ tail = [r \in Requests |-> NoTail]
  /\ tries = [r \in Requests |-> 0]

Goto(r, label) == pc' = [pc EXCEPT ![r] = label]
\* The end of a transaction releases its lock; what the handler has read is gone with it.
EndOf(r) ==
  /\ holder' = IF holder = r THEN None ELSE holder
  /\ tail' = [tail EXCEPT ![r] = NoTail]

\* The handler's own statements: still uncommitted, unless it records afterwards.
Begin(r) ==
  /\ pc[r] = "idle"
  /\ Goto(r, "open")
  /\ tries' = [tries EXCEPT ![r] = @ + 1]
  /\ changed' = IF r \in After THEN changed \cup {r} ELSE changed
  /\ UNCHANGED <<events, tail, holder, faults>>

ReadTail(r) ==
  /\ pc[r] = "open"
  /\ Goto(r, "read")
  /\ tail' = [tail EXCEPT ![r] = LastRow]
  /\ UNCHANGED <<events, changed, holder, tries, faults>>

\* Mutant: a trigger that assigns the sequence without comparing the predecessor.
InsertUnchecked(r) ==
  /\ pc[r] = "read" /\ holder = None
  /\ Goto(r, "inserted")
  /\ holder' = r
  /\ UNCHANGED <<events, changed, tail, tries, faults>>

\* seal_audit_event: wait for the lock, which is kept to the end of the transaction.
Insert(r) ==
  /\ pc[r] = "read" /\ holder = None
  /\ tail[r].eventHash = LastRow.eventHash
  /\ Goto(r, "inserted")
  /\ holder' = r
  /\ UNCHANGED <<events, changed, tail, tries, faults>>

\* The chain has moved since the tail was read: the whole transaction is rolled back.
LoseRace(r) ==
  /\ pc[r] = "read" /\ holder = None
  /\ tail[r].eventHash # LastRow.eventHash
  /\ Goto(r, "failed") /\ EndOf(r)
  /\ UNCHANGED <<events, changed, tries, faults>>

\* The row carries the digest the writer computed and the sequence the trigger assigned.
Row(r) ==
  [Seal(r, tail[r].eventHash, tail[r].sequence + 1) EXCEPT !.sequence = LastRow.sequence + 1]

Commit(r) ==
  /\ pc[r] = "inserted" /\ r \notin Denied
  /\ events' = events \cup {Row(r)}
  /\ changed' = changed \cup {r}
  /\ Goto(r, "recorded") /\ EndOf(r)
  /\ UNCHANGED <<tries, faults>>

\* releaseBatch throws after the event of a wrong PIN: the event goes with the rest.
Refuse(r) ==
  /\ pc[r] = "inserted" /\ r \in Denied
  /\ Goto(r, "refused") /\ EndOf(r)
  /\ UNCHANGED <<events, changed, tries, faults>>

\* Mutant: a lock of the session, which the pooled connection keeps after a rollback.
FailKeepsLock(r) ==
  /\ pc[r] \in {"open", "read", "inserted"}
  /\ faults < MaxFaults /\ faults' = faults + 1
  /\ Goto(r, "failed")
  /\ UNCHANGED <<events, changed, tail, holder, tries>>

\* The process dies, the connection is lost or a statement times out; also before COMMIT.
Fail(r) ==
  /\ pc[r] \in {"open", "read", "inserted"}
  /\ faults < MaxFaults /\ faults' = faults + 1
  /\ Goto(r, "failed") /\ EndOf(r)
  /\ UNCHANGED <<events, changed, tries>>

\* The queue delivers a failed job again.
Retry(r) ==
  /\ pc[r] = "failed" /\ r \in Together /\ tries[r] < MaxTries
  /\ Goto(r, "idle")
  /\ UNCHANGED <<events, changed, tail, holder, tries, faults>>

Proceed(r) == ReadTail(r) \/ Insert(r) \/ LoseRace(r) \/ Commit(r) \/ Refuse(r)

Work == \E r \in Requests : Begin(r) \/ Proceed(r) \/ Fail(r) \/ Retry(r)

Spec == Init /\ [][Work]_chain
-----------------------------------------------------------------------------
(* Every slice the verification route can select verifies, whatever        *)
(* requests raced for the end of the chain, failed or were retried: the    *)
(* digest a writer computed before the lock is the one the trigger accepts *)
(* under it (audit-writer.ts:46 and seal_audit_event).                     *)
ChainVerifies ==
  \A from, limit \in 1..(Cardinality(events) + 1) :
    VerifyChain(Slice(from, limit), StartHash(from))

(* "a released payment and its audit event commit together or not at all"  *)
(* (audit-writer.ts:40), for the handlers that record in the transaction   *)
(* of the change; and no event tells of a change that did not happen.      *)
RecordedWithChange ==
  /\ \A r \in Together : r \in changed => Recorded(r)
  /\ \A r \in Requests : Recorded(r) => r \in changed
=============================================================================
