----------------------------- MODULE AuditProofs -----------------------------
(***************************************************************************)
(* Proofs about Restore, and through it about AuditChain: the log of a     *)
(* live database verifies and tells what happened, before and after any    *)
(* number of lost databases and interrupted restores.                      *)
(***************************************************************************)
EXTENDS Restore, Sequences, FiniteSetTheorems, SequenceTheorems, TLAPS

-----------------------------------------------------------------------------
(* A set of rows that is a chain from the genesis digest.                  *)
Linked(rows) ==
  /\ IsFiniteSet(rows)
  /\ \A e \in rows :
       /\ e = Seal(e.request, e.previousHash, e.sequence)
       /\ e.sequence \in Nat \ {0} /\ e.request \in Requests
       /\ e.sequence = 1 => e.previousHash = GENESIS_HASH
       /\ e.sequence > 1 => \E f \in rows : f.sequence + 1 = e.sequence /\ e.previousHash = f.eventHash
  /\ \A e, f \in rows : e.sequence = f.sequence => e = f
  /\ rows # {} => \E e \in rows : \A f \in rows : f.sequence <= e.sequence

(* A ledger and a log that belong together.                                *)
Sound(d) ==
  /\ d = [events |-> d.events, changed |-> d.changed, codes |-> d.codes] /\ d.codes \in BOOLEAN
  /\ d.changed \subseteq Requests
  /\ Linked(d.events)
  /\ \A r \in Together : r \in d.changed => \E e \in d.events : e.request = r
  /\ \A e \in d.events : e.request \in d.changed

InFlight == {"open", "read", "inserted"}

(* What a request has read is a place of the chain, and it is the last one *)
(* for the request that holds the lock.                                    *)
Place(t) ==
  \/ t = NoTail
  \/ \E e \in events : t = [sequence |-> e.sequence, eventHash |-> e.eventHash]

RequestInv ==
  \A r \in Requests :
    /\ Place(tail[r])
    /\ pc[r] = "inserted" <=> holder = r
    /\ pc[r] = "inserted" => tail[r] = LastRow
    /\ r \in Denied => pc[r] # "recorded"
    /\ pc[r] = "idle" => tries[r] < MaxTries

(* The script has loaded a part of the snapshot, and all of it by the time *)
(* it re-arms the triggers, unless it is going to say otherwise.           *)
ScriptInv ==
  /\ phase = "serving" => off = {} /\ Sound(Database)
  /\ phase # "serving" =>
       /\ snapshot # NoSnapshot
       /\ events \subseteq snapshot.events /\ changed \subseteq snapshot.changed
       /\ \A r \in Requests : pc[r] \notin InFlight
       /\ codes = FALSE
  /\ phase = "ledger" => snapshot.codes = FALSE
  /\ phase = "loading" =>
       snapshot.codes = FALSE /\ changed = snapshot.changed /\ events \cup toLoad = snapshot.events
  /\ phase \in {"arming", "exited"} /\ ok => Database = snapshot
  /\ phase = "arming" /\ ok => off \subseteq at..Triggers
  /\ phase = "exited" /\ ok => off = {}
  /\ phase \in {"serving", "lost", "suspending", "people", "ledger"} => toLoad = {}
  /\ phase \in {"arming", "exited"} /\ ok => toLoad = {}
  /\ loop # "none" => phase = "arming" /\ ~ok

SnapshotInv ==
  /\ view = NoSnapshot \/ Sound(view)
  /\ snapshot = NoSnapshot \/ Sound(snapshot)

Inv == RestoreTypeOK /\ RequestInv /\ ScriptInv /\ SnapshotInv

-----------------------------------------------------------------------------
(* The chain by itself.                                                    *)

\* The end of a chain is its row with the highest sequence, or the genesis digest.
LEMMA TailIsLast ==
  ASSUME Linked(events), events # {}
  PROVE  \E e \in events : IsLast(e) /\ LastRow = [sequence |-> e.sequence, eventHash |-> e.eventHash]
<1>1. \E e \in events : IsLast(e)
  BY DEF Linked, IsLast
<1> QED
  BY <1>1 DEF LastRow

LEMMA TailIsPlace == ASSUME Linked(events) PROVE Place(LastRow)
BY TailIsLast DEF Place, LastRow

\* A digest is the digest of one place only.
LEMMA PlaceOfDigest ==
  ASSUME Linked(events), NEW s, NEW t, Place(s), Place(t), s.eventHash = t.eventHash
  PROVE  s = t
<1>1. \A e \in events : e.eventHash = <<e.previousHash, e.sequence, e.request>> /\ e.sequence \in Nat \ {0}
  BY DEF Linked, Seal, Digest
<1>2. NoTail.eventHash = <<None, 0, None>> /\ NoTail.sequence = 0
  BY DEF NoTail, GENESIS_HASH
<1>3. CASE s = NoTail /\ t = NoTail
  BY <1>3
<1>4. ASSUME NEW e \in events, s = [sequence |-> e.sequence, eventHash |-> e.eventHash], t = NoTail
      PROVE  FALSE
  <2>1. <<e.previousHash, e.sequence, e.request>> = <<None, 0, None>>
    BY <1>1, <1>2, <1>4
  <2> QED
    BY <1>1, <2>1
<1>5. ASSUME NEW e \in events, t = [sequence |-> e.sequence, eventHash |-> e.eventHash], s = NoTail
      PROVE  FALSE
  <2>1. <<e.previousHash, e.sequence, e.request>> = <<None, 0, None>>
    BY <1>1, <1>2, <1>5
  <2> QED
    BY <1>1, <2>1
<1>6. ASSUME NEW e \in events, s = [sequence |-> e.sequence, eventHash |-> e.eventHash],
             NEW f \in events, t = [sequence |-> f.sequence, eventHash |-> f.eventHash]
      PROVE  s = t
  <2>1. <<e.previousHash, e.sequence, e.request>> = <<f.previousHash, f.sequence, f.request>>
    BY <1>1, <1>6
  <2>2. e.sequence = f.sequence
    BY <2>1
  <2> QED
    BY <1>6, <2>2 DEF Linked
<1> QED
  BY <1>3, <1>4, <1>5, <1>6 DEF Place

\* A chain stays one when the row after its end is added.
LEMMA LinkedAppend ==
  ASSUME Linked(events), NEW r \in Requests, NEW row,
         row = Seal(r, LastRow.eventHash, LastRow.sequence + 1)
  PROVE  Linked(events \cup {row})
<1> DEFINE n == LastRow.sequence + 1
<1>1. row = Seal(row.request, row.previousHash, row.sequence)
      /\ row.request = r /\ row.previousHash = LastRow.eventHash /\ row.sequence = n
  BY DEF Seal
<1>2. CASE events = {}
  <2>1. n = 1 /\ LastRow.eventHash = GENESIS_HASH
    BY <1>2 DEF LastRow, NoTail
  <2>2. IsFiniteSet({row})
    BY FS_Singleton
  <2>3. events \cup {row} = {row}
    BY <1>2
  <2>4. \A f \in {row} : row.sequence = 1 /\ f.sequence <= row.sequence
    BY <1>1, <2>1
  <2> QED
    BY <1>1, <2>1, <2>2, <2>3, <2>4 DEF Linked
<1>3. CASE events # {}
  <2>1. PICK e \in events : IsLast(e) /\ LastRow = [sequence |-> e.sequence, eventHash |-> e.eventHash]
    BY <1>3, TailIsLast
  <2>2. e.sequence \in Nat \ {0} /\ n = e.sequence + 1 /\ row.previousHash = e.eventHash
    BY <1>1, <2>1 DEF Linked
  <2>3. \A f \in events : f.sequence \in Nat \ {0} /\ f.sequence < n
    BY <2>1, <2>2 DEF Linked, IsLast
  <2>4. IsFiniteSet(events \cup {row})
    BY FS_AddElement DEF Linked
  <2>5. \E f \in events \cup {row} : f.sequence + 1 = row.sequence /\ row.previousHash = f.eventHash
    BY <1>1, <2>2
  <2>6. \A f \in events \cup {row} :
          /\ f = Seal(f.request, f.previousHash, f.sequence)
          /\ f.sequence \in Nat \ {0} /\ f.request \in Requests
          /\ f.sequence = 1 => f.previousHash = GENESIS_HASH
          /\ f.sequence > 1 => \E g \in events \cup {row} :
                                 g.sequence + 1 = f.sequence /\ f.previousHash = g.eventHash
    <3> SUFFICES ASSUME NEW f \in events \cup {row}
                 PROVE  /\ f = Seal(f.request, f.previousHash, f.sequence)
                        /\ f.sequence \in Nat \ {0} /\ f.request \in Requests
                        /\ f.sequence = 1 => f.previousHash = GENESIS_HASH
                        /\ f.sequence > 1 => \E g \in events \cup {row} :
                             g.sequence + 1 = f.sequence /\ f.previousHash = g.eventHash
      OBVIOUS
    <3>1. CASE f = row
      <4>1. row.sequence \in Nat \ {0} /\ row.sequence # 1 /\ row.request \in Requests
        BY <1>1, <2>2
      <4>2. row = Seal(row.request, row.previousHash, row.sequence)
        BY <1>1
      <4> HIDE DEF n
      <4> QED
        BY <2>5, <3>1, <4>1, <4>2
    <3>2. CASE f \in events
      BY <3>2 DEF Linked
    <3> QED
      BY <3>1, <3>2
  <2>7. \A f, g \in events \cup {row} : f.sequence = g.sequence => f = g
    BY <1>1, <2>2, <2>3 DEF Linked
  <2>8. \A f \in events \cup {row} : f.sequence <= row.sequence
    BY <1>1, <2>2, <2>3
  <2> QED
    BY <2>4, <2>6, <2>7, <2>8 DEF Linked
<1> QED
  BY <1>2, <1>3

\* A slice takes, with a row, every row from its start on that comes before it.
LEMMA SliceIsInitial ==
  ASSUME Linked(events), NEW from \in Nat, NEW limit \in Nat,
         NEW e \in Slice(from, limit), NEW g \in Following(from), g.sequence < e.sequence
  PROVE  g \in Slice(from, limit)
<1> DEFINE Before(x) == {f \in Following(from) : f.sequence < x.sequence}
<1>1. e \in events /\ g \in events /\ \A f \in events : f.sequence \in Nat
  BY DEF Slice, Following, Linked
<1>2. Before(g) \subseteq Before(e)
  BY <1>1 DEF Following
<1>3. IsFiniteSet(Before(e))
  <2>1. Before(e) \subseteq events
    BY DEF Following
  <2> QED
    BY <2>1, FS_Subset DEF Linked
<1>4. Cardinality(Before(g)) <= Cardinality(Before(e)) /\ Cardinality(Before(e)) \in Nat
      /\ Cardinality(Before(g)) \in Nat
  BY <1>2, <1>3, FS_Subset, FS_CardinalityType
<1>5. Cardinality(Before(e)) < limit
  BY DEF Slice
<1>6. Cardinality(Before(g)) < limit
  BY <1>4, <1>5
<1> QED
  BY <1>6 DEF Slice

(* Every slice of a chain verifies: a row names its predecessor, and the   *)
(* first row of the slice names the one before it.                         *)
LEMMA ChainOfLinked == ASSUME Linked(events) PROVE ChainVerifies
<1> SUFFICES ASSUME NEW from \in Nat \ {0}, NEW limit \in Nat,
                    NEW e \in Slice(from, limit)
             PROVE  /\ \A f \in Slice(from, limit) :
                         IsBefore(Slice(from, limit), f, e) => e.previousHash = f.eventHash
                    /\ (\A f \in Slice(from, limit) : f.sequence >= e.sequence)
                         => e.previousHash = StartHash(from)
                    /\ e.eventHash = Digest(e.previousHash, e.sequence, e.request)
  <2>1. \A n \in 1..(Cardinality(events) + 1) : n \in Nat \ {0}
    OBVIOUS
  <2> QED
    BY <2>1 DEF ChainVerifies, VerifyChain
<1> DEFINE S == Slice(from, limit)
<1>1. /\ S \subseteq Following(from) /\ Following(from) \subseteq events
      /\ \A f \in events : f.sequence \in Nat \ {0}
      /\ \A f \in Following(from) : f.sequence >= from
  BY DEF Slice, Following, Linked
<1>2. e.eventHash = Digest(e.previousHash, e.sequence, e.request)
  BY <1>1 DEF Linked, Seal
<1>3. ASSUME NEW f \in S, IsBefore(S, f, e) PROVE e.previousHash = f.eventHash
  <2>1. f.sequence < e.sequence /\ ~\E g \in S : f.sequence < g.sequence /\ g.sequence < e.sequence
    BY <1>3 DEF IsBefore
  <2>2. PICK g \in events : g.sequence + 1 = e.sequence /\ e.previousHash = g.eventHash
    BY <1>1, <2>1 DEF Linked
  <2>3. g \in Following(from) /\ g.sequence < e.sequence
    BY <1>1, <2>1, <2>2 DEF Following
  <2>4. g \in S
    BY <2>3, SliceIsInitial
  <2>5. g.sequence = f.sequence
    BY <1>1, <2>1, <2>2, <2>4
  <2> QED
    BY <1>1, <2>2, <2>5 DEF Linked
<1>4. ASSUME \A f \in S : f.sequence >= e.sequence PROVE e.previousHash = StartHash(from)
  <2>1. CASE e.sequence = 1
    <3>1. ~\E f \in events : f.sequence + 1 = from
      BY <1>1, <2>1
    <3> QED
      BY <1>1, <2>1, <3>1 DEF StartHash, Linked
  <2>2. CASE e.sequence # 1
    <3>1. PICK g \in events : g.sequence + 1 = e.sequence /\ e.previousHash = g.eventHash
      BY <1>1, <2>2 DEF Linked
    <3>2. g \notin Following(from)
      BY <1>1, <1>4, <3>1, SliceIsInitial
    <3>3. g.sequence + 1 = from
      BY <1>1, <3>1, <3>2 DEF Following
    <3>4. \A h \in events : h.sequence + 1 = from => h = g
      BY <1>1, <3>3 DEF Linked
    <3> QED
      BY <3>1, <3>3, <3>4 DEF StartHash
  <2> QED
    BY <2>1, <2>2
<1> QED
  BY <1>2, <1>3, <1>4

-----------------------------------------------------------------------------
(* The invariant.                                                          *)

\* Only the rows of the log and its lock matter to what a request has read.
LEMMA PlacesStay ==
  ASSUME RequestInv, events \subseteq events', tail' = tail
  PROVE  \A r \in Requests : Place(tail[r])'
BY DEF RequestInv, Place

LEMMA InitInv == RestoreInit => Inv
<1> SUFFICES ASSUME RestoreInit PROVE Inv
  OBVIOUS
<1> USE AuditAssumption, RestoreAssumption DEF RestoreInit, Init
<1>1. RestoreTypeOK
  <2>1. codes \in BOOLEAN /\ ok \in BOOLEAN
    BY Zenon
  <2> QED
    BY <2>1 DEF RestoreTypeOK, TypeOK, NoTail
<1>2. RequestInv
  BY DEF RequestInv, Place
<1>3. IsFiniteSet({})
  BY FS_EmptySet
<1>4. Sound(Database)
  BY <1>3 DEF Sound, Database, Linked
<1>5. ScriptInv
  BY <1>4 DEF ScriptInv
<1> QED
  BY <1>1, <1>2, <1>5 DEF Inv, SnapshotInv

\* A step of the application on a live database.
LEMMA WorkInv == ASSUME Inv, phase = "serving", Work, UNCHANGED <<codes, script, view, snapshot, disasters>>
                 PROVE  Inv'
<1> USE AuditAssumption DEF Inv
<1>1. Sound(Database) /\ Linked(events) /\ off = {}
  BY DEF ScriptInv, Sound, Database
<1>2. SnapshotInv'
  BY DEF SnapshotInv
<1>3. PICK r \in Requests : Begin(r) \/ Proceed(r) \/ Fail(r) \/ Retry(r)
  BY DEF Work
<1>4. SUFFICES TypeOK' /\ RequestInv' /\ Sound(Database)'
  BY <1>1, <1>2 DEF ScriptInv, RestoreTypeOK, script
<1> USE DEF RestoreTypeOK, TypeOK, RequestInv, Goto
<1>5. ASSUME UNCHANGED events,
             \A q \in Requests : Place(tail'[q]),
             TypeOK',
             \A q \in Requests : /\ pc'[q] = "inserted" <=> holder' = q
                                 /\ pc'[q] = "inserted" => tail'[q] = LastRow
                                 /\ q \in Denied => pc'[q] # "recorded"
                                 /\ pc'[q] = "idle" => tries'[q] < MaxTries,
             changed' = changed \/ \E q \in After : changed' = changed \cup {q}
      PROVE  TypeOK' /\ RequestInv' /\ Sound(Database)'
  <2>1. RequestInv'
    BY <1>5 DEF Place, LastRow, IsLast
  <2>2. Sound(Database)'
    BY <1>1, <1>5 DEF Sound, Database, Requests
  <2> QED
    BY <1>5, <2>1, <2>2
<1>6. CASE Begin(r)
  BY <1>5, <1>6 DEF Begin, Requests
<1>7. CASE ReadTail(r)
  <2>1. Place(LastRow) /\ LastRow.sequence \in Nat
    BY <1>1, TailIsPlace DEF Place, NoTail
  <2> QED
    BY <1>5, <1>7, <2>1 DEF ReadTail
<1>8. CASE Insert(r)
  <2>1. tail[r] = LastRow
    BY <1>1, <1>8, TailIsPlace, PlaceOfDigest DEF Insert
  <2> QED
    BY <1>5, <1>8, <2>1 DEF Insert
<1>9. CASE LoseRace(r)
  BY <1>5, <1>9 DEF LoseRace, EndOf, Place, NoTail
<1>10. CASE Refuse(r)
  BY <1>5, <1>10 DEF Refuse, EndOf, Place, NoTail
<1>11. CASE Fail(r)
  BY <1>5, <1>11 DEF Fail, EndOf, Place, NoTail
<1>12. CASE Retry(r)
  BY <1>5, <1>12 DEF Retry
<1>13. CASE Commit(r)
  <2> DEFINE row == Row(r)
  <2>1. tail[r] = LastRow /\ holder = r /\ r \in Requests /\ r \notin Denied
    BY <1>13 DEF Commit
  <2>2. row = Seal(r, LastRow.eventHash, LastRow.sequence + 1)
    BY <2>1 DEF Row, Seal
  <2>3. Linked(events')
    BY <1>1, <1>13, <2>2, LinkedAppend DEF Commit
  <2>4. row \in events' /\ row.request = r /\ events' = events \cup {row} /\ changed' = changed \cup {r}
    BY <1>13, <2>2 DEF Commit, Seal
  <2>5. Sound(Database)'
    BY <1>1, <2>3, <2>4 DEF Sound, Database
  <2>6. \A q \in Requests : Place(tail[q])' \/ tail'[q] = NoTail
    BY <1>13, <2>4 DEF Commit, EndOf, Place
  <2>7. RequestInv'
    BY <1>13, <2>1, <2>6 DEF Commit, EndOf, Place
  <2>8. TypeOK'
    BY <1>13, <2>3, <2>4 DEF Commit, EndOf, Linked, NoTail
  <2> QED
    BY <2>5, <2>7, <2>8
<1> QED
  BY <1>3, <1>6, <1>7, <1>8, <1>9, <1>10, <1>11, <1>12, <1>13 DEF Proceed

\* Outside the application the requests, the lock and what was read stand still.
LEMMA QuietInv ==
  ASSUME Inv, UNCHANGED <<pc, tail, holder, tries>>, events \subseteq events',
         \A r \in Requests : pc[r] \notin InFlight \/ events' = events
  PROVE  RequestInv'
<1>1. \A r \in Requests : Place(tail[r])'
  BY PlacesStay DEF Inv
<1>2. \A r \in Requests : pc[r] = "inserted" => tail'[r] = LastRow'
  BY DEF Inv, RequestInv, InFlight, LastRow, IsLast
<1> QED
  BY <1>1, <1>2 DEF Inv, RequestInv

\* Rows of a chain are rows of the log, and a part of a chain has one row at each place.
LEMMA PartOfChain ==
  ASSUME NEW d, Sound(d), NEW e \in d.events
  PROVE  /\ e = Seal(e.request, e.previousHash, e.sequence)
         /\ e.sequence \in Nat \ {0} /\ e.request \in Requests
         /\ \A f \in d.events : f.sequence = e.sequence => f = e
BY DEF Sound, Linked

LEMMA StepInv == Inv /\ [Next]_vars => Inv'
<1> SUFFICES ASSUME Inv, [Next]_vars PROVE Inv'
  OBVIOUS
<1> USE AuditAssumption, RestoreAssumption DEF script, chain, Fault
<1>1. CASE UNCHANGED vars
  <2>1. UNCHANGED <<chain, codes, script, view, snapshot, disasters>>
    BY <1>1 DEF vars
  <2>2. RestoreTypeOK'
    BY <2>1 DEF Inv, RestoreTypeOK, TypeOK
  <2>3. RequestInv'
    BY <2>1, QuietInv
  <2>4. ScriptInv' /\ SnapshotInv'
    BY <2>1 DEF Inv, ScriptInv, SnapshotInv, Database
  <2> QED
    BY <2>2, <2>3, <2>4 DEF Inv
<1>2. CASE Serve
  BY <1>2, WorkInv DEF Serve
<1>3. CASE ReadLedger
  <2>1. RestoreTypeOK'
    BY <1>3 DEF ReadLedger, Inv, RestoreTypeOK, TypeOK
  <2>2. RequestInv'
    BY <1>3, QuietInv DEF ReadLedger
  <2>3. ScriptInv'
    BY <1>3 DEF ReadLedger, Inv, ScriptInv, Database
  <2>4. SnapshotInv'
    BY <1>3 DEF ReadLedger, Inv, ScriptInv, SnapshotInv
  <2> QED
    BY <2>1, <2>2, <2>3, <2>4 DEF Inv
<1>4. CASE ReadEvents
  <2>1. RestoreTypeOK'
    BY <1>4 DEF ReadEvents, Inv, RestoreTypeOK, TypeOK, ScriptInv
  <2>2. RequestInv'
    BY <1>4, QuietInv DEF ReadEvents
  <2>3. ScriptInv'
    BY <1>4 DEF ReadEvents, Inv, ScriptInv, Database
  <2>4. SnapshotInv'
    BY <1>4 DEF ReadEvents, Inv, SnapshotInv
  <2> QED
    BY <2>1, <2>2, <2>3, <2>4 DEF Inv
<1>5. CASE Disaster
  <2>1. RestoreTypeOK'
    <3>1. codes' \in BOOLEAN
      BY <1>5, Zenon DEF Disaster
    <3> QED
      BY <1>5, <3>1 DEF Disaster, Inv, RestoreTypeOK, TypeOK, NoTail
  <2>2. RequestInv'
    BY <1>5 DEF Disaster, Inv, RequestInv, Place, RestoreTypeOK, TypeOK
  <2>3. ScriptInv'
    BY <1>5 DEF Disaster, Inv, ScriptInv, InFlight, RestoreTypeOK, TypeOK
  <2>4. SnapshotInv'
    BY <1>5 DEF Disaster, Inv, SnapshotInv
  <2> QED
    BY <2>1, <2>2, <2>3, <2>4 DEF Inv
<1>6. ASSUME UNCHANGED <<codes, events, changed, pc, tail, holder, tries, view, snapshot, disasters>>,
             phase # "serving", phase' # "serving", ScriptInv',
             off' \subseteq 1..Triggers, at' \in 1..Triggers, ok' \in BOOLEAN,
             phase' \in {"lost", "suspending", "people", "ledger", "loading", "arming", "exited"},
             loop' \in {"none", "people", "ledger", "loading"},
             toLoad' \subseteq snapshot.events, faults' \in 0..MaxFaults
      PROVE  Inv'
  <2>1. RequestInv'
    BY <1>6, QuietInv
  <2>2. RestoreTypeOK' /\ SnapshotInv'
    BY <1>6 DEF Inv, RestoreTypeOK, TypeOK, SnapshotInv
  <2> QED
    BY <1>6, <2>1, <2>2 DEF Inv
<1> USE DEF Inv, RestoreTypeOK, TypeOK, ScriptInv, Database
<1>7. CASE StartRestore
  <2>1. /\ UNCHANGED <<codes, events, changed, pc, tail, holder, tries, view, snapshot, disasters>>
        /\ phase # "serving" /\ faults' \in 0..MaxFaults
        /\ phase' = "suspending" /\ toLoad' = {} /\ off' \subseteq 1..Triggers /\ at' \in 1..Triggers
    BY <1>7 DEF StartRestore
  <2>2. ScriptInv'
    BY <1>7, <2>1 DEF StartRestore
  <2>3. ok' \in BOOLEAN
    BY <1>7, Zenon DEF StartRestore
  <2> QED
    BY <1>6, <2>1, <2>2, <2>3
<1>8. CASE Suspend
  <2>1. /\ UNCHANGED <<codes, events, changed, pc, tail, holder, tries, view, snapshot, disasters, toLoad>>
        /\ phase # "serving" /\ faults' \in 0..MaxFaults
        /\ phase' \in {"suspending", "people"}
    BY <1>8 DEF Suspend
  <2>2. off' \subseteq 1..Triggers /\ at' \in 1..Triggers
    BY <1>8 DEF Suspend
  <2>3. ScriptInv'
    BY <1>8, <2>1 DEF Suspend
  <2>4. ok' \in BOOLEAN
    BY <1>8, Zenon DEF Suspend
  <2> QED
    BY <1>6, <2>1, <2>2, <2>3, <2>4
<1>9. CASE StopSuspending
  <2>1. /\ UNCHANGED <<codes, events, changed, pc, tail, holder, tries, view, snapshot, disasters, toLoad>>
        /\ phase # "serving" /\ faults' \in 0..MaxFaults
        /\ phase' \in {"exited"}
    BY <1>9 DEF StopSuspending
  <2>2. off' \subseteq 1..Triggers /\ at' \in 1..Triggers
    BY <1>9 DEF StopSuspending
  <2>3. ScriptInv'
    BY <1>9, <2>1 DEF StopSuspending
  <2>4. ok' \in BOOLEAN
    BY <1>9, Zenon DEF StopSuspending
  <2> QED
    BY <1>6, <2>1, <2>2, <2>3, <2>4
<1>10. CASE LoadEnds
  <2>1. /\ events = snapshot.events /\ changed = snapshot.changed /\ snapshot # NoSnapshot
        /\ snapshot.codes = FALSE /\ codes = FALSE /\ toLoad = {}
    BY <1>10 DEF LoadEnds
  <2>2. snapshot = [events |-> events, changed |-> changed, codes |-> FALSE] /\ codes = FALSE
    BY <2>1 DEF SnapshotInv, Sound
  <2>3. /\ UNCHANGED <<codes, events, changed, pc, tail, holder, tries, view, snapshot, disasters, toLoad>>
        /\ phase # "serving" /\ faults' \in 0..MaxFaults /\ ok' = ok
        /\ phase' = "arming" /\ off' = off /\ at' = 1 /\ loop' = loop
        /\ off' \subseteq 1..Triggers /\ at' \in 1..Triggers /\ toLoad' \subseteq snapshot.events
    BY <1>10 DEF LoadEnds, GoArm
  <2>4. ok' \in BOOLEAN
    BY <1>10, Zenon DEF LoadEnds
  <2>5. ScriptInv'
    BY <2>1, <2>2, <2>3
  <2> QED
    BY <1>6, <2>3, <2>4, <2>5
<1>11. CASE LoadStops
  <2>1. /\ UNCHANGED <<codes, events, changed, pc, tail, holder, tries, view, snapshot, disasters, toLoad>>
        /\ phase # "serving" /\ faults' \in 0..MaxFaults
        /\ phase' \in {"arming"} /\ loop' = loop
    BY <1>11 DEF LoadStops, GoArm
  <2>2. off' \subseteq 1..Triggers /\ at' \in 1..Triggers
    BY <1>11 DEF LoadStops, GoArm
  <2>3. ScriptInv'
    BY <1>11, <2>1 DEF LoadStops, GoArm
  <2>4. ok' \in BOOLEAN
    BY <1>11, Zenon DEF LoadStops
  <2> QED
    BY <1>6, <2>1, <2>2, <2>3, <2>4
<1>20. CASE Interrupt
  <2>1. /\ UNCHANGED <<codes, events, changed, pc, tail, holder, tries, view, snapshot, disasters, toLoad>>
        /\ phase # "serving" /\ faults' \in 0..MaxFaults
        /\ phase' \in {"arming"}
        /\ loop' \in {"none", "people", "ledger", "loading"}
    BY <1>20 DEF Interrupt, GoArm
  <2>2. off' \subseteq 1..Triggers /\ at' \in 1..Triggers
    BY <1>20 DEF Interrupt, GoArm
  <2>3. ScriptInv'
    BY <1>20, <2>1 DEF Interrupt, GoArm
  <2>4. ok' \in BOOLEAN
    BY <1>20, Zenon DEF Interrupt
  <2> QED
    BY <1>6, <2>1, <2>2, <2>3, <2>4
<1>21. CASE InterruptedLoadEnds
  <2>1. ScriptInv'
    BY <1>21 DEF InterruptedLoadEnds
  <2> QED
    BY <1>6, <1>21, <2>1 DEF InterruptedLoadEnds
<1>12. CASE Arm
  <2>1. /\ UNCHANGED <<codes, events, changed, pc, tail, holder, tries, view, snapshot, disasters, toLoad>>
        /\ phase = "arming" /\ faults' \in 0..MaxFaults
        /\ phase' \in {"arming", "exited"}
        /\ loop' \in {loop, "none"} /\ (phase' = "exited" => loop' = "none")
    BY <1>12 DEF Arm
  <2>2. \/ off' = off \ {at} /\ ok' = ok
        \/ ok' = FALSE /\ off' = off
    BY <1>12 DEF Arm
  <2>3. \/ at = Triggers /\ phase' = "exited" /\ at' = 1
        \/ at # Triggers /\ phase' = "arming" /\ at' = at + 1
    BY <1>12 DEF Arm
  <2>4. off \subseteq 1..Triggers /\ at \in 1..Triggers /\ Triggers \in Nat \ {0}
    OBVIOUS
  <2>5. off' \subseteq 1..Triggers /\ at' \in 1..Triggers
    <3> HIDE DEF Inv
    <3>1. off' \subseteq off
      BY <2>2
    <3>2. at' \in 1..Triggers
      BY <2>4, <2>3
    <3> QED
      BY <2>4, <3>1, <3>2
  <2>6. ok' \in BOOLEAN
    BY <2>2, Zenon
  <2>7. ok' => ok /\ off \subseteq at..Triggers /\ off' = off \ {at}
    BY <2>1, <2>2
  <2>8. ASSUME off \subseteq at..Triggers, off' = off \ {at}, at' = at + 1
         PROVE  off' \subseteq at'..Triggers
    <3> HIDE DEF Inv
    <3> QED
      BY <2>4, <2>8
  <2>9. ASSUME off \subseteq at..Triggers, off' = off \ {at}, at = Triggers
         PROVE  off' = {}
    <3> HIDE DEF Inv
    <3> QED
      BY <2>4, <2>9
  <2>10. ok' /\ phase' = "arming" => off' \subseteq at'..Triggers
    BY <2>3, <2>7, <2>8, Zenon
  <2>11. ok' /\ phase' = "exited" => off' = {}
    BY <2>3, <2>7, <2>9, Zenon
  <2>12. ScriptInv'
    BY <2>1, <2>7, <2>10, <2>11
  <2> QED
    BY <1>6, <2>1, <2>5, <2>6, <2>12
<1>13. CASE Killed
  <2>1. /\ UNCHANGED <<codes, events, changed, pc, tail, holder, tries, view, snapshot, disasters, toLoad>>
        /\ phase # "serving" /\ faults' \in 0..MaxFaults
        /\ phase' \in {"exited"}
    BY <1>13 DEF Killed
  <2>2. off' \subseteq 1..Triggers /\ at' \in 1..Triggers
    BY <1>13 DEF Killed
  <2>3. ScriptInv'
    BY <1>13, <2>1 DEF Killed
  <2>4. ok' \in BOOLEAN
    BY <1>13, Zenon DEF Killed
  <2> QED
    BY <1>6, <2>1, <2>2, <2>3, <2>4
<1>14. CASE GoLive
  <2>1. Sound(Database)
    BY <1>14 DEF GoLive, SnapshotInv
  <2>2. RequestInv'
    BY <1>14, QuietInv DEF GoLive
  <2> QED
    BY <1>14, <2>1, <2>2 DEF GoLive, SnapshotInv, Sound
<1>15. CASE LoadLedger
  <2>1. /\ UNCHANGED <<codes, events, pc, tail, holder, tries, faults, off, at, ok, view, snapshot, disasters>>
        /\ changed' = changed \cup snapshot.changed /\ toLoad' = snapshot.events
        /\ \/ phase = "ledger" /\ phase' = "loading" /\ loop' = loop
           \/ phase = "arming" /\ phase' = "arming" /\ loop = "ledger" /\ loop' = "loading"
    BY <1>15 DEF LoadLedger, LoadIsAt, LoadGoesTo
  <2>2. RequestInv'
    BY <2>1, QuietInv
  <2>3. Sound(snapshot)
    BY <2>1 DEF SnapshotInv
  <2>4. changed' = snapshot.changed /\ snapshot.changed \subseteq Requests
    BY <2>1, <2>3 DEF Sound
  <2>5. ok' \in BOOLEAN /\ codes' \in BOOLEAN
    BY <2>1, Zenon
  <2>6. RestoreTypeOK'
    BY <2>1, <2>4, <2>5
  <2>7. ScriptInv'
    BY <2>1, <2>4
  <2> QED
    BY <2>1, <2>2, <2>6, <2>7 DEF SnapshotInv
<1>16. CASE LoadRow
  <2>1. PICK e \in toLoad :
          /\ toLoad' = toLoad \ {e}
          /\ events' = IF \E f \in events : f.sequence = e.sequence THEN events ELSE events \cup {e}
    BY <1>16 DEF LoadRow
  <2>2. Sound(snapshot) /\ e \in snapshot.events /\ events \subseteq snapshot.events
    BY <1>16, <2>1 DEF LoadRow, SnapshotInv
  <2>3. events' = events \cup {e}
    BY <2>1, <2>2, PartOfChain
  <2>4. RequestInv'
    BY <1>16, <2>3, QuietInv DEF LoadRow
  <2>5. \A f \in events' : /\ f = Seal(f.request, f.previousHash, f.sequence)
                           /\ f.sequence \in Nat \ {0} /\ f.request \in Requests
    BY <2>2, <2>3, PartOfChain
  <2>6. RestoreTypeOK'
    BY <1>16, <2>1, <2>5 DEF LoadRow
  <2>7. ScriptInv'
    BY <1>16, <2>1, <2>2, <2>3 DEF LoadRow
  <2> QED
    BY <1>16, <2>4, <2>6, <2>7 DEF LoadRow, SnapshotInv
<1>17. CASE GenerateCodes
  <2>1. RequestInv'
    BY <1>17, QuietInv DEF GenerateCodes
  <2>2. Sound(Database)'
    BY <1>17 DEF GenerateCodes, Sound
  <2>3. codes' \in BOOLEAN
    BY <1>17, Zenon DEF GenerateCodes
  <2> QED
    BY <1>17, <2>1, <2>2, <2>3 DEF GenerateCodes, SnapshotInv
<1>18. CASE LoadPeople
  <2>1. /\ UNCHANGED <<chain, codes, off, at, toLoad, ok, view, snapshot, disasters>>
        /\ ~snapshot.codes
        /\ \/ phase = "people" /\ phase' = "ledger" /\ loop' = loop
           \/ phase = "arming" /\ phase' = "arming" /\ loop = "people" /\ loop' = "ledger"
    BY <1>18 DEF LoadPeople, LoadIsAt, LoadGoesTo
  <2>2. snapshot.codes = FALSE
    BY <2>1 DEF SnapshotInv, Sound
  <2>3. ScriptInv'
    BY <2>1, <2>2
  <2>4. ok' \in BOOLEAN
    BY <2>1, Zenon
  <2> QED
    BY <1>6, <2>1, <2>3, <2>4
<1>19. CASE RefuseCodes
  <2>1. ok' \in BOOLEAN
    BY <1>19, Zenon DEF RefuseCodes
  <2>2. ScriptInv'
    BY <1>19 DEF RefuseCodes, GoArm
  <2>3. /\ UNCHANGED <<codes, events, changed, pc, tail, holder, tries, view, snapshot, disasters, toLoad>>
        /\ phase # "serving" /\ faults' \in 0..MaxFaults
        /\ phase' = "arming" /\ off' = off /\ at' = 1 /\ loop' = loop
        /\ off' \subseteq 1..Triggers /\ at' \in 1..Triggers /\ toLoad' \subseteq snapshot.events
    BY <1>19 DEF RefuseCodes, GoArm
  <2> QED
    BY <1>6, <2>1, <2>2, <2>3
<1> QED
  BY <1>1, <1>2, <1>3, <1>4, <1>5, <1>7, <1>8, <1>9, <1>10, <1>11, <1>12, <1>13, <1>14, <1>15, <1>16, <1>17, <1>18, <1>19,
     <1>20, <1>21
  DEF Next, Script

LEMMA Invariance == RestoreSpec => []Inv
BY InitInv, StepInv, PTL DEF RestoreSpec

(* Every variable keeps its type, and a retried job its deliveries.        *)
THEOREM TypeCorrect == RestoreSpec => []RestoreTypeOK
BY Invariance, PTL DEF Inv

(* The log of a live database verifies from any event to any other.        *)
THEOREM ChainAlwaysVerifies == RestoreSpec => []LiveChainVerifies
<1>1. Inv => LiveChainVerifies
  BY ChainOfLinked DEF Inv, ScriptInv, Sound, Database, LiveChainVerifies
<1> QED
  BY <1>1, Invariance, PTL

(* A change of a transaction that records it is in the log, and what the   *)
(* log tells happened, also after a recovery.                              *)
THEOREM RecordedTogether == RestoreSpec => []LiveRecordedWithChange
<1>1. Inv => LiveRecordedWithChange
  BY DEF Inv, ScriptInv, Sound, Database, LiveRecordedWithChange, RecordedWithChange, Recorded, Requests
<1> QED
  BY <1>1, Invariance, PTL

(* A restore that reports success has loaded the whole snapshot and left   *)
(* no trigger suspended, whatever interrupted the attempts before it.      *)
THEOREM RestoreComplete == RestoreSpec => []RestoredIsWhole
<1>1. Inv => RestoredIsWhole
  BY DEF Inv, ScriptInv, RestoredIsWhole
<1> QED
  BY <1>1, Invariance, PTL
-----------------------------------------------------------------------------
(* The log an auditor sees (AuditLog).  Its positions are the sequences of *)
(* the rows, so a set of rows is a log when they are numbered without a    *)
(* gap, and it is one of what was done when every request in it recorded.  *)
Counted(rows) ==
  /\ IsFiniteSet(rows)
  /\ \A e \in rows : e.sequence \in 1..Cardinality(rows)
  /\ \A k \in 1..Cardinality(rows) : \E e \in rows : e.sequence = k
  /\ \A e, f \in rows : e.sequence = f.sequence \/ e.request = f.request => e = f

Past(rows) == Counted(rows) /\ \A e \in rows : e.request \in Requests /\ pc[e.request] = "recorded"

(* The snapshot is a part of the one under way, and that of the live log:  *)
(* nothing leaves the log while it is live.                                *)
LogInv ==
  /\ phase = "serving" => Past(events)
  /\ view # NoSnapshot => phase = "serving" /\ Past(view.events) /\ view.events \subseteq events
  /\ snapshot # NoSnapshot =>
       /\ Past(snapshot.events)
       /\ phase = "serving" => snapshot.events \subseteq events
       /\ view # NoSnapshot => snapshot.events \subseteq view.events

\* A counted set of rows is a sequence, of the request of the row at each place.
LEMMA OrderedRows ==
  ASSUME NEW rows, Counted(rows)
  PROVE  /\ Cardinality(rows) \in Nat
         /\ DOMAIN InOrder(rows) = 1..Cardinality(rows)
         /\ \A e \in rows : e.sequence \in DOMAIN InOrder(rows) /\ InOrder(rows)[e.sequence] = e.request
         /\ \A k \in DOMAIN InOrder(rows) : \E e \in rows : e.sequence = k /\ InOrder(rows)[k] = e.request
         /\ \A S : (\A e \in rows : e.request \in S) => InOrder(rows) \in Seq(S)
         /\ Len(InOrder(rows)) = Cardinality(rows)
<1> DEFINE n == Cardinality(rows)
           At(k) == CHOOSE e \in rows : e.sequence = k
<1>1. n \in Nat
  BY FS_CardinalityType DEF Counted
<1>2. InOrder(rows) = [k \in 1..n |-> At(k).request]
  BY DEF InOrder
<1>3. \A e \in rows : e.sequence \in 1..n /\ At(e.sequence) = e
  BY DEF Counted
<1>4. \A k \in 1..n : At(k) \in rows /\ At(k).sequence = k
  BY DEF Counted
<1> HIDE DEF n, At
<1>5. \A S : (\A e \in rows : e.request \in S) => InOrder(rows) \in Seq(S)
  BY <1>1, <1>2, <1>4
<1>6. Len(InOrder(rows)) = n
  BY <1>1, <1>2
<1> QED
  BY <1>1, <1>2, <1>3, <1>4, <1>5, <1>6 DEF n

\* The row after the end makes the log longer by its request.
LEMMA OrderedAppend ==
  ASSUME NEW rows, Counted(rows), NEW row, row.sequence = Cardinality(rows) + 1,
         \A e \in rows : e.request # row.request
  PROVE  /\ Counted(rows \cup {row})
         /\ InOrder(rows \cup {row}) = Append(InOrder(rows), row.request)
<1> DEFINE n == Cardinality(rows)
           more == rows \cup {row}
<1>1. n \in Nat /\ \A e \in rows : e.sequence \in 1..n
  BY OrderedRows DEF Counted
<1>2. row \notin rows
  BY <1>1
<1>3. IsFiniteSet(more) /\ Cardinality(more) = n + 1
  BY <1>2, FS_AddElement DEF Counted
<1>4. Counted(more)
  <2>1. \A e \in more : e.sequence \in 1..(n + 1)
    BY <1>1
  <2>2. \A k \in 1..(n + 1) : k \in 1..n \/ k = row.sequence
    BY <1>1
  <2>3. \A k \in 1..(n + 1) : \E e \in more : e.sequence = k
    BY <2>2 DEF Counted
  <2>4. \A e, f \in more : e.sequence = f.sequence \/ e.request = f.request => e = f
    BY <1>1 DEF Counted
  <2> QED
    BY <1>3, <2>1, <2>3, <2>4 DEF Counted
<1>5. \A k \in 1..(n + 1) : InOrder(more)[k] = IF k = n + 1 THEN row.request ELSE InOrder(rows)[k]
  <2> SUFFICES ASSUME NEW k \in 1..(n + 1)
               PROVE  InOrder(more)[k] = IF k = n + 1 THEN row.request ELSE InOrder(rows)[k]
    OBVIOUS
  <2>1. CASE k = n + 1
    BY <1>4, <2>1, OrderedRows
  <2>2. CASE k # n + 1
    <3>1. k \in 1..n
      BY <1>1, <2>2
    <3>2. PICK e \in rows : e.sequence = k /\ InOrder(rows)[k] = e.request
      BY <3>1, OrderedRows
    <3>3. e \in more
      BY <3>2
    <3>4. \A f \in more : InOrder(more)[f.sequence] = f.request
      BY <1>4, OrderedRows
    <3>5. InOrder(more)[k] = e.request
      BY <3>2, <3>3, <3>4
    <3> QED
      BY <2>2, <3>2, <3>5
  <2> QED
    BY <2>1, <2>2
<1> DEFINE R == {e.request : e \in more}
<1>6. /\ InOrder(rows) \in Seq(R) /\ Len(InOrder(rows)) = n
      /\ InOrder(more) \in Seq(R) /\ Len(InOrder(more)) = n + 1 /\ row.request \in R
  BY <1>3, <1>4, OrderedRows
<1>7. /\ Append(InOrder(rows), row.request) \in Seq(R)
      /\ Len(Append(InOrder(rows), row.request)) = n + 1
      /\ \A k \in 1..(n + 1) : Append(InOrder(rows), row.request)[k]
                                 = IF k = n + 1 THEN row.request ELSE InOrder(rows)[k]
  BY <1>1, <1>6
<1> HIDE DEF n, more, R
<1>8. InOrder(more) = Append(InOrder(rows), row.request)
  <2>1. \A k \in 1..Len(InOrder(more)) : InOrder(more)[k] = Append(InOrder(rows), row.request)[k]
    BY <1>1, <1>5, <1>6, <1>7
  <2> QED
    BY <1>6, <1>7, <2>1, SeqEqual
<1> QED
  BY <1>4, <1>8 DEF more

\* A part of a log that is itself a log is its beginning.
LEMMA OrderedPart ==
  ASSUME NEW rows, Counted(rows), NEW part, Counted(part), part \subseteq rows
  PROVE  /\ Cardinality(part) <= Cardinality(rows)
         /\ InOrder(part) = SubSeq(InOrder(rows), 1, Cardinality(part))
<1> DEFINE m == Cardinality(part)
           R == {e.request : e \in rows}
<1>1. m \in Nat /\ Cardinality(rows) \in Nat
  BY OrderedRows
<1>2. m <= Cardinality(rows)
  BY FS_Subset DEF Counted
<1>3. \A k \in 1..m : InOrder(part)[k] = InOrder(rows)[k]
  <2> SUFFICES ASSUME NEW k \in 1..m  PROVE InOrder(part)[k] = InOrder(rows)[k]
    OBVIOUS
  <2>1. \A j \in 1..m : \E e \in part : e.sequence = j /\ InOrder(part)[j] = e.request
    BY OrderedRows
  <2>2. PICK e \in part : e.sequence = k /\ InOrder(part)[k] = e.request
    BY <2>1
  <2>3. \A f \in rows : InOrder(rows)[f.sequence] = f.request
    BY OrderedRows
  <2> QED
    BY <2>2, <2>3
<1>4. /\ InOrder(rows) \in Seq(R) /\ Len(InOrder(rows)) = Cardinality(rows)
      /\ InOrder(part) \in Seq(R) /\ Len(InOrder(part)) = m
  BY OrderedRows
<1>5. /\ SubSeq(InOrder(rows), 1, m) \in Seq(R) /\ Len(SubSeq(InOrder(rows), 1, m)) = m
      /\ \A k \in 1..m : SubSeq(InOrder(rows), 1, m)[k] = InOrder(rows)[k]
  BY <1>1, <1>2, <1>4
<1> HIDE DEF m, R
<1>6. InOrder(part) = SubSeq(InOrder(rows), 1, m)
  <2>1. \A k \in 1..Len(InOrder(part)) : InOrder(part)[k] = SubSeq(InOrder(rows), 1, m)[k]
    BY <1>3, <1>4, <1>5
  <2> QED
    BY <1>4, <1>5, <2>1, SeqEqual
<1> QED
  BY <1>2, <1>6 DEF m

\* The end of a live log has the number of its rows.
LEMMA TailIsCount ==
  ASSUME Linked(events), Counted(events)
  PROVE  LastRow.sequence = Cardinality(events)
<1>1. CASE events = {}
  BY <1>1, FS_EmptySet DEF LastRow, NoTail
<1>2. CASE events # {}
  <2>1. PICK e \in events : IsLast(e) /\ LastRow = [sequence |-> e.sequence, eventHash |-> e.eventHash]
    BY <1>2, TailIsLast
  <2>2. Cardinality(events) \in Nat /\ e.sequence \in 1..Cardinality(events)
    BY OrderedRows DEF Counted
  <2>3. PICK f \in events : f.sequence = Cardinality(events)
    BY <2>2 DEF Counted
  <2>4. f.sequence <= e.sequence
    BY <2>1 DEF IsLast
  <2> QED
    BY <2>1, <2>2, <2>3, <2>4
<1> QED
  BY <1>1, <1>2

\* What was recorded stays recorded, so a log of the past stays one.
LEMMA PastStays ==
  ASSUME NEW rows, Past(rows), \A r \in Requests : pc[r] = "recorded" => pc'[r] = "recorded"
  PROVE  /\ Counted(rows)
         /\ \A e \in rows : e.request \in Requests /\ pc'[e.request] = "recorded"
BY DEF Past

\* A commit adds the row after the end, of a request that is not in the log.
LEMMA CommitAppends ==
  ASSUME Inv, LogInv, phase = "serving", NEW r \in Requests, Commit(r)
  PROVE  /\ Past(events)'
         /\ InOrder(events') = Append(InOrder(events), r)
         /\ \A e \in events : e.request # r
<1>1. Linked(events) /\ Past(events) /\ Counted(events)
  BY DEF Inv, ScriptInv, Sound, Database, LogInv, Past
<1>2. pc[r] = "inserted" /\ tail[r] = LastRow /\ events' = events \cup {Row(r)} /\ pc' = [pc EXCEPT ![r] = "recorded"]
  BY DEF Commit, Goto, Inv, RequestInv
<1>3. Row(r).request = r /\ Row(r).sequence = Cardinality(events) + 1
  BY <1>1, <1>2, TailIsCount DEF Row, Seal
<1>4. \A e \in events : e.request # r
  BY <1>1, <1>2 DEF Past
<1>5. Counted(events') /\ InOrder(events') = Append(InOrder(events), r)
  BY <1>1, <1>2, <1>3, <1>4, OrderedAppend
<1>6. \A e \in events' : e.request \in Requests /\ pc'[e.request] = "recorded"
  BY <1>1, <1>2, <1>3 DEF Past, Inv, RestoreTypeOK, TypeOK
<1> QED
  BY <1>4, <1>5, <1>6 DEF Past

\* No other step of the application touches the log or takes back what was recorded.
LEMMA WorkLeavesPast ==
  ASSUME Inv, Work
  PROVE  /\ \A r \in Requests : pc[r] = "recorded" => pc'[r] = "recorded"
         /\ events' = events \/ \E r \in Requests : Commit(r)
<1>1. PICK r \in Requests : Begin(r) \/ Proceed(r) \/ Fail(r) \/ Retry(r)
  BY DEF Work
<1>2. pc[r] # "recorded" /\ \A q \in Requests \ {r} : pc'[q] = pc[q]
  BY <1>1 DEF Begin, Proceed, ReadTail, Insert, LoseRace, Commit, Refuse, Fail, Retry, Goto,
              Inv, RestoreTypeOK, TypeOK
<1>3. events' = events \/ Commit(r)
  BY <1>1 DEF Begin, Proceed, ReadTail, Insert, LoseRace, Refuse, Fail, Retry
<1> QED
  BY <1>2, <1>3

LEMMA LogInit == RestoreInit => LogInv
BY FS_EmptySet DEF RestoreInit, Init, LogInv, Past, Counted

LEMMA LogStep == ASSUME Inv, LogInv, [Next]_vars PROVE LogInv'
<1> USE DEF script, chain
<1>1. CASE Serve
  <2>1. phase = "serving" /\ Work /\ UNCHANGED <<phase, view, snapshot>>
    BY <1>1 DEF Serve
  <2>2. \A r \in Requests : pc[r] = "recorded" => pc'[r] = "recorded"
    BY <2>1, WorkLeavesPast
  <2>3. Past(events)' /\ events \subseteq events'
    <3>1. CASE events' = events
      BY <2>1, <2>2, <3>1, PastStays DEF LogInv, Past
    <3>2. ASSUME NEW r \in Requests, Commit(r)  PROVE Past(events)' /\ events \subseteq events'
      BY <2>1, <3>2, CommitAppends DEF Commit
    <3> QED
      BY <2>1, <3>1, <3>2, WorkLeavesPast
  <2>4. \A rows : Past(rows) => Counted(rows) /\ \A e \in rows : e.request \in Requests /\ pc'[e.request] = "recorded"
    BY <2>2, PastStays
  <2>5. view # NoSnapshot => Past(view.events)'
    BY <2>1, <2>4 DEF LogInv, Past
  <2>6. snapshot # NoSnapshot => Past(snapshot.events)'
    BY <2>1, <2>4 DEF LogInv, Past
  <2> QED
    BY <2>1, <2>3, <2>5, <2>6 DEF LogInv
<1>2. CASE GenerateCodes
  BY <1>2 DEF GenerateCodes, LogInv, Past
<1>3. CASE ReadLedger
  BY <1>3 DEF ReadLedger, Database, LogInv, Past
<1>4. CASE ReadEvents
  BY <1>4 DEF ReadEvents, LogInv, Past
<1>5. CASE Disaster
  <2>1. \A r \in Requests : pc[r] = "recorded" => pc'[r] = "recorded"
    BY <1>5 DEF Disaster, Inv, RestoreTypeOK, TypeOK
  <2>2. /\ phase = "serving" /\ phase' = "lost" /\ view' = NoSnapshot
        /\ snapshot # NoSnapshot /\ snapshot' = snapshot
    BY <1>5 DEF Disaster
  <2>3. Past(snapshot.events)'
    BY <2>1, <2>2, PastStays DEF LogInv, Past
  <2> QED
    BY <2>2, <2>3 DEF LogInv
<1>6. CASE GoLive
  <2>1. /\ phase = "exited" /\ phase' = "serving" /\ UNCHANGED <<events, pc, view, snapshot>>
        /\ Database = snapshot /\ snapshot # NoSnapshot
    BY <1>6 DEF GoLive, Inv, ScriptInv
  <2>2. snapshot.events = events
    BY <2>1 DEF Database
  <2> QED
    BY <2>1, <2>2 DEF LogInv, Past
<1>7. ASSUME phase # "serving", phase' # "serving", UNCHANGED <<pc, view, snapshot>>
      PROVE  LogInv'
  BY <1>7 DEF LogInv, Past
<1>8. CASE StartRestore \/ Suspend \/ LoadPeople \/ RefuseCodes \/ LoadLedger \/ LoadRow \/ LoadEnds \/ InterruptedLoadEnds \/ Arm
  <2>1. phase # "serving" /\ phase' # "serving" /\ UNCHANGED <<pc, view, snapshot>>
    BY <1>8 DEF StartRestore, Suspend, LoadPeople, RefuseCodes, LoadLedger, LoadRow, LoadEnds,
               InterruptedLoadEnds, Arm, GoArm, LoadIsAt, LoadGoesTo, Inv, ScriptInv
  <2> QED
    BY <1>7, <2>1
<1>9. CASE StopSuspending \/ LoadStops \/ Interrupt \/ Killed
  BY <1>7, <1>9 DEF StopSuspending, LoadStops, Interrupt, Killed, GoArm
<1>10. CASE UNCHANGED vars
  BY <1>10 DEF vars, LogInv, Past
<1> QED
  BY <1>1, <1>2, <1>3, <1>4, <1>5, <1>6, <1>8, <1>9, <1>10 DEF Next, Script

\* The log and what is kept of it, as Log sees them.
LogNow  == InOrder(IF phase = "serving" THEN events ELSE Keeps)
KeptNow == Cardinality(Keeps)

LEMMA KeepsIsLog == ASSUME LogInv PROVE Counted(Keeps)
BY FS_EmptySet DEF LogInv, Keeps, Past, Counted

\* A commit is Record, the end of a snapshot Keep, a lost database Recover;
\* every other step, those of a restore too, leaves the log as it is.
LEMMA LogStepMaps ==
  ASSUME Inv, LogInv, [Next]_vars
  PROVE  [Log!Record \/ Log!Keep \/ Log!Recover]_<<LogNow, KeptNow>>
<1> USE DEF script, chain, LogNow, KeptNow
<1>1. ASSUME phase = "serving", phase' = "serving", events' = events, snapshot' = snapshot
      PROVE  UNCHANGED <<LogNow, KeptNow>>
  BY <1>1 DEF Keeps
<1>2. ASSUME phase # "serving", phase' # "serving", snapshot' = snapshot
      PROVE  UNCHANGED <<LogNow, KeptNow>>
  BY <1>2 DEF Keeps
<1>3. CASE Serve
  <2>1. phase = "serving" /\ phase' = "serving" /\ snapshot' = snapshot /\ Work
    BY <1>3 DEF Serve
  <2>2. CASE events' = events
    BY <1>1, <2>1, <2>2
  <2>3. ASSUME NEW r \in Requests, Commit(r)  PROVE Log!Record
    <3>1. LogNow = InOrder(events) /\ LogNow' = Append(LogNow, r) /\ KeptNow' = KeptNow
      BY <2>1, <2>3, CommitAppends DEF Keeps
    <3>2. Counted(events) /\ \A e \in events : e.request # r
      BY <2>1, <2>3, CommitAppends DEF LogInv, Past
    <3>3. \A i \in DOMAIN LogNow : LogNow[i] # r
      BY <3>1, <3>2, OrderedRows
    <3> QED
      BY <3>1, <3>3 DEF Log!Record
  <2> QED
    BY <2>1, <2>2, <2>3, WorkLeavesPast
<1>4. CASE GenerateCodes
  BY <1>1, <1>4 DEF GenerateCodes
<1>5. CASE ReadLedger
  BY <1>1, <1>5 DEF ReadLedger
<1>6. CASE ReadEvents
  <2>1. /\ phase = "serving" /\ phase' = "serving" /\ events' = events /\ view # NoSnapshot /\ snapshot' = view
    BY <1>6 DEF ReadEvents
  <2>2. Counted(events) /\ Counted(view.events) /\ view.events \subseteq events
    BY <2>1 DEF LogInv, Past
  <2>3. Keeps' = view.events /\ Keeps \subseteq view.events /\ Counted(Keeps)
    BY <2>1, KeepsIsLog DEF Keeps, LogInv
  <2>4. Cardinality(Keeps) <= Cardinality(view.events) /\ Cardinality(view.events) <= Cardinality(events)
    BY <2>2, <2>3, OrderedPart
  <2>5. /\ Cardinality(Keeps) \in Nat /\ Cardinality(view.events) \in Nat /\ Cardinality(events) \in Nat
        /\ Len(InOrder(events)) = Cardinality(events)
    BY <2>2, <2>3, OrderedRows
  <2>6. LogNow' = LogNow /\ KeptNow' \in KeptNow..Len(LogNow)
    BY <2>1, <2>3, <2>4, <2>5
  <2> QED
    BY <2>6 DEF Log!Keep
<1>7. CASE Disaster
  <2>1. /\ phase = "serving" /\ phase' = "lost" /\ snapshot # NoSnapshot /\ snapshot' = snapshot
    BY <1>7 DEF Disaster
  <2>2. Counted(events) /\ Counted(Keeps) /\ Keeps \subseteq events /\ Keeps' = Keeps
    BY <2>1, KeepsIsLog DEF LogInv, Past, Keeps
  <2>3. InOrder(Keeps) = SubSeq(InOrder(events), 1, Cardinality(Keeps))
    BY <2>2, OrderedPart
  <2>4. LogNow' = SubSeq(LogNow, 1, KeptNow) /\ KeptNow' = KeptNow
    BY <2>1, <2>2, <2>3
  <2> QED
    BY <2>4 DEF Log!Recover
<1>8. CASE GoLive
  <2>1. /\ phase = "exited" /\ phase' = "serving" /\ UNCHANGED <<events, snapshot>>
        /\ Database = snapshot /\ snapshot # NoSnapshot
    BY <1>8 DEF GoLive, Inv, ScriptInv
  <2>2. Keeps = events /\ Keeps' = events
    BY <2>1 DEF Database, Keeps
  <2> QED
    BY <2>1, <2>2
<1>9. CASE StartRestore \/ Suspend \/ LoadPeople \/ RefuseCodes \/ LoadLedger \/ LoadRow \/ LoadEnds \/ InterruptedLoadEnds \/ Arm
  <2>1. phase # "serving" /\ phase' # "serving" /\ UNCHANGED <<pc, view, snapshot>>
    BY <1>9 DEF StartRestore, Suspend, LoadPeople, RefuseCodes, LoadLedger, LoadRow, LoadEnds,
               InterruptedLoadEnds, Arm, GoArm, LoadIsAt, LoadGoesTo, Inv, ScriptInv
  <2> QED
    BY <1>2, <2>1
<1>10. CASE StopSuspending \/ LoadStops \/ Interrupt \/ Killed
  BY <1>2, <1>10 DEF StopSuspending, LoadStops, Interrupt, Killed, GoArm
<1>11. CASE UNCHANGED vars
  BY <1>11 DEF vars, Keeps
<1> QED
  BY <1>3, <1>4, <1>5, <1>6, <1>7, <1>8, <1>9, <1>10, <1>11 DEF Next, Script

(* Restore implements AuditLog: whatever requests race and fail and however *)
(* often the database is lost, the log of a live one grows at its end by    *)
(* one event per request, and goes back to nothing but its last snapshot.   *)
THEOREM LogRefines == RestoreSpec => LogIsAppendOnly
<1>1. RestoreInit => Log!Init
  <2> SUFFICES ASSUME RestoreInit  PROVE Log!Init
    OBVIOUS
  <2>1. events = {} /\ Keeps = {} /\ Cardinality({}) = 0
    BY FS_EmptySet DEF RestoreInit, Init, Keeps
  <2>2. InOrder({}) = <<>>
    BY <2>1 DEF InOrder
  <2> QED
    BY <2>1, <2>2 DEF Log!Init
<1>2. RestoreSpec => [](Inv /\ LogInv)
  <2>1. RestoreInit => Inv /\ LogInv
    BY InitInv, LogInit
  <2>2. (Inv /\ LogInv) /\ [Next]_vars => (Inv /\ LogInv)'
    BY StepInv, LogStep
  <2> QED
    BY <2>1, <2>2, PTL DEF RestoreSpec
<1>3. (Inv /\ LogInv) /\ [Next]_vars => [Log!Record \/ Log!Keep \/ Log!Recover]_<<LogNow, KeptNow>>
  BY LogStepMaps
<1> QED
  BY <1>1, <1>2, <1>3, PTL DEF RestoreSpec, LogIsAppendOnly, Log!Spec, LogNow, KeptNow
=============================================================================
