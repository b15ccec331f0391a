------------------------------ MODULE Archive -------------------------------
(***************************************************************************)
(* What backups and retention promise together, without consumers,         *)
(* deliveries, storage calls or settings: an archive that gains a backup   *)
(* when its attempt is recorded as a success, loses one only beyond the    *)
(* retention count, and says of one that it is gone only when it is.       *)
(* Backup implements it (Backup!ImplementsArchive).                        *)
(***************************************************************************)
EXTENDS Naturals, FiniteSets

CONSTANTS
  Refs,        \* references of the attempts
  Retentions   \* retention counts an administrator may set

VARIABLES
  began,      \* when a recorded attempt started
  recorded,   \* attempts recorded as successful
  failed,     \* attempts recorded as failed
  held,       \* successful attempts whose object can be restored
  marked      \* attempts said to be no longer restorable

vars == <<began, recorded, failed, held, marked>>

Init ==
  /\ began = [r \in Refs |-> 0]
  /\ recorded = {} /\ failed = {} /\ held = {} /\ marked = {}

\* As many successes started after r as some retention count asks to keep.
Beyond(r) ==
  \E k \in Retentions : Cardinality({s \in recorded : began[s] > began[r]}) >= k

\* A success is recorded once its object can be restored.
Record(r) ==
  /\ r \notin recorded \cup failed
  /\ recorded' = recorded \cup {r} /\ held' = held \cup {r}
  /\ began' \in [Refs -> Nat] /\ \A s \in Refs \ {r} : began'[s] = began[s]
  /\ UNCHANGED <<failed, marked>>

\* An attempt has one outcome.
Fail(r) ==
  /\ r \notin recorded \cup failed
  /\ failed' = failed \cup {r}
  /\ UNCHANGED <<began, recorded, held, marked>>

\* Only what lies beyond the limit is deleted ...
Drop(r) ==
  /\ r \in held /\ Beyond(r)
  /\ held' = held \ {r}
  /\ UNCHANGED <<began, recorded, failed, marked>>

\* ... and only what is deleted is marked.
Mark(r) ==
  /\ r \in recorded \ held
  /\ marked' = marked \cup {r}
  /\ UNCHANGED <<began, recorded, failed, held>>

Next == \E r \in Refs : Record(r) \/ Fail(r) \/ Drop(r) \/ Mark(r)

Spec == Init /\ [][Next]_vars
=============================================================================
