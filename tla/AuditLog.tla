------------------------------- MODULE AuditLog -------------------------------
(***************************************************************************)
(* What an auditor is promised of the log of one organization              *)
(* (packages/core/src/audit.ts:1-15): events are added at its end, once    *)
(* each, and none is altered, removed or reordered.  The one exception is  *)
(* a recovery, which goes back to the log as it was at the last snapshot.  *)
(***************************************************************************)
EXTENDS Naturals, Sequences, FiniteSets

CONSTANT Requests

VARIABLES log, kept

Init == log = <<>> /\ kept = 0

Record ==
  \E r \in Requests :
    /\ \A i \in DOMAIN log : log[i] # r
    /\ log' = Append(log, r)
    /\ UNCHANGED kept

\* A snapshot keeps the log as it is, or as it was when the snapshot began.
Keep ==
  /\ kept' \in kept..Len(log)
  /\ UNCHANGED log

Recover ==
  /\ log' = SubSeq(log, 1, kept)
  /\ UNCHANGED kept

Spec == Init /\ [][Record \/ Keep \/ Recover]_<<log, kept>>
=============================================================================
