------------------------------ MODULE TxnState ------------------------------
(***************************************************************************)
(* The transaction execution state machine: the edges a transaction row    *)
(* may follow and the evidence an edge needs (packages/core/src/           *)
(* txn-state.ts), with the storage-layer guard that backs it               *)
(* (guard_transaction_update in db/migrations/0003).  No variables: the    *)
(* modules that own a ledger use these operators in their actions.         *)
(***************************************************************************)

TxnStates == {"PENDING", "SUBMITTED", "AWAITING_CALLBACK", "PROCESSING",
              "RECONCILING", "SUCCESS", "FAILED", "TIMEOUT", "CANCELLED"}

\* The outcome is final: no later message, retry or operator action rewrites it.
SettledStates == {"SUCCESS", "FAILED", "CANCELLED"}

\* The statuses the batch roll-up counts as still moving.  TIMEOUT is not one.
InFlight == {"PENDING", "SUBMITTED", "AWAITING_CALLBACK", "PROCESSING", "RECONCILING"}

\* The statuses the scheduled sweep picks up.
StuckStates == {"SUBMITTED", "AWAITING_CALLBACK", "PROCESSING", "TIMEOUT", "RECONCILING"}

Allowed ==
  [PENDING           |-> {"SUBMITTED", "FAILED", "CANCELLED"},
   SUBMITTED         |-> {"AWAITING_CALLBACK", "PROCESSING", "SUCCESS", "FAILED", "TIMEOUT"},
   AWAITING_CALLBACK |-> {"PROCESSING", "SUCCESS", "FAILED", "TIMEOUT", "RECONCILING"},
   PROCESSING        |-> {"SUCCESS", "FAILED", "TIMEOUT", "RECONCILING"},
   RECONCILING       |-> {"SUCCESS", "FAILED", "TIMEOUT"},
   TIMEOUT           |-> {"RECONCILING", "SUCCESS", "FAILED"},
   SUCCESS           |-> {},
   FAILED            |-> {},
   CANCELLED         |-> {}]

(***************************************************************************)
(* assertTxnTransition returns (TRUE) or throws (FALSE).  A repeated       *)
(* delivery of the same status is a no-op; SUCCESS needs a source that     *)
(* carries provider evidence and a receipt; FAILED needs a failure code.   *)
(***************************************************************************)
AssertTxnTransition(from, to, source, receipt, code) ==
  \/ from = to
  \/ /\ from \notin SettledStates
     /\ to \in Allowed[from]
     /\ to = "SUCCESS" => source # "SYSTEM" /\ receipt
     /\ to = "FAILED" => code

\* The trigger lets a row change unless it is settled; then neither its status nor the
\* evidence recorded with it (receipt, failure code) may change.
GuardTransactionUpdate(old, new, sameEvidence) ==
  old \in SettledStates => new = old /\ sameEvidence
=============================================================================
