-------------------------- MODULE ExecutionProofs --------------------------
(***************************************************************************)
(* Theorems of Execution, for every number of instructions and consumers   *)
(* and every bound.  The safety properties follow from one inductive       *)
(* invariant, ExecInv, in four layers that each use the ones before:       *)
(*   TypeOK    types, and an idle consumer holds no message;               *)
(*   KnownInv  the claim and the ledger row say the same, and whoever is   *)
(*             past prepareSubmission finds both written;                  *)
(*   CallInv   one consumer is past prepareSubmission, before one request; *)
(*   TruthInv  what a row or a delivery says, M-PESA did.                  *)
(* On top of it stand, each inductive with the ones before:                *)
(*   RowInv      the statuses that rows reach (for EdgesOnly);             *)
(*   VerdictInv  what a roll-up has read or written stays true, because    *)
(*               settled rows are final;                                   *)
(*   CaseInv     what is unknown has its case, and a resolved case is true;*)
(*   AckInv      who acknowledges has found or written a row.              *)
(***************************************************************************)
EXTENDS Execution, TLAPS

\* The state releaseBatch commits is well typed.
LEMMA TypeInit == Init => TypeOK
  BY ExecutionAssumption DEF Init, TypeOK, TxnStates, Procs, Deliveries, JobRows

\* What the queue writes back is a row of its table.
LEMMA JobRowAfter ==
  ASSUME NEW j \in JobRows
  PROVE  JobAfterAck(j) \in JobRows /\ JobAfterRetry(j) \in JobRows
  BY ExecutionAssumption DEF JobRows, JobAfterAck, JobAfterRetry

\* The parts of TypeOK the callback handlers write.
CasesOK ==
  /\ rcase \in [Instructions -> {"NONE", "OPEN", "QUERYING", "RESOLVED_SUCCESS",
                                 "RESOLVED_FAILED", "ESCALATED"}]
  /\ tries \in [Instructions -> Nat]
  /\ refUsed \in [Instructions -> BOOLEAN]
  /\ flagged \in [Instructions -> BOOLEAN]

LedgerOK ==
  /\ instr \in [Instructions -> TxnStates]
  /\ claim \in [Instructions -> {"CLAIMED", "SUBMITTED", "SETTLED"}]
  /\ txn \in [Instructions -> TxnStates \cup {"NONE"}]

\* Opening a case, or finding it already there, leaves the case columns well typed.
LEMMA CaseTypes ==
  ASSUME TypeOK, NEW i \in Instructions, NEW b \in BOOLEAN, OpenReferencedCase(i, b)
  PROVE  CasesOK'
<1>1. CASE CanOpenReferenced(i)
  <2>1. /\ rcase' = [rcase EXCEPT ![i] = "OPEN"]
        /\ tries' = [tries EXCEPT ![i] = 0]
        /\ refUsed' = [refUsed EXCEPT ![i] = TRUE]
        /\ flagged' = [flagged EXCEPT ![i] = flagged[i] \/ b]
    BY <1>1, Zenon DEF OpenReferencedCase, OpenCase
  <2>2. (flagged[i] \/ b) \in BOOLEAN
    OBVIOUS
  <2> QED
    BY <2>1, <2>2 DEF TypeOK, CasesOK
<1>2. CASE ~CanOpenReferenced(i)
  BY <1>2 DEF TypeOK, CasesOK, OpenReferencedCase, cases
<1> QED
  BY <1>1, <1>2

\* A delivery that finds the transaction settled touches the case columns and nothing else.
LEMMA NoteTypes ==
  ASSUME TypeOK, NEW k \in Deliveries, NEW c \in BOOLEAN, NoteSettled(k, c)
  PROVE  LedgerOK' /\ CasesOK' /\ contra' \in [Instructions -> BOOLEAN]
<1>1. k[1] \in Instructions
  BY DEF Deliveries
<1>2. LedgerOK'
  BY DEF NoteSettled, TypeOK, LedgerOK
<1>3. contra' \in [Instructions -> BOOLEAN]
  <2>1. contra' = [contra EXCEPT ![k[1]] = contra[k[1]] \/ c]
    BY Zenon DEF NoteSettled
  <2>2. (contra[k[1]] \/ c) \in BOOLEAN
    OBVIOUS
  <2> QED
    BY <2>1, <2>2 DEF TypeOK
<1>4. CasesOK'
  <2>1. CASE c
    <3>1. OpenReferencedCase(k[1], TRUE)
      BY <2>1, Zenon DEF NoteSettled
    <3> QED
      BY <1>1, <3>1, CaseTypes
  <2>2. CASE ~c
    BY <2>2 DEF NoteSettled, cases, TypeOK, CasesOK
  <2> QED
    BY <2>1, <2>2
<1> QED
  BY <1>2, <1>3, <1>4

\* A result applied to an open transaction leaves ledger and cases well typed.
LEMMA OutcomeTypes ==
  ASSUME TypeOK, NEW k \in Deliveries, ApplyOutcome(k)
  PROVE  LedgerOK' /\ CasesOK' /\ contra' \in [Instructions -> BOOLEAN]
<1>1. k[1] \in Instructions
  BY DEF Deliveries
<1>2. LedgerOK'
  BY <1>1 DEF ApplyOutcome, TypeOK, LedgerOK, TxnStates
<1>3. CASE k[2] = "QUEUE_TIMEOUT"
  <2>1. OpenReferencedCase(k[1], FALSE)
    BY <1>3 DEF ApplyOutcome
  <2>2. CasesOK'
    BY <1>1, <2>1, CaseTypes
  <2> QED
    BY <1>2, <2>2 DEF ApplyOutcome, TypeOK
<1>4. CASE k[2] # "QUEUE_TIMEOUT"
  <2>1. UNCHANGED cases
    BY <1>4 DEF ApplyOutcome
  <2> QED
    BY <1>2, <2>1 DEF ApplyOutcome, TypeOK, CasesOK, cases
<1> QED
  BY <1>3, <1>4

\* So does the answer to a Transaction Status query.
LEMMA AnswerTypes ==
  ASSUME TypeOK, NEW k \in Deliveries, ApplyAnswer(k), UNCHANGED contra
  PROVE  LedgerOK' /\ CasesOK' /\ contra' \in [Instructions -> BOOLEAN]
<1>1. k[1] \in Instructions
  BY DEF Deliveries
<1>2. CASE k[2] = "STATUS_PENDING"
  BY <1>1, <1>2 DEF ApplyAnswer, TypeOK, LedgerOK, CasesOK
<1>3. CASE k[2] # "STATUS_PENDING"
  <2>1. LedgerOK'
    BY <1>1, <1>3 DEF ApplyAnswer, TypeOK, LedgerOK, TxnStates
  <2>2. CasesOK'
    BY <1>1, <1>3 DEF ApplyAnswer, TypeOK, CasesOK
  <2> QED
    BY <2>1, <2>2 DEF TypeOK
<1> QED
  BY <1>2, <1>3

\* Every step of every process keeps the types.
LEMMA TypeNext == TypeOK /\ [Next]_vars => TypeOK'
<1> SUFFICES ASSUME TypeOK, [Next]_vars PROVE TypeOK'
  OBVIOUS
<1> USE ExecutionAssumption DEF ledger, cases, rollup, mpesa, budget, UseFault, Goto
<1>1. ASSUME NEW w \in Workers, WorkerStep(w) PROVE TypeOK'
  <2>1. ASSUME NEW i \in Instructions, ClaimJob(w, i) PROVE TypeOK'
    BY <2>1 DEF TypeOK, ClaimJob, JobRows
  <2>2. CASE SettleJob(w)
    <3>1. on[w] \in Instructions /\ job[on[w]] \in JobRows
      BY <2>2 DEF TypeOK, SettleJob
    <3>2. job' \in [Instructions -> JobRows]
      BY <2>2, <3>1, JobRowAfter DEF TypeOK, SettleJob
    <3> QED
      BY <2>2, <3>2 DEF TypeOK, SettleJob
  <2>3. CASE Throttle(w)
    BY <2>3 DEF TypeOK, Throttle
  <2>4. CASE PrepareSubmission(w)
    BY <2>4 DEF TypeOK, PrepareSubmission, TxnStates
  <2>5. CASE SkipSubmission(w)
    BY <2>5 DEF TypeOK, SkipSubmission
  <2>6. CASE SkipDisabled(w)
    BY <2>6 DEF TypeOK, SkipDisabled, TxnStates
  <2>7. CASE LoadClientFails(w)
    BY <2>7 DEF TypeOK, LoadClientFails
  <2>8. CASE SendPayment(w)
    <3>1. on[w] \in Instructions
      BY <2>8 DEF TypeOK, SendPayment
    <3>2. provider' \in [Instructions -> {"none", "received", "paid", "refused", "rejected"}]
      BY <2>8, <3>1 DEF TypeOK, SendPayment
    <3>3. \E label \in {"accepted", "unknown", "retry", "rejected"} : Goto(w, label)
      BY <2>8 DEF SendPayment
    <3>4. pc' \in [Workers -> {"idle", "fetched", "prepared", "accepted", "unknown", "rejected",
                              "settle", "locked", "ack", "retry"}]
          /\ \A v \in Workers : pc'[v] = "idle" <=> on[v] = None
      BY <2>8, <3>3 DEF TypeOK, SendPayment
    <3>5. requests' \in [Instructions -> Nat]
      BY <2>8, <3>1 DEF TypeOK, SendPayment
    <3>6. UNCHANGED <<ledger, job, cases, enabled, on, cb, sweep, rollup, asked, contra, budget>>
      BY <2>8 DEF SendPayment
    <3> QED
      BY <3>2, <3>4, <3>5, <3>6 DEF TypeOK
  <2>9. CASE RecordAck(w)
    BY <2>9 DEF TypeOK, RecordAck, TxnStates
  <2>10. CASE MarkForReconciliation(w)
    <3>1. on[w] \in Instructions
      BY <2>10 DEF TypeOK, MarkForReconciliation
    <3>2. CASE txn[on[w]] \in SettledStates
      BY <2>10, <3>2 DEF TypeOK, MarkForReconciliation
    <3>3. CASE txn[on[w]] \notin SettledStates
      <4>1. OpenReferencedCase(on[w], FALSE)
        BY <2>10, <3>3 DEF MarkForReconciliation
      <4>2. CasesOK'
        BY <3>1, <4>1, CaseTypes
      <4> QED
        <5>1. /\ txn' \in [Instructions -> TxnStates \cup {"NONE"}]
              /\ instr' \in [Instructions -> TxnStates]
          BY <2>10, <3>1, <3>3 DEF TypeOK, MarkForReconciliation, TxnStates
        <5>2. /\ pc' = [pc EXCEPT ![w] = "ack"]
              /\ pc[w] # "idle"
              /\ UNCHANGED <<batch, claim, job, enabled, on, cb, sweep, rollup, mpesa,
                             contra, budget>>
          BY <2>10 DEF MarkForReconciliation
        <5> QED
          BY <4>2, <5>1, <5>2 DEF TypeOK, CasesOK
    <3> QED
      BY <3>2, <3>3
  <2>11. CASE RecordRejection(w)
    <3>1. PICK sameCode \in BOOLEAN :
            IF GuardTransactionUpdate(txn[on[w]], "FAILED", sameCode)
            THEN /\ txn' = [txn EXCEPT ![on[w]] = "FAILED"]
                 /\ instr' = [instr EXCEPT ![on[w]] = "FAILED"]
                 /\ claim' = [claim EXCEPT ![on[w]] = "SETTLED"]
                 /\ Goto(w, "settle")
            ELSE Goto(w, "retry") /\ UNCHANGED <<txn, instr, claim>>
      BY <2>11 DEF RecordRejection
    <3>2. CASE GuardTransactionUpdate(txn[on[w]], "FAILED", sameCode)
      BY <2>11, <3>1, <3>2 DEF TypeOK, RecordRejection, TxnStates
    <3>3. CASE ~GuardTransactionUpdate(txn[on[w]], "FAILED", sameCode)
      BY <2>11, <3>1, <3>3 DEF TypeOK, RecordRejection
    <3> QED
      BY <3>2, <3>3
  <2>12. CASE WorkerTakesLock(w)
    BY <2>12 DEF TypeOK, WorkerTakesLock, TakeLock, RollUp, Procs
  <2>13. CASE WorkerFindsLockBusy(w)
    BY <2>13 DEF TypeOK, WorkerFindsLockBusy
  <2>14. CASE WorkerSettlesBatch(w)
    BY <2>14 DEF TypeOK, WorkerSettlesBatch, WriteRollUp
  <2>15. CASE WorkerCrash(w)
    BY <2>15 DEF TypeOK, WorkerCrash
  <2>16. CASE UnclassifiedError(w)
    BY <2>16 DEF TypeOK, UnclassifiedError
  <2> QED
    BY <1>1, <2>1, <2>2, <2>3, <2>4, <2>5, <2>6, <2>7, <2>8, <2>9, <2>10, <2>11, <2>12,
       <2>13, <2>14, <2>15, <2>16 DEF WorkerStep
<1>2. ASSUME NEW k \in Deliveries, CallbackStep(k) PROVE TypeOK'
  <2>0. k[1] \in Instructions /\ k[2] \in Kinds
    BY DEF Deliveries
  <2>1. CASE StoreCallback(k)
    BY <2>0, <2>1 DEF TypeOK, StoreCallback, SetCallback
  <2>2. CASE EnqueueCallback(k)
    BY <2>2 DEF TypeOK, EnqueueCallback, SetCallback
  <2>3. CASE CallbackNeverApplied(k)
    BY <2>3 DEF TypeOK, CallbackNeverApplied, SetCallback, Dropped
  <2>4. CASE ApplyB2cResult(k)
    <3>1. LedgerOK' /\ CasesOK' /\ contra' \in [Instructions -> BOOLEAN]
      <4>1. CASE txn[k[1]] \in SettledStates
        <5> DEFINE c == ~ \/ txn[k[1]] = "SUCCESS" /\ k[2] = "RESULT_OK"
                          \/ txn[k[1]] = "FAILED" /\ k[2] # "RESULT_OK"
        <5>1. NoteSettled(k, c)
          BY <2>4, <4>1 DEF ApplyB2cResult
        <5>2. c \in BOOLEAN
          OBVIOUS
        <5> HIDE DEF c
        <5> QED
          BY <5>1, <5>2, NoteTypes
      <4>2. CASE txn[k[1]] \notin SettledStates
        BY <2>4, <4>2, OutcomeTypes DEF ApplyB2cResult
      <4> QED
        BY <4>1, <4>2
    <3> QED
      BY <2>4, <3>1 DEF TypeOK, LedgerOK, CasesOK, ApplyB2cResult, SetCallback
  <2>5. CASE ApplyTransactionStatus(k)
    <3>1. LedgerOK' /\ CasesOK' /\ contra' \in [Instructions -> BOOLEAN]
      <4>1. CASE txn[k[1]] \in SettledStates
        <5> DEFINE c == \/ txn[k[1]] # "SUCCESS" /\ k[2] = "STATUS_OK"
                        \/ txn[k[1]] # "FAILED" /\ k[2] = "STATUS_FAIL"
        <5>1. NoteSettled(k, c)
          BY <2>5, <4>1 DEF ApplyTransactionStatus
        <5>2. c \in BOOLEAN
          OBVIOUS
        <5> HIDE DEF c
        <5> QED
          BY <5>1, <5>2, NoteTypes
      <4>2. CASE txn[k[1]] \notin SettledStates
        BY <2>5, <4>2, AnswerTypes DEF ApplyTransactionStatus
      <4> QED
        BY <4>1, <4>2
    <3> QED
      BY <2>5, <3>1 DEF TypeOK, LedgerOK, CasesOK, ApplyTransactionStatus, SetCallback
  <2>6. CASE CallbackTakesLock(k)
    BY <2>6 DEF TypeOK, CallbackTakesLock, TakeLock, RollUp, Procs, SetCallback
  <2>7. CASE CallbackFindsLockBusy(k)
    BY <2>7 DEF TypeOK, CallbackFindsLockBusy, SetCallback, Processed
  <2>8. CASE CallbackSettlesBatch(k)
    BY <2>8 DEF TypeOK, CallbackSettlesBatch, WriteRollUp, SetCallback, Processed
  <2>9. CASE CallbackDiesBeforeRollUp(k)
    BY <2>9 DEF TypeOK, CallbackDiesBeforeRollUp, SetCallback, Processed
  <2>10. CASE CallbackHandledAgain(k)
    BY <2>10 DEF TypeOK, CallbackHandledAgain, SetCallback
  <2> QED
    BY <1>2, <2>1, <2>2, <2>3, <2>4, <2>5, <2>6, <2>7, <2>8, <2>9, <2>10 DEF CallbackStep
<1>3. ASSUME NEW i \in Instructions, SweepStep(i) PROVE TypeOK'
  <2> USE DEF GotoSweep
  <2>1. CASE SweepSelects(i)
    BY <2>1 DEF TypeOK, SweepSelects
  <2>2. CASE SweepOpensCase(i)
    BY <2>2 DEF TypeOK, SweepOpensCase, OpenCase
  <2>3. CASE ReconcileSelects(i)
    BY <2>3 DEF TypeOK, ReconcileSelects
  <2>4. CASE Escalate(i)
    BY <2>4 DEF TypeOK, Escalate
  <2>5. CASE QueryUnavailable(i)
    BY <2>5 DEF TypeOK, QueryUnavailable
  <2>6. CASE AskStatus(i)
    BY <2>6 DEF TypeOK, AskStatus
  <2>7. CASE QueryFails(i)
    BY <2>7 DEF TypeOK, QueryFails, CountQuery
  <2>8. CASE RecordQuery(i)
    BY <2>8 DEF TypeOK, RecordQuery, CountQuery, TxnStates
  <2>9. CASE MarkReconciling(i)
    BY <2>9 DEF TypeOK, MarkReconciling, TxnStates
  <2>10. CASE SweepDies(i)
    BY <2>10 DEF TypeOK, SweepDies
  <2> QED
    BY <1>3, <2>1, <2>2, <2>3, <2>4, <2>5, <2>6, <2>7, <2>8, <2>9, <2>10 DEF SweepStep
<1>4. ASSUME NEW i \in Instructions, RecoverLease(i) PROVE TypeOK'
  <2>1. job' \in [Instructions -> JobRows]
    BY <1>4, JobRowAfter DEF TypeOK, RecoverLease
  <2> QED
    BY <1>4, <2>1 DEF TypeOK, RecoverLease
<1>5. ASSUME NEW i \in Instructions, ProviderDecides(i) PROVE TypeOK'
  BY <1>5 DEF TypeOK, ProviderDecides
<1>6. CASE ToggleDaraja
  BY <1>6 DEF TypeOK, ToggleDaraja
<1>7. CASE UNCHANGED vars
  BY <1>7 DEF TypeOK, vars
<1> QED
  BY <1>1, <1>2, <1>3, <1>4, <1>5, <1>6, <1>7 DEF Next

\* Every variable keeps its type, and a consumer is idle exactly when it holds no message.
THEOREM TypeCorrect == Spec => []TypeOK
<1>1. Init => TypeOK
  BY TypeInit
<1>2. TypeOK /\ [Next]_vars => TypeOK'
  BY TypeNext
<1> QED
  BY <1>1, <1>2, PTL DEF Spec

-----------------------------------------------------------------------------
\* A rejection is either recorded, on a row the trigger lets change, or retried.
LEMMA RejectionCases ==
  ASSUME NEW w \in Workers, RecordRejection(w)
  PROVE  \/ /\ txn[on[w]] \notin {"SUCCESS", "CANCELLED"}
            /\ txn' = [txn EXCEPT ![on[w]] = "FAILED"]
            /\ claim' = [claim EXCEPT ![on[w]] = "SETTLED"]
            /\ Goto(w, "settle")
         \/ Goto(w, "retry") /\ UNCHANGED <<txn, claim>>
  BY DEF RecordRejection, GuardTransactionUpdate, SettledStates

-----------------------------------------------------------------------------
(* What is on record before M-PESA can hear of it.                         *)

KnownInv ==
  /\ \A i \in Instructions : claim[i] = "CLAIMED" <=> txn[i] = "NONE"
  /\ \A i \in Instructions : claim[i] = "SETTLED" <=> txn[i] \in SettledStates
  /\ \A i \in Instructions : txn[i] = "NONE" => requests[i] = 0 /\ sweep[i] = "idle" /\ ~asked[i]
  /\ \A i \in Instructions : txn[i] # "NONE" => batch # "QUEUED"
  /\ \A i \in Instructions : requests[i] = 0 => provider[i] = "none"
  /\ \A w \in Workers : pc[w] \in InCall => txn[on[w]] # "NONE"
  /\ \A k \in Deliveries : cb[k] # "none" => txn[k[1]] # "NONE"

\* Nothing is claimed as submitted, and nobody is in a call, when the batch is released.
LEMMA KnownInit == Init => KnownInv
  BY ExecutionAssumption DEF Init, KnownInv, InCall, SettledStates, Deliveries

\* Every write of a claim goes with the matching write of the row.
LEMMA KnownNext == TypeOK /\ KnownInv /\ [Next]_vars => KnownInv'
<1> SUFFICES ASSUME TypeOK, KnownInv, [Next]_vars PROVE KnownInv'
  OBVIOUS
<1> USE ExecutionAssumption DEF ledger, cases, rollup, mpesa, budget, UseFault, Goto
<1>1. ASSUME NEW w \in Workers, WorkerStep(w) PROVE KnownInv'
  <2>1. ASSUME NEW i \in Instructions, ClaimJob(w, i) PROVE KnownInv'
    BY <2>1 DEF TypeOK, KnownInv, InCall, SettledStates, ClaimJob
  <2>2. CASE SettleJob(w)
    BY <2>2 DEF TypeOK, KnownInv, InCall, SettledStates, SettleJob
  <2>3. CASE Throttle(w)
    BY <2>3 DEF TypeOK, KnownInv, InCall, SettledStates, Throttle
  <2>4. CASE PrepareSubmission(w)
    BY <2>4 DEF TypeOK, KnownInv, InCall, SettledStates, PrepareSubmission
  <2>5. CASE SkipSubmission(w)
    BY <2>5 DEF TypeOK, KnownInv, InCall, SettledStates, SkipSubmission
  <2>6. CASE SkipDisabled(w)
    BY <2>6 DEF TypeOK, KnownInv, InCall, SettledStates, SkipDisabled, MaySubmit, DecideOnExistingClaim
  <2>7. CASE LoadClientFails(w)
    BY <2>7 DEF TypeOK, KnownInv, InCall, SettledStates, LoadClientFails
  <2>8. CASE SendPayment(w)
    BY <2>8 DEF TypeOK, KnownInv, InCall, SettledStates, SendPayment
  <2>9. CASE RecordAck(w)
    BY <2>9 DEF TypeOK, KnownInv, InCall, SettledStates, RecordAck
  <2>10. CASE MarkForReconciliation(w)
    <3>1. CASE txn[on[w]] \in SettledStates
      BY <2>10, <3>1 DEF TypeOK, KnownInv, InCall, SettledStates, MarkForReconciliation
    <3>2. CASE txn[on[w]] \notin SettledStates
      <4>1. /\ pc[w] = "unknown" /\ on[w] \in Instructions
            /\ txn' = [txn EXCEPT ![on[w]] = "TIMEOUT"]
            /\ pc' = [pc EXCEPT ![w] = "ack"]
            /\ UNCHANGED <<batch, claim, job, enabled, on, cb, sweep, rollup, mpesa, contra, budget>>
        BY <2>10, <3>2 DEF TypeOK, MarkForReconciliation
      <4> QED
        BY <3>2, <4>1 DEF TypeOK, KnownInv, InCall, SettledStates
    <3> QED
      BY <3>1, <3>2
  <2>11. CASE RecordRejection(w)
    <3>1. /\ pc[w] = "rejected" /\ on[w] \in Instructions
          /\ UNCHANGED <<batch, job, cases, enabled, on, cb, sweep, rollup, mpesa, contra, budget>>
      BY <2>11 DEF TypeOK, RecordRejection
    <3>2. CASE /\ txn' = [txn EXCEPT ![on[w]] = "FAILED"]
               /\ claim' = [claim EXCEPT ![on[w]] = "SETTLED"]
               /\ Goto(w, "settle")
      BY <3>1, <3>2 DEF TypeOK, KnownInv, InCall, SettledStates
    <3>3. CASE Goto(w, "retry") /\ UNCHANGED <<txn, claim>>
      BY <3>1, <3>3 DEF TypeOK, KnownInv, InCall, SettledStates
    <3> QED
      BY <2>11, <3>2, <3>3, RejectionCases
  <2>12. CASE WorkerTakesLock(w)
    BY <2>12 DEF TypeOK, KnownInv, InCall, SettledStates, WorkerTakesLock, TakeLock
  <2>13. CASE WorkerFindsLockBusy(w)
    BY <2>13 DEF TypeOK, KnownInv, InCall, SettledStates, WorkerFindsLockBusy
  <2>14. CASE WorkerSettlesBatch(w)
    BY <2>14 DEF TypeOK, KnownInv, InCall, SettledStates, WorkerSettlesBatch, WriteRollUp
  <2>15. CASE WorkerCrash(w)
    BY <2>15 DEF TypeOK, KnownInv, InCall, SettledStates, WorkerCrash
  <2>16. CASE UnclassifiedError(w)
    BY <2>16 DEF TypeOK, KnownInv, InCall, SettledStates, UnclassifiedError
  <2> QED
    BY <1>1, <2>1, <2>2, <2>3, <2>4, <2>5, <2>6, <2>7, <2>8, <2>9, <2>10, <2>11, <2>12, <2>13, <2>14, <2>15, <2>16 DEF WorkerStep
<1>2. ASSUME NEW k \in Deliveries, CallbackStep(k) PROVE KnownInv'
  <2>0. k[1] \in Instructions /\ k[2] \in Kinds
    BY DEF Deliveries
  <2> USE DEF SetCallback
  <2>1. CASE StoreCallback(k)
    <3>1. txn[k[1]] # "NONE"
      BY <2>0, <2>1 DEF KnownInv, StoreCallback, CanDeliver
    <3> QED
      BY <2>0, <2>1, <3>1 DEF TypeOK, KnownInv, InCall, SettledStates, StoreCallback
  <2>2. CASE EnqueueCallback(k)
    BY <2>0, <2>2 DEF TypeOK, KnownInv, InCall, SettledStates, EnqueueCallback
  <2>3. CASE CallbackNeverApplied(k)
    BY <2>0, <2>3 DEF TypeOK, KnownInv, InCall, SettledStates, CallbackNeverApplied, Dropped
  <2>4. CASE ApplyB2cResult(k)
    <3>1. /\ cb[k] = "queued"
          /\ cb' = [cb EXCEPT ![k] = "settle"]
          /\ UNCHANGED <<batch, job, enabled, pc, on, sweep, rollup, mpesa, budget>>
      BY <2>4 DEF ApplyB2cResult
    <3>2. CASE txn[k[1]] \in SettledStates
      <4>1. UNCHANGED <<txn, claim>>
        BY <2>4, <3>2 DEF ApplyB2cResult, NoteSettled
      <4> QED
        BY <2>0, <3>1, <4>1 DEF TypeOK, KnownInv, InCall, SettledStates
    <3>3. CASE txn[k[1]] \notin SettledStates
      <4>1. ApplyOutcome(k)
        BY <2>4, <3>3 DEF ApplyB2cResult
      <4>2. \/ /\ txn' = [txn EXCEPT ![k[1]] = "TIMEOUT"]
               /\ claim' = [claim EXCEPT ![k[1]] = "SUBMITTED"]
            \/ /\ \E s \in {"SUCCESS", "FAILED"} : txn' = [txn EXCEPT ![k[1]] = s]
               /\ claim' = [claim EXCEPT ![k[1]] = "SETTLED"]
        BY <4>1 DEF ApplyOutcome
      <4>3. CASE /\ txn' = [txn EXCEPT ![k[1]] = "TIMEOUT"]
                 /\ claim' = [claim EXCEPT ![k[1]] = "SUBMITTED"]
        BY <2>0, <3>1, <3>3, <4>3 DEF TypeOK, KnownInv, InCall, SettledStates
      <4>4. ASSUME NEW s \in {"SUCCESS", "FAILED"},
                   txn' = [txn EXCEPT ![k[1]] = s],
                   claim' = [claim EXCEPT ![k[1]] = "SETTLED"]
            PROVE  KnownInv'
        <5>1. s \in SettledStates /\ s # "NONE"
          BY DEF SettledStates
        <5>2. txn[k[1]] # "NONE"
          BY <3>1 DEF KnownInv
        <5> QED
          BY <2>0, <3>1, <3>3, <4>4, <5>1, <5>2 DEF TypeOK, KnownInv, InCall
      <4> QED
        BY <4>2, <4>3, <4>4
    <3> QED
      BY <3>2, <3>3
  <2>5. CASE ApplyTransactionStatus(k)
    <3>1. /\ cb[k] = "queued"
          /\ cb' = [cb EXCEPT ![k] = "settle"]
          /\ UNCHANGED <<batch, job, enabled, pc, on, sweep, rollup, mpesa, budget>>
      BY <2>5 DEF ApplyTransactionStatus
    <3>2. CASE txn[k[1]] \in SettledStates
      <4>1. UNCHANGED <<txn, claim>>
        BY <2>5, <3>2 DEF ApplyTransactionStatus, NoteSettled
      <4> QED
        BY <2>0, <3>1, <4>1 DEF TypeOK, KnownInv, InCall, SettledStates
    <3>3. CASE txn[k[1]] \notin SettledStates
      <4>1. ApplyAnswer(k)
        BY <2>5, <3>3 DEF ApplyTransactionStatus
      <4>2. \/ UNCHANGED <<txn, claim>>
            \/ /\ \E s \in {"SUCCESS", "FAILED"} : txn' = [txn EXCEPT ![k[1]] = s]
               /\ claim' = [claim EXCEPT ![k[1]] = "SETTLED"]
        BY <4>1 DEF ApplyAnswer
      <4>3. CASE UNCHANGED <<txn, claim>>
        BY <2>0, <3>1, <3>3, <4>3 DEF TypeOK, KnownInv, InCall, SettledStates
      <4>4. ASSUME NEW s \in {"SUCCESS", "FAILED"},
                   txn' = [txn EXCEPT ![k[1]] = s],
                   claim' = [claim EXCEPT ![k[1]] = "SETTLED"]
            PROVE  KnownInv'
        <5>1. s \in SettledStates /\ s # "NONE"
          BY DEF SettledStates
        <5>2. txn[k[1]] # "NONE"
          BY <3>1 DEF KnownInv
        <5> QED
          BY <2>0, <3>1, <3>3, <4>4, <5>1, <5>2 DEF TypeOK, KnownInv, InCall
      <4> QED
        BY <4>2, <4>3, <4>4
    <3> QED
      BY <3>2, <3>3
  <2>6. CASE CallbackTakesLock(k)
    BY <2>0, <2>6 DEF TypeOK, KnownInv, InCall, SettledStates, CallbackTakesLock, TakeLock
  <2>7. CASE CallbackFindsLockBusy(k)
    BY <2>0, <2>7 DEF TypeOK, KnownInv, InCall, SettledStates, CallbackFindsLockBusy, Processed
  <2>8. CASE CallbackSettlesBatch(k)
    BY <2>0, <2>8 DEF TypeOK, KnownInv, InCall, SettledStates, CallbackSettlesBatch, WriteRollUp, Processed
  <2>9. CASE CallbackDiesBeforeRollUp(k)
    BY <2>0, <2>9 DEF TypeOK, KnownInv, InCall, SettledStates, CallbackDiesBeforeRollUp, Processed
  <2>10. CASE CallbackHandledAgain(k)
    BY <2>0, <2>10 DEF TypeOK, KnownInv, InCall, SettledStates, CallbackHandledAgain
  <2> QED
    BY <1>2, <2>1, <2>2, <2>3, <2>4, <2>5, <2>6, <2>7, <2>8, <2>9, <2>10 DEF CallbackStep
<1>3. ASSUME NEW i \in Instructions, SweepStep(i) PROVE KnownInv'
  <2> USE DEF GotoSweep
  <2>1. CASE SweepSelects(i)
    BY <2>1 DEF TypeOK, KnownInv, InCall, SettledStates, StuckStates, SweepSelects
  <2>2. CASE SweepOpensCase(i)
    BY <2>2 DEF TypeOK, KnownInv, InCall, SettledStates, SweepOpensCase
  <2>3. CASE ReconcileSelects(i)
    BY <2>3 DEF TypeOK, KnownInv, InCall, SettledStates, ReconcileSelects
  <2>4. CASE Escalate(i)
    BY <2>4 DEF TypeOK, KnownInv, InCall, SettledStates, Escalate
  <2>5. CASE QueryUnavailable(i)
    BY <2>5 DEF TypeOK, KnownInv, InCall, SettledStates, QueryUnavailable
  <2>6. CASE AskStatus(i)
    BY <2>6 DEF TypeOK, KnownInv, InCall, SettledStates, AskStatus
  <2>7. CASE QueryFails(i)
    BY <2>7 DEF TypeOK, KnownInv, InCall, SettledStates, QueryFails
  <2>8. CASE RecordQuery(i)
    BY <2>8 DEF TypeOK, KnownInv, InCall, SettledStates, RecordQuery
  <2>9. CASE MarkReconciling(i)
    BY <2>9 DEF TypeOK, KnownInv, InCall, SettledStates, MarkReconciling
  <2>10. CASE SweepDies(i)
    BY <2>10 DEF TypeOK, KnownInv, InCall, SettledStates, SweepDies
  <2> QED
    BY <1>3, <2>1, <2>2, <2>3, <2>4, <2>5, <2>6, <2>7, <2>8, <2>9, <2>10 DEF SweepStep
<1>4. ASSUME NEW i \in Instructions, RecoverLease(i) PROVE KnownInv'
  BY <1>4 DEF TypeOK, KnownInv, InCall, SettledStates, RecoverLease
<1>5. ASSUME NEW i \in Instructions, ProviderDecides(i) PROVE KnownInv'
  BY <1>5 DEF TypeOK, KnownInv, InCall, SettledStates, ProviderDecides
<1>6. CASE ToggleDaraja
  BY <1>6 DEF TypeOK, KnownInv, InCall, SettledStates, ToggleDaraja
<1>7. CASE UNCHANGED vars
  BY <1>7 DEF TypeOK, KnownInv, InCall, SettledStates, vars
<1> QED
  BY <1>1, <1>2, <1>3, <1>4, <1>5, <1>6, <1>7 DEF Next
-----------------------------------------------------------------------------
(* One caller per instruction, and one request.                            *)

CallInv ==
  /\ OneCaller
  /\ AtMostOneRequest
  /\ \A w \in Workers : pc[w] = "prepared" => requests[on[w]] = 0

\* Nobody is in a call when the batch is released.
LEMMA CallInit == Init => CallInv
  BY ExecutionAssumption DEF Init, CallInv, OneCaller, AtMostOneRequest, InCall

\* A second consumer of the same instruction finds the claim SUBMITTED and skips it.
LEMMA CallNext == TypeOK /\ KnownInv /\ CallInv /\ [Next]_vars => CallInv'
<1> SUFFICES ASSUME TypeOK, KnownInv, CallInv, [Next]_vars PROVE CallInv'
  OBVIOUS
<1> USE ExecutionAssumption DEF ledger, cases, rollup, mpesa, budget, UseFault, Goto
<1>1. ASSUME NEW w \in Workers, WorkerStep(w) PROVE CallInv'
  <2>1. ASSUME NEW i \in Instructions, ClaimJob(w, i) PROVE CallInv'
    BY <2>1 DEF TypeOK, KnownInv, CallInv, OneCaller, AtMostOneRequest, InCall, ClaimJob
  <2>2. CASE SettleJob(w)
    BY <2>2 DEF TypeOK, KnownInv, CallInv, OneCaller, AtMostOneRequest, InCall, SettleJob
  <2>3. CASE Throttle(w)
    BY <2>3 DEF TypeOK, KnownInv, CallInv, OneCaller, AtMostOneRequest, InCall, Throttle
  <2>4. CASE PrepareSubmission(w)
    BY <2>4 DEF TypeOK, KnownInv, CallInv, OneCaller, AtMostOneRequest, InCall, PrepareSubmission
  <2>5. CASE SkipSubmission(w)
    BY <2>5 DEF TypeOK, KnownInv, CallInv, OneCaller, AtMostOneRequest, InCall, SkipSubmission
  <2>6. CASE SkipDisabled(w)
    BY <2>6 DEF TypeOK, KnownInv, CallInv, OneCaller, AtMostOneRequest, InCall, SkipDisabled, MaySubmit, DecideOnExistingClaim
  <2>7. CASE LoadClientFails(w)
    BY <2>7 DEF TypeOK, KnownInv, CallInv, OneCaller, AtMostOneRequest, InCall, LoadClientFails
  <2>8. CASE SendPayment(w)
    BY <2>8 DEF TypeOK, KnownInv, CallInv, OneCaller, AtMostOneRequest, InCall, SendPayment
  <2>9. CASE RecordAck(w)
    BY <2>9 DEF TypeOK, KnownInv, CallInv, OneCaller, AtMostOneRequest, InCall, RecordAck
  <2>10. CASE MarkForReconciliation(w)
    BY <2>10 DEF TypeOK, KnownInv, CallInv, OneCaller, AtMostOneRequest, InCall, MarkForReconciliation
  <2>11. CASE RecordRejection(w)
    BY <2>11 DEF TypeOK, KnownInv, CallInv, OneCaller, AtMostOneRequest, InCall, RecordRejection
  <2>12. CASE WorkerTakesLock(w)
    BY <2>12 DEF TypeOK, KnownInv, CallInv, OneCaller, AtMostOneRequest, InCall, WorkerTakesLock, TakeLock
  <2>13. CASE WorkerFindsLockBusy(w)
    BY <2>13 DEF TypeOK, KnownInv, CallInv, OneCaller, AtMostOneRequest, InCall, WorkerFindsLockBusy
  <2>14. CASE WorkerSettlesBatch(w)
    BY <2>14 DEF TypeOK, KnownInv, CallInv, OneCaller, AtMostOneRequest, InCall, WorkerSettlesBatch, WriteRollUp
  <2>15. CASE WorkerCrash(w)
    BY <2>15 DEF TypeOK, KnownInv, CallInv, OneCaller, AtMostOneRequest, InCall, WorkerCrash
  <2>16. CASE UnclassifiedError(w)
    BY <2>16 DEF TypeOK, KnownInv, CallInv, OneCaller, AtMostOneRequest, InCall, UnclassifiedError
  <2> QED
    BY <1>1, <2>1, <2>2, <2>3, <2>4, <2>5, <2>6, <2>7, <2>8, <2>9, <2>10, <2>11, <2>12, <2>13, <2>14, <2>15, <2>16 DEF WorkerStep
<1>2. ASSUME NEW k \in Deliveries, CallbackStep(k) PROVE CallInv'
  <2>0. k[1] \in Instructions /\ k[2] \in Kinds
    BY DEF Deliveries
  <2> USE DEF SetCallback
  <2>1. CASE StoreCallback(k)
    BY <2>0, <2>1 DEF TypeOK, KnownInv, CallInv, OneCaller, AtMostOneRequest, InCall, StoreCallback, CanDeliver
  <2>2. CASE EnqueueCallback(k)
    BY <2>0, <2>2 DEF TypeOK, KnownInv, CallInv, OneCaller, AtMostOneRequest, InCall, EnqueueCallback
  <2>3. CASE CallbackNeverApplied(k)
    BY <2>0, <2>3 DEF TypeOK, KnownInv, CallInv, OneCaller, AtMostOneRequest, InCall, CallbackNeverApplied, Dropped
  <2>4. CASE ApplyB2cResult(k)
    BY <2>0, <2>4 DEF TypeOK, KnownInv, CallInv, OneCaller, AtMostOneRequest, InCall, ApplyB2cResult, NoteSettled, ApplyOutcome
  <2>5. CASE ApplyTransactionStatus(k)
    BY <2>0, <2>5 DEF TypeOK, KnownInv, CallInv, OneCaller, AtMostOneRequest, InCall, ApplyTransactionStatus, NoteSettled, ApplyAnswer
  <2>6. CASE CallbackTakesLock(k)
    BY <2>0, <2>6 DEF TypeOK, KnownInv, CallInv, OneCaller, AtMostOneRequest, InCall, CallbackTakesLock, TakeLock
  <2>7. CASE CallbackFindsLockBusy(k)
    BY <2>0, <2>7 DEF TypeOK, KnownInv, CallInv, OneCaller, AtMostOneRequest, InCall, CallbackFindsLockBusy, Processed
  <2>8. CASE CallbackSettlesBatch(k)
    BY <2>0, <2>8 DEF TypeOK, KnownInv, CallInv, OneCaller, AtMostOneRequest, InCall, CallbackSettlesBatch, WriteRollUp, Processed
  <2>9. CASE CallbackDiesBeforeRollUp(k)
    BY <2>0, <2>9 DEF TypeOK, KnownInv, CallInv, OneCaller, AtMostOneRequest, InCall, CallbackDiesBeforeRollUp, Processed
  <2>10. CASE CallbackHandledAgain(k)
    BY <2>0, <2>10 DEF TypeOK, KnownInv, CallInv, OneCaller, AtMostOneRequest, InCall, CallbackHandledAgain
  <2> QED
    BY <1>2, <2>1, <2>2, <2>3, <2>4, <2>5, <2>6, <2>7, <2>8, <2>9, <2>10 DEF CallbackStep
<1>3. ASSUME NEW i \in Instructions, SweepStep(i) PROVE CallInv'
  <2> USE DEF GotoSweep
  <2>1. CASE SweepSelects(i)
    BY <2>1 DEF TypeOK, KnownInv, CallInv, OneCaller, AtMostOneRequest, InCall, SweepSelects
  <2>2. CASE SweepOpensCase(i)
    BY <2>2 DEF TypeOK, KnownInv, CallInv, OneCaller, AtMostOneRequest, InCall, SweepOpensCase
  <2>3. CASE ReconcileSelects(i)
    BY <2>3 DEF TypeOK, KnownInv, CallInv, OneCaller, AtMostOneRequest, InCall, ReconcileSelects
  <2>4. CASE Escalate(i)
    BY <2>4 DEF TypeOK, KnownInv, CallInv, OneCaller, AtMostOneRequest, InCall, Escalate
  <2>5. CASE QueryUnavailable(i)
    BY <2>5 DEF TypeOK, KnownInv, CallInv, OneCaller, AtMostOneRequest, InCall, QueryUnavailable
  <2>6. CASE AskStatus(i)
    BY <2>6 DEF TypeOK, KnownInv, CallInv, OneCaller, AtMostOneRequest, InCall, AskStatus
  <2>7. CASE QueryFails(i)
    BY <2>7 DEF TypeOK, KnownInv, CallInv, OneCaller, AtMostOneRequest, InCall, QueryFails
  <2>8. CASE RecordQuery(i)
    BY <2>8 DEF TypeOK, KnownInv, CallInv, OneCaller, AtMostOneRequest, InCall, RecordQuery
  <2>9. CASE MarkReconciling(i)
    BY <2>9 DEF TypeOK, KnownInv, CallInv, OneCaller, AtMostOneRequest, InCall, MarkReconciling
  <2>10. CASE SweepDies(i)
    BY <2>10 DEF TypeOK, KnownInv, CallInv, OneCaller, AtMostOneRequest, InCall, SweepDies
  <2> QED
    BY <1>3, <2>1, <2>2, <2>3, <2>4, <2>5, <2>6, <2>7, <2>8, <2>9, <2>10 DEF SweepStep
<1>4. ASSUME NEW i \in Instructions, RecoverLease(i) PROVE CallInv'
  BY <1>4 DEF TypeOK, KnownInv, CallInv, OneCaller, AtMostOneRequest, InCall, RecoverLease
<1>5. ASSUME NEW i \in Instructions, ProviderDecides(i) PROVE CallInv'
  BY <1>5 DEF TypeOK, KnownInv, CallInv, OneCaller, AtMostOneRequest, InCall, ProviderDecides
<1>6. CASE ToggleDaraja
  BY <1>6 DEF TypeOK, KnownInv, CallInv, OneCaller, AtMostOneRequest, InCall, ToggleDaraja
<1>7. CASE UNCHANGED vars
  BY <1>7 DEF TypeOK, KnownInv, CallInv, OneCaller, AtMostOneRequest, InCall, vars
<1> QED
  BY <1>1, <1>2, <1>3, <1>4, <1>5, <1>6, <1>7 DEF Next
-----------------------------------------------------------------------------
(* What a delivery says is what M-PESA did, and so is what the ledger says. *)

Says(kind) ==
  CASE kind \in {"RESULT_OK", "STATUS_OK"} -> {"paid"}
    [] kind \in {"RESULT_FAIL", "STATUS_FAIL"} -> {"refused"}
    [] OTHER -> {"none", "received", "paid", "refused", "rejected"}

TruthInv ==
  /\ \A k \in Deliveries : cb[k] # "none" => provider[k[1]] \in Says(k[2])
  /\ SuccessIsPaid
  /\ ~GarbledReplies => FailedIsUnpaid
  /\ ~GarbledReplies => \A w \in Workers : pc[w] = "rejected" => provider[on[w]] = "rejected"

\* M-PESA has done nothing when the batch is released.
LEMMA TruthInit == Init => TruthInv
  BY ExecutionAssumption DEF Init, TruthInv, SuccessIsPaid, FailedIsUnpaid

\* What M-PESA decided it never takes back, so a delivery stays true while it waits.
LEMMA TruthNext == TypeOK /\ KnownInv /\ CallInv /\ TruthInv /\ [Next]_vars => TruthInv'
<1> SUFFICES ASSUME TypeOK, KnownInv, CallInv, TruthInv, [Next]_vars PROVE TruthInv'
  OBVIOUS
<1> USE ExecutionAssumption DEF ledger, cases, rollup, mpesa, budget, UseFault, Goto
<1>1. ASSUME NEW w \in Workers, WorkerStep(w) PROVE TruthInv'
  <2>1. ASSUME NEW i \in Instructions, ClaimJob(w, i) PROVE TruthInv'
    BY <2>1 DEF TypeOK, KnownInv, CallInv, TruthInv, SuccessIsPaid, FailedIsUnpaid, InCall, Says, ClaimJob
  <2>2. CASE SettleJob(w)
    BY <2>2 DEF TypeOK, KnownInv, CallInv, TruthInv, SuccessIsPaid, FailedIsUnpaid, InCall, Says, SettleJob
  <2>3. CASE Throttle(w)
    BY <2>3 DEF TypeOK, KnownInv, CallInv, TruthInv, SuccessIsPaid, FailedIsUnpaid, InCall, Says, Throttle
  <2>4. CASE PrepareSubmission(w)
    BY <2>4 DEF TypeOK, KnownInv, CallInv, TruthInv, SuccessIsPaid, FailedIsUnpaid, InCall, Says, PrepareSubmission
  <2>5. CASE SkipSubmission(w)
    BY <2>5 DEF TypeOK, KnownInv, CallInv, TruthInv, SuccessIsPaid, FailedIsUnpaid, InCall, Says, SkipSubmission
  <2>6. CASE SkipDisabled(w)
    BY <2>6 DEF TypeOK, KnownInv, CallInv, TruthInv, SuccessIsPaid, FailedIsUnpaid, InCall, Says, SkipDisabled, MaySubmit, DecideOnExistingClaim
  <2>7. CASE LoadClientFails(w)
    BY <2>7 DEF TypeOK, KnownInv, CallInv, TruthInv, SuccessIsPaid, FailedIsUnpaid, InCall, Says, LoadClientFails
  <2>8. CASE SendPayment(w)
    <3>1. on[w] \in Instructions /\ provider[on[w]] = "none"
      BY <2>8 DEF TypeOK, KnownInv, CallInv, SendPayment
    <3>2. /\ pc[w] = "prepared"
          /\ \E p \in {"none", "received", "rejected"},
                label \in {"accepted", "unknown", "retry", "rejected"} :
               /\ provider' = [provider EXCEPT ![on[w]] = p]
               /\ pc' = [pc EXCEPT ![w] = label]
               /\ label = "rejected" /\ ~GarbledReplies => p = "rejected"
          /\ UNCHANGED <<txn, on, cb>>
      BY <2>8, <3>1 DEF TypeOK, SendPayment
    <3>3. PICK p \in {"none", "received", "rejected"},
               label \in {"accepted", "unknown", "retry", "rejected"} :
               /\ provider' = [provider EXCEPT ![on[w]] = p]
               /\ pc' = [pc EXCEPT ![w] = label]
               /\ label = "rejected" /\ ~GarbledReplies => p = "rejected"
      BY <3>2
    <3>4. \A k \in Deliveries : cb'[k] # "none" => provider'[k[1]] \in Says(k[2])
      BY <3>1, <3>2, <3>3 DEF TypeOK, TruthInv, Says
    <3>5. SuccessIsPaid' /\ (~GarbledReplies => FailedIsUnpaid')
      BY <3>1, <3>2, <3>3 DEF TypeOK, TruthInv, SuccessIsPaid, FailedIsUnpaid
    <3>6. ~GarbledReplies =>
            \A v \in Workers : pc'[v] = "rejected" => provider'[on'[v]] = "rejected"
      BY <3>1, <3>2, <3>3 DEF TypeOK, TruthInv
    <3> QED
      BY <3>4, <3>5, <3>6 DEF TruthInv
  <2>9. CASE RecordAck(w)
    BY <2>9 DEF TypeOK, KnownInv, CallInv, TruthInv, SuccessIsPaid, FailedIsUnpaid, InCall, Says, RecordAck
  <2>10. CASE MarkForReconciliation(w)
    <3>1. /\ pc[w] = "unknown" /\ on[w] \in Instructions
          /\ \/ UNCHANGED txn
             \/ txn' = [txn EXCEPT ![on[w]] = "TIMEOUT"]
          /\ pc' = [pc EXCEPT ![w] = "ack"]
          /\ UNCHANGED <<on, cb, provider>>
      <4>1. CASE txn[on[w]] \in SettledStates
        BY <2>10, <4>1 DEF TypeOK, MarkForReconciliation
      <4>2. CASE txn[on[w]] \notin SettledStates
        BY <2>10, <4>2 DEF TypeOK, MarkForReconciliation
      <4> QED
        BY <4>1, <4>2
    <3> QED
      BY <3>1 DEF TypeOK, TruthInv, SuccessIsPaid, FailedIsUnpaid
  <2>11. CASE RecordRejection(w)
    BY <2>11 DEF TypeOK, KnownInv, CallInv, TruthInv, SuccessIsPaid, FailedIsUnpaid, InCall, Says, RecordRejection
  <2>12. CASE WorkerTakesLock(w)
    BY <2>12 DEF TypeOK, KnownInv, CallInv, TruthInv, SuccessIsPaid, FailedIsUnpaid, InCall, Says, WorkerTakesLock, TakeLock
  <2>13. CASE WorkerFindsLockBusy(w)
    BY <2>13 DEF TypeOK, KnownInv, CallInv, TruthInv, SuccessIsPaid, FailedIsUnpaid, InCall, Says, WorkerFindsLockBusy
  <2>14. CASE WorkerSettlesBatch(w)
    BY <2>14 DEF TypeOK, KnownInv, CallInv, TruthInv, SuccessIsPaid, FailedIsUnpaid, InCall, Says, WorkerSettlesBatch, WriteRollUp
  <2>15. CASE WorkerCrash(w)
    BY <2>15 DEF TypeOK, KnownInv, CallInv, TruthInv, SuccessIsPaid, FailedIsUnpaid, InCall, Says, WorkerCrash
  <2>16. CASE UnclassifiedError(w)
    BY <2>16 DEF TypeOK, KnownInv, CallInv, TruthInv, SuccessIsPaid, FailedIsUnpaid, InCall, Says, UnclassifiedError
  <2> QED
    BY <1>1, <2>1, <2>2, <2>3, <2>4, <2>5, <2>6, <2>7, <2>8, <2>9, <2>10, <2>11, <2>12, <2>13, <2>14, <2>15, <2>16 DEF WorkerStep
<1>2. ASSUME NEW k \in Deliveries, CallbackStep(k) PROVE TruthInv'
  <2>0. k[1] \in Instructions /\ k[2] \in Kinds
    BY DEF Deliveries
  <2> USE DEF SetCallback
  <2>1. CASE StoreCallback(k)
    <3>1. provider[k[1]] \in Says(k[2])
      BY <2>0, <2>1 DEF StoreCallback, CanDeliver, Says
    <3> QED
      BY <2>0, <2>1, <3>1 DEF TypeOK, TruthInv, SuccessIsPaid, FailedIsUnpaid, StoreCallback
  <2>2. CASE EnqueueCallback(k)
    BY <2>0, <2>2 DEF TypeOK, KnownInv, CallInv, TruthInv, SuccessIsPaid, FailedIsUnpaid, InCall, Says, EnqueueCallback
  <2>3. CASE CallbackNeverApplied(k)
    BY <2>0, <2>3 DEF TypeOK, KnownInv, CallInv, TruthInv, SuccessIsPaid, FailedIsUnpaid, InCall, Says, CallbackNeverApplied, Dropped
  <2>4. CASE ApplyB2cResult(k)
    <3>1. /\ provider[k[1]] \in Says(k[2])
          /\ cb' = [cb EXCEPT ![k] = "settle"]
          /\ cb[k] # "none"
          /\ UNCHANGED <<pc, on, provider>>
      BY <2>4 DEF TruthInv, ApplyB2cResult
    <3>2. CASE txn[k[1]] \in SettledStates
      <4>1. UNCHANGED txn
        BY <2>4, <3>2 DEF ApplyB2cResult, NoteSettled
      <4> QED
        BY <2>0, <3>1, <4>1 DEF TypeOK, TruthInv, SuccessIsPaid, FailedIsUnpaid
    <3>3. CASE txn[k[1]] \notin SettledStates
      <4>1. ApplyOutcome(k) /\ k[2] \in ResultKinds
        BY <2>4, <3>3 DEF ApplyB2cResult
      <4>2. PICK s \in {"SUCCESS", "FAILED", "TIMEOUT"} :
              /\ txn' = [txn EXCEPT ![k[1]] = s]
              /\ s = "SUCCESS" => k[2] = "RESULT_OK"
              /\ s = "FAILED" => k[2] = "RESULT_FAIL"
        BY <4>1 DEF ApplyOutcome, ResultKinds
      <4>3. /\ s = "SUCCESS" => provider[k[1]] = "paid"
            /\ s = "FAILED" => provider[k[1]] = "refused"
        BY <3>1, <4>2 DEF Says
      <4> QED
        BY <2>0, <3>1, <4>2, <4>3 DEF TypeOK, TruthInv, SuccessIsPaid, FailedIsUnpaid
    <3> QED
      BY <3>2, <3>3
  <2>5. CASE ApplyTransactionStatus(k)
    <3>1. /\ provider[k[1]] \in Says(k[2])
          /\ cb' = [cb EXCEPT ![k] = "settle"]
          /\ cb[k] # "none"
          /\ UNCHANGED <<pc, on, provider>>
      BY <2>5 DEF TruthInv, ApplyTransactionStatus
    <3>2. CASE txn[k[1]] \in SettledStates
      <4>1. UNCHANGED txn
        BY <2>5, <3>2 DEF ApplyTransactionStatus, NoteSettled
      <4> QED
        BY <2>0, <3>1, <4>1 DEF TypeOK, TruthInv, SuccessIsPaid, FailedIsUnpaid
    <3>3. CASE txn[k[1]] \notin SettledStates
      <4>1. ApplyAnswer(k) /\ k[2] \in StatusKinds
        BY <2>5, <3>3 DEF ApplyTransactionStatus
      <4>2. CASE k[2] = "STATUS_PENDING"
        <5>1. UNCHANGED txn
          BY <4>1, <4>2 DEF ApplyAnswer
        <5> QED
          BY <2>0, <3>1, <5>1 DEF TypeOK, TruthInv, SuccessIsPaid, FailedIsUnpaid
      <4>3. CASE k[2] # "STATUS_PENDING"
        <5>1. PICK s \in {"SUCCESS", "FAILED"} :
                /\ txn' = [txn EXCEPT ![k[1]] = s]
                /\ s = "SUCCESS" => k[2] = "STATUS_OK"
                /\ s = "FAILED" => k[2] = "STATUS_FAIL"
          BY <4>1, <4>3 DEF ApplyAnswer, StatusKinds
        <5>2. /\ s = "SUCCESS" => provider[k[1]] = "paid"
              /\ s = "FAILED" => provider[k[1]] = "refused"
          BY <3>1, <5>1 DEF Says
        <5> QED
          BY <2>0, <3>1, <5>1, <5>2 DEF TypeOK, TruthInv, SuccessIsPaid, FailedIsUnpaid
      <4> QED
        BY <4>2, <4>3
    <3> QED
      BY <3>2, <3>3
  <2>6. CASE CallbackTakesLock(k)
    BY <2>0, <2>6 DEF TypeOK, KnownInv, CallInv, TruthInv, SuccessIsPaid, FailedIsUnpaid, InCall, Says, CallbackTakesLock, TakeLock
  <2>7. CASE CallbackFindsLockBusy(k)
    BY <2>0, <2>7 DEF TypeOK, KnownInv, CallInv, TruthInv, SuccessIsPaid, FailedIsUnpaid, InCall, Says, CallbackFindsLockBusy, Processed
  <2>8. CASE CallbackSettlesBatch(k)
    BY <2>0, <2>8 DEF TypeOK, KnownInv, CallInv, TruthInv, SuccessIsPaid, FailedIsUnpaid, InCall, Says, CallbackSettlesBatch, WriteRollUp, Processed
  <2>9. CASE CallbackDiesBeforeRollUp(k)
    BY <2>0, <2>9 DEF TypeOK, KnownInv, CallInv, TruthInv, SuccessIsPaid, FailedIsUnpaid, InCall, Says, CallbackDiesBeforeRollUp, Processed
  <2>10. CASE CallbackHandledAgain(k)
    BY <2>0, <2>10 DEF TypeOK, KnownInv, CallInv, TruthInv, SuccessIsPaid, FailedIsUnpaid, InCall, Says, CallbackHandledAgain
  <2> QED
    BY <1>2, <2>1, <2>2, <2>3, <2>4, <2>5, <2>6, <2>7, <2>8, <2>9, <2>10 DEF CallbackStep
<1>3. ASSUME NEW i \in Instructions, SweepStep(i) PROVE TruthInv'
  <2> USE DEF GotoSweep
  <2>1. CASE SweepSelects(i)
    BY <2>1 DEF TypeOK, KnownInv, CallInv, TruthInv, SuccessIsPaid, FailedIsUnpaid, InCall, Says, SweepSelects
  <2>2. CASE SweepOpensCase(i)
    BY <2>2 DEF TypeOK, KnownInv, CallInv, TruthInv, SuccessIsPaid, FailedIsUnpaid, InCall, Says, SweepOpensCase
  <2>3. CASE ReconcileSelects(i)
    BY <2>3 DEF TypeOK, KnownInv, CallInv, TruthInv, SuccessIsPaid, FailedIsUnpaid, InCall, Says, ReconcileSelects
  <2>4. CASE Escalate(i)
    BY <2>4 DEF TypeOK, KnownInv, CallInv, TruthInv, SuccessIsPaid, FailedIsUnpaid, InCall, Says, Escalate
  <2>5. CASE QueryUnavailable(i)
    BY <2>5 DEF TypeOK, KnownInv, CallInv, TruthInv, SuccessIsPaid, FailedIsUnpaid, InCall, Says, QueryUnavailable
  <2>6. CASE AskStatus(i)
    BY <2>6 DEF TypeOK, KnownInv, CallInv, TruthInv, SuccessIsPaid, FailedIsUnpaid, InCall, Says, AskStatus
  <2>7. CASE QueryFails(i)
    BY <2>7 DEF TypeOK, KnownInv, CallInv, TruthInv, SuccessIsPaid, FailedIsUnpaid, InCall, Says, QueryFails
  <2>8. CASE RecordQuery(i)
    BY <2>8 DEF TypeOK, KnownInv, CallInv, TruthInv, SuccessIsPaid, FailedIsUnpaid, InCall, Says, RecordQuery
  <2>9. CASE MarkReconciling(i)
    BY <2>9 DEF TypeOK, KnownInv, CallInv, TruthInv, SuccessIsPaid, FailedIsUnpaid, InCall, Says, MarkReconciling
  <2>10. CASE SweepDies(i)
    BY <2>10 DEF TypeOK, KnownInv, CallInv, TruthInv, SuccessIsPaid, FailedIsUnpaid, InCall, Says, SweepDies
  <2> QED
    BY <1>3, <2>1, <2>2, <2>3, <2>4, <2>5, <2>6, <2>7, <2>8, <2>9, <2>10 DEF SweepStep
<1>4. ASSUME NEW i \in Instructions, RecoverLease(i) PROVE TruthInv'
  BY <1>4 DEF TypeOK, KnownInv, CallInv, TruthInv, SuccessIsPaid, FailedIsUnpaid, InCall, Says, RecoverLease
<1>5. ASSUME NEW i \in Instructions, ProviderDecides(i) PROVE TruthInv'
  BY <1>5 DEF TypeOK, KnownInv, CallInv, TruthInv, SuccessIsPaid, FailedIsUnpaid, InCall, Says, ProviderDecides
<1>6. CASE ToggleDaraja
  BY <1>6 DEF TypeOK, KnownInv, CallInv, TruthInv, SuccessIsPaid, FailedIsUnpaid, InCall, Says, ToggleDaraja
<1>7. CASE UNCHANGED vars
  BY <1>7 DEF TypeOK, KnownInv, CallInv, TruthInv, SuccessIsPaid, FailedIsUnpaid, InCall, Says, vars
<1> QED
  BY <1>1, <1>2, <1>3, <1>4, <1>5, <1>6, <1>7 DEF Next
-----------------------------------------------------------------------------
(* The theorems.                                                           *)

ExecInv == TypeOK /\ KnownInv /\ CallInv /\ TruthInv

\* The four layers together are an invariant of the specification.
LEMMA ExecInvariant == Spec => []ExecInv
<1>1. Init => ExecInv
  BY TypeInit, KnownInit, CallInit, TruthInit DEF ExecInv
<1>2. ExecInv /\ [Next]_vars => ExecInv'
  BY TypeNext, KnownNext, CallNext, TruthNext DEF ExecInv
<1> QED
  BY <1>1, <1>2, PTL DEF Spec

\* However often a payments message is redelivered, and whatever dies, at most one payment
\* request is sent for an instruction.
THEOREM NeverPaidTwice == Spec => []AtMostOneRequest
<1>1. ExecInv => AtMostOneRequest
  BY DEF ExecInv, CallInv
<1> QED
  BY <1>1, ExecInvariant, PTL

\* Two executors are never in a provider call for the same instruction.
THEOREM SingleCaller == Spec => []OneCaller
<1>1. ExecInv => OneCaller
  BY DEF ExecInv, CallInv
<1> QED
  BY <1>1, ExecInvariant, PTL

\* A request is on record before it is sent: claim, transaction and batch say so.
THEOREM RecordedFirst == Spec => []RequestIsOnRecord
<1>1. ExecInv => RequestIsOnRecord
  BY DEF ExecInv, TypeOK, KnownInv, RequestIsOnRecord
<1> QED
  BY <1>1, ExecInvariant, PTL

\* The idempotency claim and the ledger row never disagree on whether an instruction is settled.
THEOREM ClaimMirrorsLedger == Spec => []ClaimAgreesWithLedger
<1>1. ExecInv => ClaimAgreesWithLedger
  BY DEF ExecInv, KnownInv, ClaimAgreesWithLedger
<1> QED
  BY <1>1, ExecInvariant, PTL

\* A ledger row says SUCCESS only of money M-PESA paid out.
THEOREM NoFalseSuccess == Spec => []SuccessIsPaid
<1>1. ExecInv => SuccessIsPaid
  BY DEF ExecInv, TruthInv
<1> QED
  BY <1>1, ExecInvariant, PTL

\* When every reply to a payment request is readable, a ledger row says FAILED only of a
\* payment M-PESA will not make.
THEOREM NoFalseFailure == ASSUME GarbledReplies = FALSE PROVE Spec => []FailedIsUnpaid
<1>1. ExecInv => FailedIsUnpaid
  BY DEF ExecInv, TruthInv
<1> QED
  BY <1>1, ExecInvariant, PTL

-----------------------------------------------------------------------------
(* How a ledger row can move, whoever moves it.                            *)

TxnMove(old, new) ==
  \/ old = new
  \/ old = "NONE" /\ new = "SUBMITTED"
  \/ old = "SUBMITTED" /\ new = "AWAITING_CALLBACK"
  \/ old \in {"TIMEOUT", "AWAITING_CALLBACK"} /\ new = "RECONCILING"
  \/ old \notin SettledStates \cup {"NONE"} /\ new \in {"TIMEOUT", "SUCCESS", "FAILED"}

Moves == \A n \in Instructions : TxnMove(txn[n], txn'[n])

\* Every step moves every row along an edge or not at all.
LEMMA RowsMove == TypeOK /\ KnownInv /\ [Next]_vars => Moves
<1> SUFFICES ASSUME TypeOK, KnownInv, [Next]_vars PROVE Moves
  OBVIOUS
<1> USE ExecutionAssumption DEF Moves, ledger, cases, rollup, mpesa, budget, UseFault, Goto
<1>1. ASSUME NEW w \in Workers, WorkerStep(w) PROVE Moves
  <2>1. ASSUME NEW i \in Instructions, ClaimJob(w, i) PROVE Moves
    BY <2>1 DEF TypeOK, TxnMove, ClaimJob
  <2>2. CASE SettleJob(w)
    BY <2>2 DEF TypeOK, TxnMove, SettleJob
  <2>3. CASE Throttle(w)
    BY <2>3 DEF TypeOK, TxnMove, Throttle
  <2>4. CASE PrepareSubmission(w)
    BY <2>4 DEF TypeOK, TxnMove, PrepareSubmission
  <2>5. CASE SkipSubmission(w)
    BY <2>5 DEF TypeOK, TxnMove, SkipSubmission
  <2>6. CASE SkipDisabled(w)
    <3>1. on[w] \in Instructions /\ txn[on[w]] = "NONE"
      BY <2>6 DEF TypeOK, KnownInv, SkipDisabled, MaySubmit, DecideOnExistingClaim
    <3> QED
      BY <2>6, <3>1 DEF TypeOK, TxnMove, SkipDisabled
  <2>7. CASE LoadClientFails(w)
    BY <2>7 DEF TypeOK, TxnMove, LoadClientFails
  <2>8. CASE SendPayment(w)
    BY <2>8 DEF TypeOK, TxnMove, SendPayment
  <2>9. CASE RecordAck(w)
    BY <2>9 DEF TypeOK, TxnMove, RecordAck
  <2>10. CASE MarkForReconciliation(w)
    <3>1. txn[on[w]] # "NONE" /\ on[w] \in Instructions
      BY <2>10 DEF TypeOK, KnownInv, InCall, MarkForReconciliation
    <3>2. CASE txn[on[w]] \in SettledStates
      BY <2>10, <3>2 DEF TxnMove, MarkForReconciliation
    <3>3. CASE txn[on[w]] \notin SettledStates
      BY <2>10, <3>1, <3>3 DEF TypeOK, TxnMove, MarkForReconciliation
    <3> QED
      BY <3>2, <3>3
  <2>11. CASE RecordRejection(w)
    <3>1. txn[on[w]] # "NONE" /\ on[w] \in Instructions
      BY <2>11 DEF TypeOK, KnownInv, InCall, RecordRejection
    <3>2. CASE /\ txn[on[w]] \notin {"SUCCESS", "CANCELLED"}
               /\ txn' = [txn EXCEPT ![on[w]] = "FAILED"]
      BY <3>1, <3>2 DEF TypeOK, TxnMove, SettledStates
    <3>3. CASE UNCHANGED txn
      BY <3>3 DEF TxnMove
    <3> QED
      BY <2>11, <3>2, <3>3, RejectionCases
  <2>12. CASE WorkerTakesLock(w)
    BY <2>12 DEF TypeOK, TxnMove, WorkerTakesLock, TakeLock
  <2>13. CASE WorkerFindsLockBusy(w)
    BY <2>13 DEF TypeOK, TxnMove, WorkerFindsLockBusy
  <2>14. CASE WorkerSettlesBatch(w)
    BY <2>14 DEF TypeOK, TxnMove, WorkerSettlesBatch, WriteRollUp
  <2>15. CASE WorkerCrash(w)
    BY <2>15 DEF TypeOK, TxnMove, WorkerCrash
  <2>16. CASE UnclassifiedError(w)
    BY <2>16 DEF TypeOK, TxnMove, UnclassifiedError
  <2> QED
    BY <1>1, <2>1, <2>2, <2>3, <2>4, <2>5, <2>6, <2>7, <2>8, <2>9, <2>10, <2>11, <2>12, <2>13, <2>14, <2>15, <2>16 DEF WorkerStep
<1>2. ASSUME NEW k \in Deliveries, CallbackStep(k) PROVE Moves
  <2>0. k[1] \in Instructions /\ k[2] \in Kinds
    BY DEF Deliveries
  <2> USE DEF SetCallback
  <2>1. CASE StoreCallback(k)
    BY <2>0, <2>1 DEF TypeOK, TxnMove, StoreCallback, CanDeliver
  <2>2. CASE EnqueueCallback(k)
    BY <2>0, <2>2 DEF TypeOK, TxnMove, EnqueueCallback
  <2>3. CASE CallbackNeverApplied(k)
    BY <2>0, <2>3 DEF TypeOK, TxnMove, CallbackNeverApplied, Dropped
  <2>4. CASE ApplyB2cResult(k)
    <3>1. txn[k[1]] # "NONE"
      BY <2>4 DEF KnownInv, ApplyB2cResult
    <3>2. CASE txn[k[1]] \in SettledStates
      BY <2>4, <3>2 DEF TxnMove, ApplyB2cResult, NoteSettled
    <3>3. CASE txn[k[1]] \notin SettledStates
      <4>1. \E s \in {"SUCCESS", "FAILED", "TIMEOUT"} : txn' = [txn EXCEPT ![k[1]] = s]
        BY <2>4, <3>3 DEF ApplyB2cResult, ApplyOutcome
      <4> QED
        BY <2>0, <3>1, <3>3, <4>1 DEF TypeOK, TxnMove
    <3> QED
      BY <3>2, <3>3
  <2>5. CASE ApplyTransactionStatus(k)
    <3>1. txn[k[1]] # "NONE"
      BY <2>5 DEF KnownInv, ApplyTransactionStatus
    <3>2. CASE txn[k[1]] \in SettledStates
      BY <2>5, <3>2 DEF TxnMove, ApplyTransactionStatus, NoteSettled
    <3>3. CASE txn[k[1]] \notin SettledStates
      <4>1. ApplyAnswer(k)
        BY <2>5, <3>3 DEF ApplyTransactionStatus
      <4>2. \/ UNCHANGED txn
            \/ \E s \in {"SUCCESS", "FAILED"} : txn' = [txn EXCEPT ![k[1]] = s]
        BY <4>1 DEF ApplyAnswer
      <4> QED
        BY <2>0, <3>1, <3>3, <4>2 DEF TypeOK, TxnMove
    <3> QED
      BY <3>2, <3>3
  <2>6. CASE CallbackTakesLock(k)
    BY <2>0, <2>6 DEF TypeOK, TxnMove, CallbackTakesLock, TakeLock
  <2>7. CASE CallbackFindsLockBusy(k)
    BY <2>0, <2>7 DEF TypeOK, TxnMove, CallbackFindsLockBusy, Processed
  <2>8. CASE CallbackSettlesBatch(k)
    BY <2>0, <2>8 DEF TypeOK, TxnMove, CallbackSettlesBatch, WriteRollUp, Processed
  <2>9. CASE CallbackDiesBeforeRollUp(k)
    BY <2>0, <2>9 DEF TypeOK, TxnMove, CallbackDiesBeforeRollUp, Processed
  <2>10. CASE CallbackHandledAgain(k)
    BY <2>0, <2>10 DEF TypeOK, TxnMove, CallbackHandledAgain
  <2> QED
    BY <1>2, <2>1, <2>2, <2>3, <2>4, <2>5, <2>6, <2>7, <2>8, <2>9, <2>10 DEF CallbackStep
<1>3. ASSUME NEW i \in Instructions, SweepStep(i) PROVE Moves
  <2> USE DEF GotoSweep
  <2>1. CASE SweepSelects(i)
    BY <2>1 DEF TypeOK, TxnMove, SweepSelects
  <2>2. CASE SweepOpensCase(i)
    BY <2>2 DEF TypeOK, TxnMove, SweepOpensCase
  <2>3. CASE ReconcileSelects(i)
    BY <2>3 DEF TypeOK, TxnMove, ReconcileSelects
  <2>4. CASE Escalate(i)
    BY <2>4 DEF TypeOK, TxnMove, Escalate
  <2>5. CASE QueryUnavailable(i)
    BY <2>5 DEF TypeOK, TxnMove, QueryUnavailable
  <2>6. CASE AskStatus(i)
    BY <2>6 DEF TypeOK, TxnMove, AskStatus
  <2>7. CASE QueryFails(i)
    BY <2>7 DEF TypeOK, TxnMove, QueryFails
  <2>8. CASE RecordQuery(i)
    BY <2>8 DEF TypeOK, TxnMove, RecordQuery
  <2>9. CASE MarkReconciling(i)
    BY <2>9 DEF TypeOK, TxnMove, MarkReconciling
  <2>10. CASE SweepDies(i)
    BY <2>10 DEF TypeOK, TxnMove, SweepDies
  <2> QED
    BY <1>3, <2>1, <2>2, <2>3, <2>4, <2>5, <2>6, <2>7, <2>8, <2>9, <2>10 DEF SweepStep
<1>4. ASSUME NEW i \in Instructions, RecoverLease(i) PROVE Moves
  BY <1>4 DEF TypeOK, TxnMove, RecoverLease
<1>5. ASSUME NEW i \in Instructions, ProviderDecides(i) PROVE Moves
  BY <1>5 DEF TypeOK, TxnMove, ProviderDecides
<1>6. CASE ToggleDaraja
  BY <1>6 DEF TypeOK, TxnMove, ToggleDaraja
<1>7. CASE UNCHANGED vars
  BY <1>7 DEF TypeOK, TxnMove, vars
<1> QED
  BY <1>1, <1>2, <1>3, <1>4, <1>5, <1>6, <1>7 DEF Next

\* The statuses a row of this batch takes: nothing makes it PENDING, PROCESSING or CANCELLED.
RowInv ==
  \A i \in Instructions :
    txn[i] \in {"NONE", "SUBMITTED", "AWAITING_CALLBACK", "RECONCILING", "TIMEOUT",
                "SUCCESS", "FAILED"}

\* No row is ever PENDING, PROCESSING or CANCELLED here: nothing writes these.
LEMMA RowInvariant == Spec => []RowInv
<1>1. Init => RowInv
  BY DEF Init, RowInv
<1>2. ExecInv /\ RowInv /\ [Next]_vars => RowInv'
  <2> SUFFICES ASSUME ExecInv, RowInv, [Next]_vars PROVE RowInv'
    OBVIOUS
  <2>1. Moves
    BY RowsMove DEF ExecInv
  <2> QED
    BY <2>1 DEF RowInv, Moves, TxnMove
<1> QED
  BY <1>1, <1>2, ExecInvariant, PTL DEF Spec

\* Every write to a ledger row follows an edge of the state machine, the ones that never
\* call assertTxnTransition included; a settled outcome is final.
THEOREM EdgesOnly == Spec => LedgerFollowsEdges
<1>1. ExecInv /\ RowInv /\ [Next]_vars =>
        [\A i \in Instructions :
           txn'[i] # txn[i] /\ txn[i] # "NONE" => txn'[i] \in Allowed[txn[i]]]_vars
  <2> SUFFICES ASSUME ExecInv, RowInv, [Next]_vars,
                      NEW i \in Instructions, txn'[i] # txn[i], txn[i] # "NONE"
               PROVE  txn'[i] \in Allowed[txn[i]]
    OBVIOUS
  <2>1. TxnMove(txn[i], txn'[i])
    BY RowsMove DEF ExecInv, Moves
  <2> QED
    BY <2>1 DEF RowInv, TxnMove, SettledStates, Allowed
<1> QED
  BY <1>1, ExecInvariant, RowInvariant, PTL DEF Spec, LedgerFollowsEdges

-----------------------------------------------------------------------------
(* The roll-up: what a verdict says of the rows stays true of them.        *)

Said(v) ==
  /\ v = "SUCCESS" => \A i \in Instructions : txn[i] = "SUCCESS"
  /\ v = "FAILED" => \A i \in Instructions : txn[i] = "FAILED"
  /\ v = "PARTIAL_SUCCESS" =>
       /\ \A i \in Instructions : txn[i] \in SettledStates
       /\ Some("SUCCESS") /\ Some("FAILED")
  /\ v = "TIMEOUT" => \A i \in Instructions : txn[i] # "NONE"

VerdictInv == Said(batch) /\ Said(verdict)

\* A settled row stays as it is, and no row goes away.
LEMMA SaidStays ==
  ASSUME Moves, NEW v, Said(v)
  PROVE  Said(v)'
<1>1. ASSUME NEW n \in Instructions, txn[n] \in SettledStates PROVE txn'[n] = txn[n]
  BY <1>1 DEF Moves, TxnMove, SettledStates
<1>2. ASSUME NEW n \in Instructions, txn[n] # "NONE" PROVE txn'[n] # "NONE"
  BY <1>2 DEF Moves, TxnMove
<1> QED
  BY <1>1, <1>2 DEF Said, Some, SettledStates

\* maybeSettleBatch says what the rows it read say.
LEMMA RollUpSays ==
  ASSUME RowInv, batch \in {"QUEUED", "PROCESSING", "TIMEOUT", "SUCCESS", "FAILED", "PARTIAL_SUCCESS"}
  PROVE  Said(RollUp)
<1>1. CASE batch # "PROCESSING" \/ \E i \in Instructions : txn[i] \in InFlight \cup {"NONE"}
  BY <1>1 DEF RollUp, Said
<1>2. CASE batch = "PROCESSING" /\ \A i \in Instructions : txn[i] \notin InFlight \cup {"NONE"}
  <2>1. \A i \in Instructions : txn[i] \in {"TIMEOUT", "SUCCESS", "FAILED"}
    BY <1>2 DEF RowInv, InFlight
  <2>2. CASE Some("TIMEOUT")
    BY <1>2, <2>1, <2>2 DEF RollUp, Said
  <2>3. CASE ~Some("TIMEOUT")
    <3>1. \A i \in Instructions : txn[i] \in {"SUCCESS", "FAILED"}
      BY <2>1, <2>3 DEF Some
    <3>2. CASE ~Some("FAILED")
      BY <1>2, <2>3, <3>1, <3>2 DEF RollUp, Said, Some
    <3>3. CASE Some("FAILED") /\ ~Some("SUCCESS")
      BY <1>2, <2>3, <3>1, <3>3 DEF RollUp, Said, Some
    <3>4. CASE Some("FAILED") /\ Some("SUCCESS")
      BY <1>2, <2>3, <3>1, <3>4 DEF RollUp, Said, SettledStates
    <3> QED
      BY <3>2, <3>3, <3>4
  <2> QED
    BY <2>2, <2>3
<1> QED
  BY <1>1, <1>2

\* Who writes the batch writes PROCESSING, or the verdict it holds the lock with.
LEMMA BatchMoves ==
  ASSUME [Next]_vars
  PROVE  /\ batch' \in {batch, "PROCESSING", verdict}
         /\ verdict' \in {verdict, "NONE", RollUp}
<1> USE DEF ledger, cases, rollup, mpesa, budget
<1>1. ASSUME NEW w \in Workers, WorkerStep(w)
      PROVE  batch' \in {batch, "PROCESSING", verdict} /\ verdict' \in {verdict, "NONE", RollUp}
  <2>1. CASE WorkerTakesLock(w) \/ WorkerSettlesBatch(w) \/ WorkerCrash(w) \/ UnclassifiedError(w)
    BY <2>1 DEF WorkerTakesLock, WorkerSettlesBatch, WorkerCrash, UnclassifiedError, TakeLock, WriteRollUp
  <2>2. CASE PrepareSubmission(w)
    BY <2>2 DEF PrepareSubmission
  <2>3. CASE ~ \/ WorkerTakesLock(w) \/ WorkerSettlesBatch(w) \/ WorkerCrash(w) \/ UnclassifiedError(w)
               \/ PrepareSubmission(w)
    <3>1. UNCHANGED <<batch, verdict>>
      BY <1>1, <2>3 DEF WorkerStep, ClaimJob, SettleJob, Throttle, SkipSubmission, SkipDisabled, LoadClientFails,
        SendPayment, RecordAck, MarkForReconciliation, RecordRejection, WorkerFindsLockBusy
    <3> QED
      BY <3>1
  <2> QED
    BY <2>1, <2>2, <2>3
<1>2. ASSUME NEW k \in Deliveries, CallbackStep(k)
      PROVE  batch' \in {batch, "PROCESSING", verdict} /\ verdict' \in {verdict, "NONE", RollUp}
  BY <1>2 DEF CallbackStep, StoreCallback, EnqueueCallback, CallbackNeverApplied, ApplyB2cResult,
    ApplyTransactionStatus, CallbackTakesLock, CallbackFindsLockBusy, CallbackSettlesBatch,
    CallbackDiesBeforeRollUp, CallbackHandledAgain, TakeLock, WriteRollUp
<1>3. ASSUME NEW i \in Instructions, SweepStep(i) PROVE UNCHANGED <<batch, verdict>>
  BY <1>3 DEF SweepStep, SweepSelects, SweepOpensCase, ReconcileSelects, Escalate, QueryUnavailable,
    AskStatus, QueryFails, RecordQuery, MarkReconciling, SweepDies
<1>4. ASSUME NEW i \in Instructions, RecoverLease(i) \/ ProviderDecides(i) PROVE UNCHANGED <<batch, verdict>>
  BY <1>4 DEF RecoverLease, ProviderDecides
<1>5. CASE ToggleDaraja \/ UNCHANGED vars
  BY <1>5 DEF ToggleDaraja, vars
<1> QED
  BY <1>1, <1>2, <1>3, <1>4, <1>5 DEF Next

\* What was said of the rows is still so, whether it is written yet or not.
LEMMA VerdictInvariant == Spec => []VerdictInv
<1>1. Init => VerdictInv
  BY DEF Init, VerdictInv, Said
<1>2. ExecInv /\ RowInv /\ VerdictInv /\ [Next]_vars => VerdictInv'
  <2> SUFFICES ASSUME ExecInv, RowInv, VerdictInv, [Next]_vars PROVE VerdictInv'
    OBVIOUS
  <2>1. Moves
    BY RowsMove DEF ExecInv
  <2>2. Said(batch) /\ Said(verdict) /\ Said(RollUp)
    BY RollUpSays DEF VerdictInv, ExecInv, TypeOK
  <2>3. Said("NONE") /\ Said("PROCESSING")
    BY DEF Said
  <2>4. \A v : Said(v) =>
          /\ v = "SUCCESS" => \A i \in Instructions : txn'[i] = "SUCCESS"
          /\ v = "FAILED" => \A i \in Instructions : txn'[i] = "FAILED"
          /\ v = "PARTIAL_SUCCESS" =>
               /\ \A i \in Instructions : txn'[i] \in SettledStates
               /\ (\E i \in Instructions : txn'[i] = "SUCCESS") /\ (\E i \in Instructions : txn'[i] = "FAILED")
          /\ v = "TIMEOUT" => \A i \in Instructions : txn'[i] # "NONE"
    BY <2>1, SaidStays DEF Said, Some
  <2>5. Said(batch') /\ Said(verdict')
    BY <2>2, <2>3, BatchMoves
  <2> QED
    BY <2>4, <2>5 DEF VerdictInv, Said, Some
<1> QED
  BY <1>1, <1>2, ExecInvariant, RowInvariant, PTL DEF Spec

\* The roll-up is computed under the lock from rows that callbacks go on changing until it
\* is written (maybeSettleBatch), and it never overstates all the same.
THEOREM RollUpIsTrue == Spec => []VerdictIsTrue
<1>1. VerdictInv => VerdictIsTrue
  BY DEF VerdictInv, Said, VerdictIsTrue
<1> QED
  BY <1>1, VerdictInvariant, PTL

-----------------------------------------------------------------------------
(* Reconciliation cases: a reference is used by a case that is there.      *)

CaseInv ==
  /\ CasesAreTrue
  /\ UnknownHasCase
  /\ \A i \in Instructions : refUsed[i] => rcase[i] # "NONE"

\* No case moves, and no outcome becomes unknown.
Quiet ==
  /\ UNCHANGED <<rcase, refUsed, flagged, contra>>
  /\ \A n \in Instructions : txn'[n] = "TIMEOUT" => txn[n] = "TIMEOUT"

\* What a resolved case says is final, like the row it says it of.
LEMMA ResolvedStays ==
  ASSUME Moves, CaseInv, NEW n \in Instructions, rcase[n] \in {"RESOLVED_SUCCESS", "RESOLVED_FAILED"}
  PROVE  /\ txn[n] \in SettledStates /\ txn'[n] = txn[n]
         /\ rcase[n] = "RESOLVED_SUCCESS" => txn'[n] = "SUCCESS"
         /\ rcase[n] = "RESOLVED_FAILED" => txn'[n] = "FAILED"
  BY DEF Moves, TxnMove, CaseInv, CasesAreTrue, SettledStates

LEMMA QuietKeeps ==
  ASSUME TypeOK, Moves, CaseInv, Quiet
  PROVE  CaseInv'
<1>1. CasesAreTrue'
  BY ResolvedStays DEF Quiet, CaseInv, CasesAreTrue
<1>2. UnknownHasCase'
  BY DEF Quiet, CaseInv, UnknownHasCase
<1> QED
  BY <1>1, <1>2 DEF Quiet, CaseInv

\* A case of another instruction is left alone.
LEMMA OnlyOne ==
  ASSUME TypeOK, Moves, CaseInv, NEW i \in Instructions,
         \A n \in Instructions \ {i} :
           /\ rcase'[n] = rcase[n] /\ refUsed'[n] = refUsed[n] /\ flagged'[n] = flagged[n]
           /\ contra'[n] = contra[n] /\ txn'[n] = txn[n],
         rcase'[i] = "RESOLVED_SUCCESS" => txn'[i] = "SUCCESS",
         rcase'[i] = "RESOLVED_FAILED" => txn'[i] = "FAILED",
         flagged'[i] => contra'[i],
         contra'[i] \/ refUsed'[i] => rcase'[i] # "NONE",
         txn'[i] = "TIMEOUT" => rcase'[i] \in OpenStates \cup {"ESCALATED"}
  PROVE  CaseInv'
<1>1. CasesAreTrue'
  BY DEF CaseInv, CasesAreTrue
<1>2. UnknownHasCase'
  BY DEF CaseInv, UnknownHasCase
<1> QED
  BY <1>1, <1>2 DEF CaseInv

\* A case under the reference of an unsettled transaction is open afterwards, or escalated;
\* under that of a settled one, it is there.
LEMMA ReferencedCase ==
  ASSUME TypeOK, CaseInv, NEW i \in Instructions, NEW b \in BOOLEAN, OpenReferencedCase(i, b)
  PROVE  /\ \A n \in Instructions \ {i} :
              rcase'[n] = rcase[n] /\ refUsed'[n] = refUsed[n] /\ flagged'[n] = flagged[n]
         /\ rcase'[i] # "NONE"
         /\ rcase'[i] \in {rcase[i], "OPEN"}
         /\ flagged'[i] => flagged[i] \/ b
         /\ txn[i] \notin SettledStates => rcase'[i] \in OpenStates \cup {"ESCALATED"}
<1>1. CASE CanOpenReferenced(i)
  BY <1>1 DEF TypeOK, OpenReferencedCase, OpenCase, OpenStates
<1>2. CASE ~CanOpenReferenced(i)
  <2>1. UNCHANGED cases
    BY <1>2 DEF OpenReferencedCase
  <2>2. rcase[i] # "NONE"
    BY <1>2 DEF CanOpenReferenced, OpenStates, CaseInv
  <2>3. txn[i] \notin SettledStates => rcase[i] \in OpenStates \cup {"ESCALATED"}
    BY <2>2 DEF TypeOK, OpenStates, CaseInv, CasesAreTrue, SettledStates
  <2> QED
    BY <2>1, <2>2, <2>3 DEF cases
<1> QED
  BY <1>1, <1>2

\* Whether the transaction was settled and stays so, or its outcome is unknown from now on.
LEMMA ReferencedKeeps ==
  ASSUME TypeOK, Moves, CaseInv, NEW i \in Instructions, NEW b \in BOOLEAN, OpenReferencedCase(i, b),
         \A n \in Instructions \ {i} : contra'[n] = contra[n] /\ txn'[n] = txn[n],
         contra'[i] <=> contra[i] \/ b,
         \/ txn[i] \in SettledStates /\ txn'[i] = txn[i]
         \/ txn[i] \notin SettledStates /\ txn'[i] = "TIMEOUT"
  PROVE  CaseInv'
<1>1. /\ \A n \in Instructions \ {i} :
           rcase'[n] = rcase[n] /\ refUsed'[n] = refUsed[n] /\ flagged'[n] = flagged[n]
      /\ rcase'[i] # "NONE" /\ rcase'[i] \in {rcase[i], "OPEN"}
      /\ flagged'[i] => flagged[i] \/ b
      /\ txn[i] \notin SettledStates => rcase'[i] \in OpenStates \cup {"ESCALATED"}
  BY ReferencedCase
<1>2. /\ rcase'[i] = "RESOLVED_SUCCESS" => txn'[i] = "SUCCESS"
      /\ rcase'[i] = "RESOLVED_FAILED" => txn'[i] = "FAILED"
  BY <1>1, ResolvedStays
<1>3. flagged'[i] => contra'[i]
  BY <1>1 DEF CaseInv, CasesAreTrue
<1>4. txn'[i] = "TIMEOUT" => rcase'[i] \in OpenStates \cup {"ESCALATED"}
  BY <1>1 DEF SettledStates
<1> QED
  BY <1>1, <1>2, <1>3, <1>4, OnlyOne

\* A delivery that finds the transaction settled: a contradiction leaves a case behind.
LEMMA NoteKeeps ==
  ASSUME TypeOK, Moves, CaseInv, NEW k \in Deliveries, NEW c \in BOOLEAN,
         txn[k[1]] \in SettledStates, NoteSettled(k, c)
  PROVE  CaseInv'
<1> DEFINE i == k[1]
<1>1. i \in Instructions
  BY DEF Deliveries
<1>2. UNCHANGED txn /\ contra' = [contra EXCEPT ![i] = contra[i] \/ c]
  BY Zenon DEF NoteSettled
<1>3. CASE c
  <2>1. OpenReferencedCase(i, TRUE)
    BY <1>3, Zenon DEF NoteSettled
  <2>2. contra' = [contra EXCEPT ![i] = TRUE]
    BY <1>2, <1>3
  <2> QED
    <3>1. \A n \in Instructions \ {i} : contra'[n] = contra[n] /\ txn'[n] = txn[n]
      BY <1>1, <1>2, <2>2 DEF TypeOK
    <3>2. contra'[i] <=> contra[i] \/ TRUE
      BY <1>1, <2>2 DEF TypeOK
    <3>3. txn'[i] = txn[i] /\ TRUE \in BOOLEAN
      BY <1>2
    <3> QED
      BY <1>1, <2>1, <3>1, <3>2, <3>3, ReferencedKeeps
<1>4. CASE ~c
  <2>1. UNCHANGED cases
    BY <1>4 DEF NoteSettled
  <2>2. contra' = contra
    BY <1>1, <1>2, <1>4 DEF TypeOK
  <2> QED
    BY <1>2, <2>1, <2>2, QuietKeeps DEF Quiet, cases
<1> QED
  BY <1>3, <1>4

LEMMA CaseNext == ExecInv /\ CaseInv /\ [Next]_vars => CaseInv'
<1> SUFFICES ASSUME ExecInv, CaseInv, [Next]_vars PROVE CaseInv'
  OBVIOUS
<1>0. TypeOK /\ Moves
  BY RowsMove DEF ExecInv
<1> USE DEF ledger, cases, rollup, mpesa, budget
<1>1. ASSUME NEW w \in Workers, WorkerStep(w) PROVE CaseInv'
  <2>1. CASE MarkForReconciliation(w)
    <3>1. on[w] \in Instructions /\ UNCHANGED contra
      BY <1>0, <2>1 DEF MarkForReconciliation, TypeOK
    <3>2. CASE txn[on[w]] \in SettledStates
      BY <1>0, <2>1, <3>2, QuietKeeps DEF MarkForReconciliation, Quiet
    <3>3. CASE txn[on[w]] \notin SettledStates
      <4>1. txn' = [txn EXCEPT ![on[w]] = "TIMEOUT"] /\ OpenReferencedCase(on[w], FALSE)
        BY <2>1, <3>3 DEF MarkForReconciliation
      <4> QED
        BY <1>0, <3>1, <3>3, <4>1, ReferencedKeeps DEF TypeOK
    <3> QED
      BY <3>2, <3>3
  <2>2. CASE ~MarkForReconciliation(w)
    <3>1. UNCHANGED <<rcase, refUsed, flagged, contra>>
      BY <1>1, <2>2 DEF WorkerStep, ClaimJob, SettleJob, Throttle, PrepareSubmission, SkipSubmission, SkipDisabled,
        LoadClientFails, SendPayment, RecordAck, RecordRejection, WorkerTakesLock, WorkerFindsLockBusy,
        WorkerSettlesBatch, WorkerCrash, UnclassifiedError
    <3>2. \/ UNCHANGED txn
          \/ PrepareSubmission(w) \/ SkipDisabled(w) \/ RecordAck(w) \/ RecordRejection(w)
      BY <1>1, <2>2 DEF WorkerStep, ClaimJob, SettleJob, Throttle, SkipSubmission, LoadClientFails, SendPayment,
        WorkerTakesLock, WorkerFindsLockBusy, WorkerSettlesBatch, WorkerCrash, UnclassifiedError
    <3>3. PrepareSubmission(w) \/ SkipDisabled(w) \/ RecordAck(w) =>
            \A n \in Instructions : txn'[n] = "TIMEOUT" => txn[n] = "TIMEOUT"
      BY <1>0 DEF TypeOK, PrepareSubmission, SkipDisabled, RecordAck
    <3>4. RecordRejection(w) => \A n \in Instructions : txn'[n] = "TIMEOUT" => txn[n] = "TIMEOUT"
      BY <1>0, RejectionCases DEF TypeOK
    <3>5. \A n \in Instructions : txn'[n] = "TIMEOUT" => txn[n] = "TIMEOUT"
      BY <3>2, <3>3, <3>4
    <3> QED
      BY <1>0, <3>1, <3>5, QuietKeeps DEF Quiet
  <2> QED
    BY <2>1, <2>2
<1>2. ASSUME NEW k \in Deliveries, CallbackStep(k) PROVE CaseInv'
  <2>0. k[1] \in Instructions
    BY DEF Deliveries
  <2>1. CASE ApplyB2cResult(k)
    <3>1. CASE txn[k[1]] \in SettledStates
      <4>1. PICK c \in BOOLEAN : NoteSettled(k, c)
        BY <2>1, <3>1 DEF ApplyB2cResult
      <4> QED
        BY <1>0, <3>1, <4>1, NoteKeeps
    <3>2. CASE txn[k[1]] \notin SettledStates
      <4>1. ApplyOutcome(k) /\ UNCHANGED contra
        BY <2>1, <3>2 DEF ApplyB2cResult, ApplyOutcome
      <4>2. CASE k[2] = "QUEUE_TIMEOUT"
        <5>1. txn' = [txn EXCEPT ![k[1]] = "TIMEOUT"] /\ OpenReferencedCase(k[1], FALSE)
          BY <4>1, <4>2 DEF ApplyOutcome
        <5> QED
          <6>1. /\ \A n \in Instructions \ {k[1]} : contra'[n] = contra[n] /\ txn'[n] = txn[n]
                /\ txn'[k[1]] = "TIMEOUT" /\ contra'[k[1]] = contra[k[1]]
            BY <1>0, <2>0, <4>1, <5>1 DEF TypeOK
          <6> QED
            BY <1>0, <2>0, <3>2, <5>1, <6>1, ReferencedKeeps
      <4>3. CASE k[2] # "QUEUE_TIMEOUT"
        <5>1. \E s \in {"SUCCESS", "FAILED"} : txn' = [txn EXCEPT ![k[1]] = s]
          BY <4>1, <4>3 DEF ApplyOutcome
        <5>2. UNCHANGED cases
          BY <4>1, <4>3 DEF ApplyOutcome
        <5> QED
          BY <1>0, <2>0, <4>1, <5>1, <5>2, QuietKeeps DEF Quiet, TypeOK
      <4> QED
        BY <4>2, <4>3
    <3> QED
      BY <3>1, <3>2
  <2>2. CASE ApplyTransactionStatus(k)
    <3>1. CASE txn[k[1]] \in SettledStates
      <4>1. PICK c \in BOOLEAN : NoteSettled(k, c)
        BY <2>2, <3>1 DEF ApplyTransactionStatus
      <4> QED
        BY <1>0, <3>1, <4>1, NoteKeeps
    <3>2. CASE txn[k[1]] \notin SettledStates
      <4>1. ApplyAnswer(k) /\ UNCHANGED <<contra, refUsed, flagged>>
        BY <2>2, <3>2 DEF ApplyTransactionStatus, ApplyAnswer
      <4>2. CASE k[2] = "STATUS_PENDING"
        <5>1. UNCHANGED txn /\ rcase' = [rcase EXCEPT ![k[1]] = IF rcase[k[1]] \in OpenStates THEN "QUERYING" ELSE @]
          BY <4>1, <4>2 DEF ApplyAnswer
        <5> QED
          BY <1>0, <2>0, <4>1, <5>1, OnlyOne
          DEF TypeOK, CaseInv, CasesAreTrue, UnknownHasCase, OpenStates
      <4>3. CASE k[2] # "STATUS_PENDING"
        <5>1. PICK s \in {"SUCCESS", "FAILED"} :
                /\ txn' = [txn EXCEPT ![k[1]] = s]
                /\ rcase' = [rcase EXCEPT ![k[1]] =
                               IF rcase[k[1]] \notin OpenStates THEN @
                               ELSE IF s = "SUCCESS" THEN "RESOLVED_SUCCESS" ELSE "RESOLVED_FAILED"]
          BY <4>1, <4>3 DEF ApplyAnswer
        <5>2. rcase[k[1]] \notin {"RESOLVED_SUCCESS", "RESOLVED_FAILED"}
          BY <2>0, <3>2 DEF CaseInv, CasesAreTrue, SettledStates
        <5> QED
          BY <1>0, <2>0, <4>1, <5>1, <5>2, OnlyOne
          DEF TypeOK, CaseInv, CasesAreTrue, OpenStates
      <4> QED
        BY <4>2, <4>3
    <3> QED
      BY <3>1, <3>2
  <2>3. CASE ~ApplyB2cResult(k) /\ ~ApplyTransactionStatus(k)
    <3>1. UNCHANGED <<rcase, refUsed, flagged, contra, txn>>
      BY <1>2, <2>3 DEF CallbackStep, StoreCallback, EnqueueCallback, CallbackNeverApplied, CallbackTakesLock,
        CallbackFindsLockBusy, CallbackSettlesBatch, CallbackDiesBeforeRollUp, CallbackHandledAgain
    <3> QED
      BY <1>0, <3>1, QuietKeeps DEF Quiet
  <2> QED
    BY <2>1, <2>2, <2>3
<1>3. ASSUME NEW i \in Instructions, SweepStep(i) PROVE CaseInv'
  <2>1. CASE SweepOpensCase(i) \/ Escalate(i) \/ RecordQuery(i)
    <3>1. UNCHANGED <<txn, refUsed, flagged, contra>>
      BY <2>1 DEF SweepOpensCase, Escalate, RecordQuery
    <3>2. /\ \A n \in Instructions \ {i} : rcase'[n] = rcase[n]
          /\ rcase'[i] = rcase[i] \/ rcase'[i] \in OpenStates \cup {"ESCALATED"}
      BY <1>0, <2>1 DEF TypeOK, OpenStates, SweepOpensCase, OpenCase, Escalate, RecordQuery
    <3> QED
      BY <1>0, <3>1, <3>2, OnlyOne DEF TypeOK, CaseInv, CasesAreTrue, UnknownHasCase, OpenStates
  <2>2. CASE MarkReconciling(i)
    <3>1. UNCHANGED <<rcase, refUsed, flagged, contra>>
      BY <2>2 DEF MarkReconciling
    <3>2. \A n \in Instructions : txn'[n] = "TIMEOUT" => txn[n] = "TIMEOUT"
      BY <1>0, <2>2 DEF MarkReconciling, TypeOK
    <3> QED
      BY <1>0, <3>1, <3>2, QuietKeeps DEF Quiet
  <2>3. CASE ~(SweepOpensCase(i) \/ Escalate(i) \/ RecordQuery(i)) /\ ~MarkReconciling(i)
    <3>1. UNCHANGED <<rcase, refUsed, flagged, contra, txn>>
      BY <1>3, <2>3 DEF SweepStep, SweepSelects, ReconcileSelects, QueryUnavailable, AskStatus, QueryFails, SweepDies
    <3> QED
      BY <1>0, <3>1, QuietKeeps DEF Quiet
  <2> QED
    BY <2>1, <2>2, <2>3
<1>4. ASSUME NEW i \in Instructions, RecoverLease(i) \/ ProviderDecides(i) PROVE CaseInv'
  BY <1>0, <1>4, QuietKeeps DEF Quiet, RecoverLease, ProviderDecides
<1>5. CASE ToggleDaraja \/ UNCHANGED vars
  BY <1>0, <1>5, QuietKeeps DEF Quiet, ToggleDaraja, vars
<1> QED
  BY <1>1, <1>2, <1>3, <1>4, <1>5 DEF Next

\* Every case is true and every unknown outcome has one, from the first.
LEMMA CaseInvariant == Spec => []CaseInv
<1>1. Init => CaseInv
  BY DEF Init, CaseInv, CasesAreTrue, UnknownHasCase
<1> QED
  BY <1>1, CaseNext, ExecInvariant, PTL DEF Spec

\* A transaction of unknown outcome is never without an open or escalated case, though the
\* executor, two callbacks and the sweep open and close cases under two kinds of reference.
THEOREM UnknownIsFollowed == Spec => []UnknownHasCase
<1>1. CaseInv => UnknownHasCase
  BY DEF CaseInv
<1> QED
  BY <1>1, CaseInvariant, PTL

\* What a case says of its transaction is so, and a contradiction is never without a case.
THEOREM CasesTellTheTruth == Spec => []CasesAreTrue
<1>1. CaseInv => CasesAreTrue
  BY DEF CaseInv
<1> QED
  BY <1>1, CaseInvariant, PTL

-----------------------------------------------------------------------------
(* Acknowledgements.                                                       *)

AckInv ==
  /\ toggles = 0 => enabled
  /\ \A w \in Workers : pc[w] \in {"settle", "locked"} => txn[on[w]] # "NONE"
  /\ \A w \in Workers : pc[w] = "ack" /\ toggles = 0 => txn[on[w]] # "NONE"
  /\ AckedIsRecorded

\* A batch that left the execution states has a row for every instruction, and so has a
\* claim that is not CLAIMED: what is skipped was recorded.
LEMMA SkippedIsRecorded ==
  ASSUME ExecInv, VerdictInv, NEW w \in Workers, SkipSubmission(w)
  PROVE  txn[on[w]] # "NONE"
<1>1. on[w] \in Instructions
  BY DEF ExecInv, TypeOK, SkipSubmission
<1>2. CASE batch \notin ExecutionStates
  BY <1>1, <1>2 DEF ExecInv, TypeOK, VerdictInv, Said, ExecutionStates, SettledStates
<1>3. CASE claim[on[w]] # "CLAIMED"
  BY <1>1, <1>3 DEF ExecInv, KnownInv
<1> QED
  BY <1>2, <1>3 DEF SkipSubmission, MaySubmit, DecideOnExistingClaim, ExecInv, TypeOK

\* Rows stay, so it is enough to look at what is newly acknowledged.
LEMMA AckStays ==
  ASSUME TypeOK, Moves, AckInv,
         toggles' = 0 => toggles = 0 /\ enabled',
         \A w \in Workers : pc'[w] \in {"settle", "locked", "ack"} =>
           \/ pc'[w] = pc[w] /\ on'[w] = on[w]
           \/ on'[w] \in Instructions /\ txn'[on'[w]] # "NONE"
           \/ pc'[w] = "ack" /\ toggles' # 0,
         \A n \in Instructions : job'[n].status = "SUCCEEDED" =>
           \/ job[n].status = "SUCCEEDED"
           \/ \E w \in Workers : pc[w] = "ack" /\ on[w] = n
  PROVE  AckInv'
<1>1. \A n \in Instructions : txn[n] # "NONE" => txn'[n] # "NONE"
  BY DEF Moves, TxnMove
<1>2. \A w \in Workers : pc[w] # "idle" => on[w] \in Instructions
  BY DEF TypeOK
<1>3. \A w \in Workers : pc'[w] \in {"settle", "locked"} => txn'[on'[w]] # "NONE"
  BY <1>1, <1>2 DEF AckInv
<1>4. \A w \in Workers : pc'[w] = "ack" /\ toggles' = 0 => txn'[on'[w]] # "NONE"
  BY <1>1, <1>2 DEF AckInv
<1>5. AckedIsRecorded'
  BY <1>1 DEF AckInv, AckedIsRecorded
<1> QED
  BY <1>3, <1>4, <1>5 DEF AckInv

\* A consumer that goes on to the roll-up or to its acknowledgement has a row.
LEMMA ConsumerGoesOn ==
  ASSUME TypeOK, Moves, AckInv, NEW w \in Workers, pc[w] # "idle",
         NEW label \in {"fetched", "prepared", "accepted", "unknown", "rejected", "settle", "locked", "ack", "retry"},
         pc' = [pc EXCEPT ![w] = label],
         UNCHANGED <<on, job, enabled, toggles>>,
         label \in {"settle", "locked", "ack"} => txn[on[w]] # "NONE" \/ (label = "ack" /\ toggles # 0)
  PROVE  AckInv'
<1>1. on[w] \in Instructions
  BY DEF TypeOK
<1>2. txn[on[w]] # "NONE" => txn'[on[w]] # "NONE"
  BY <1>1 DEF Moves, TxnMove
<1>3. ASSUME NEW v \in Workers, pc'[v] \in {"settle", "locked", "ack"}
      PROVE  \/ pc'[v] = pc[v] /\ on'[v] = on[v]
             \/ on'[v] \in Instructions /\ txn'[on'[v]] # "NONE"
             \/ pc'[v] = "ack" /\ toggles' # 0
  BY <1>1, <1>2, <1>3 DEF TypeOK
<1>4. toggles' = 0 => toggles = 0 /\ enabled'
  BY DEF AckInv
<1> QED
  BY <1>3, <1>4, AckStays

LEMMA AckNext == ExecInv /\ VerdictInv /\ AckInv /\ [Next]_vars => AckInv'
<1> SUFFICES ASSUME ExecInv, VerdictInv, AckInv, [Next]_vars PROVE AckInv'
  OBVIOUS
<1>0. TypeOK /\ KnownInv /\ Moves
  BY RowsMove DEF ExecInv
<1> USE ExecutionAssumption DEF ledger, cases, rollup, mpesa, budget, UseFault, Goto
<1>1. ASSUME NEW w \in Workers, WorkerStep(w) PROVE AckInv'
  <2>1. ASSUME NEW i \in Instructions, ClaimJob(w, i) PROVE AckInv'
    BY <1>0, <2>1, AckStays DEF ClaimJob, TypeOK, AckInv
  <2>2. CASE SettleJob(w)
    <3>1. \A n \in Instructions : job'[n].status = "SUCCEEDED" =>
            \/ job[n].status = "SUCCEEDED"
            \/ pc[w] = "ack" /\ on[w] = n
      BY <1>0, <2>2 DEF SettleJob, JobAfterAck, JobAfterRetry, TypeOK
    <3>2. \A v \in Workers : pc'[v] \in {"settle", "locked", "ack"} => pc'[v] = pc[v] /\ on'[v] = on[v]
      BY <1>0, <2>2 DEF SettleJob, TypeOK
    <3>3. UNCHANGED <<toggles, enabled>>
      BY <2>2 DEF SettleJob
    <3> QED
      BY <1>0, <3>1, <3>2, <3>3, AckStays DEF AckInv
  <2>3. CASE Throttle(w)
    BY <1>0, <2>3, ConsumerGoesOn DEF Throttle
  <2>4. CASE PrepareSubmission(w)
    BY <1>0, <2>4, ConsumerGoesOn DEF PrepareSubmission
  <2>5. CASE SkipSubmission(w)
    <3>1. txn[on[w]] # "NONE"
      BY <2>5, SkippedIsRecorded
    <3>2. /\ pc[w] # "idle" /\ pc' = [pc EXCEPT ![w] = "ack"]
          /\ UNCHANGED <<on, job, enabled, toggles>>
      BY <2>5 DEF SkipSubmission
    <3> QED
      BY <1>0, <3>1, <3>2, ConsumerGoesOn
  <2>6. CASE SkipDisabled(w)
    <3>1. toggles # 0
      BY <2>6 DEF SkipDisabled, AckInv
    <3> QED
      BY <1>0, <2>6, <3>1, ConsumerGoesOn DEF SkipDisabled
  <2>7. CASE LoadClientFails(w)
    <3>1. txn[on[w]] # "NONE"
      BY <1>0, <2>7 DEF LoadClientFails, KnownInv, InCall
    <3>2. /\ pc[w] # "idle" /\ pc' = [pc EXCEPT ![w] = "ack"]
          /\ UNCHANGED <<on, job, enabled, toggles>>
      BY <2>7 DEF LoadClientFails
    <3> QED
      BY <1>0, <3>1, <3>2, ConsumerGoesOn
  <2>8. CASE SendPayment(w)
    <3>1. PICK label \in {"accepted", "unknown", "retry", "rejected"} : pc' = [pc EXCEPT ![w] = label]
      BY <2>8 DEF SendPayment
    <3> QED
      BY <1>0, <2>8, <3>1, ConsumerGoesOn DEF SendPayment
  <2>9. CASE RecordAck(w)
    <3>1. txn[on[w]] # "NONE"
      BY <1>0, <2>9 DEF RecordAck, KnownInv, InCall
    <3>2. /\ pc[w] # "idle" /\ pc' = [pc EXCEPT ![w] = "ack"]
          /\ UNCHANGED <<on, job, enabled, toggles>>
      BY <2>9 DEF RecordAck
    <3> QED
      BY <1>0, <3>1, <3>2, ConsumerGoesOn
  <2>10. CASE MarkForReconciliation(w)
    <3>1. txn[on[w]] # "NONE"
      BY <1>0, <2>10 DEF MarkForReconciliation, KnownInv, InCall
    <3>2. /\ pc[w] # "idle" /\ pc' = [pc EXCEPT ![w] = "ack"]
          /\ UNCHANGED <<on, job, enabled, toggles>>
      BY <2>10 DEF MarkForReconciliation
    <3> QED
      BY <1>0, <3>1, <3>2, ConsumerGoesOn
  <2>11. CASE RecordRejection(w)
    <3>1. txn[on[w]] # "NONE"
      BY <1>0, <2>11 DEF RecordRejection, KnownInv, InCall
    <3>2. PICK label \in {"settle", "retry"} : pc' = [pc EXCEPT ![w] = label]
      BY <2>11, RejectionCases
    <3>3. pc[w] # "idle" /\ UNCHANGED <<on, job, enabled, toggles>>
      BY <2>11 DEF RecordRejection
    <3> QED
      BY <1>0, <3>1, <3>2, <3>3, ConsumerGoesOn
  <2>12. CASE WorkerTakesLock(w)
    <3>1. txn[on[w]] # "NONE"
      BY <2>12 DEF WorkerTakesLock, AckInv
    <3>2. /\ pc[w] # "idle" /\ pc' = [pc EXCEPT ![w] = "locked"]
          /\ UNCHANGED <<on, job, enabled, toggles>>
      BY <2>12 DEF WorkerTakesLock
    <3> QED
      BY <1>0, <3>1, <3>2, ConsumerGoesOn
  <2>13. CASE WorkerFindsLockBusy(w)
    BY <1>0, <2>13, ConsumerGoesOn DEF WorkerFindsLockBusy
  <2>14. CASE WorkerSettlesBatch(w)
    <3>1. txn[on[w]] # "NONE"
      BY <2>14 DEF WorkerSettlesBatch, AckInv
    <3>2. /\ pc[w] # "idle" /\ pc' = [pc EXCEPT ![w] = "ack"]
          /\ UNCHANGED <<on, job, enabled, toggles>>
      BY <2>14 DEF WorkerSettlesBatch
    <3> QED
      BY <1>0, <3>1, <3>2, ConsumerGoesOn
  <2>15. CASE WorkerCrash(w)
    BY <1>0, <2>15, AckStays DEF WorkerCrash, TypeOK, AckInv
  <2>16. CASE UnclassifiedError(w)
    BY <1>0, <2>16, ConsumerGoesOn DEF UnclassifiedError
  <2> QED
    BY <1>1, <2>1, <2>2, <2>3, <2>4, <2>5, <2>6, <2>7, <2>8, <2>9, <2>10, <2>11, <2>12, <2>13, <2>14, <2>15, <2>16
    DEF WorkerStep
<1>2. ASSUME UNCHANGED <<pc, on>>, UNCHANGED job, toggles' = 0 => toggles = 0 /\ enabled' PROVE AckInv'
  BY <1>0, <1>2, AckStays
<1>3. ASSUME NEW k \in Deliveries, CallbackStep(k) PROVE AckInv'
  <2>1. UNCHANGED <<pc, on, job, enabled, toggles>>
    BY <1>3 DEF CallbackStep, StoreCallback, EnqueueCallback, CallbackNeverApplied, ApplyB2cResult,
      ApplyTransactionStatus, CallbackTakesLock, CallbackFindsLockBusy, CallbackSettlesBatch,
      CallbackDiesBeforeRollUp, CallbackHandledAgain
  <2> QED
    BY <1>2, <2>1 DEF AckInv
<1>4. ASSUME NEW i \in Instructions, SweepStep(i) PROVE AckInv'
  <2>1. UNCHANGED <<pc, on, job, enabled, toggles>>
    BY <1>4 DEF SweepStep, SweepSelects, SweepOpensCase, ReconcileSelects, Escalate, QueryUnavailable,
      AskStatus, QueryFails, RecordQuery, MarkReconciling, SweepDies
  <2> QED
    BY <1>2, <2>1 DEF AckInv
<1>5. ASSUME NEW i \in Instructions, RecoverLease(i) PROVE AckInv'
  <2>1. UNCHANGED <<pc, on, enabled, toggles>>
    BY <1>5 DEF RecoverLease
  <2>2. \A n \in Instructions : job'[n].status = "SUCCEEDED" => job[n].status = "SUCCEEDED"
    BY <1>0, <1>5 DEF RecoverLease, JobAfterRetry, TypeOK
  <2> QED
    BY <1>0, <2>1, <2>2, AckStays DEF AckInv
<1>6. ASSUME NEW i \in Instructions, ProviderDecides(i) PROVE AckInv'
  BY <1>2, <1>6 DEF ProviderDecides, AckInv
<1>7. CASE ToggleDaraja
  BY <1>0, <1>2, <1>7 DEF ToggleDaraja, TypeOK
<1>8. CASE UNCHANGED vars
  BY <1>2, <1>8 DEF vars, AckInv
<1> QED
  BY <1>1, <1>3, <1>4, <1>5, <1>6, <1>7, <1>8 DEF Next

\* While the integration stays enabled, no payments message is acknowledged before its
\* instruction has a row: an authorized payment is not dropped without a trace.
THEOREM NothingIsDropped == Spec => []AckedIsRecorded
<1>1. Init => AckInv
  BY DEF Init, AckInv, AckedIsRecorded
<1>2. AckInv => AckedIsRecorded
  BY DEF AckInv
<1> QED
  BY <1>1, <1>2, AckNext, ExecInvariant, VerdictInvariant, PTL DEF Spec

=============================================================================
