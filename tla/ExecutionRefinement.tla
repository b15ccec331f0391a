------------------------- MODULE ExecutionRefinement -------------------------
(***************************************************************************)
(* Execution implements Payout when every reply to a payment request is    *)
(* readable.  The step of each action is a step of Payout or a stutter:    *)
(* PrepareSubmission commits, SendPayment requests, M-PESA decides, and    *)
(* the first settling write of the ledger row records.  Whatever the       *)
(* replies, it implements Settlement.                                      *)
(***************************************************************************)
EXTENDS ExecutionProofs

Abs == Money!Next \/ UNCHANGED Money!payout

\* A step that changes none of what the mapping reads.
Untouched ==
  /\ UNCHANGED <<requests, provider>>
  /\ \A n \in Instructions :
       /\ claim'[n] = "CLAIMED" <=> claim[n] = "CLAIMED"
       /\ txn'[n] # txn[n] => {txn[n], txn'[n]} \cap SettledStates = {}

\* A step that leaves claims, requests, M-PESA and settled rows alone is a stutter of Payout.
LEMMA StutterStep == Untouched => Abs
  BY DEF Untouched, Abs, Money!payout, Intent, Outcome, Record

\* prepareSubmission's transaction is Payout's Commit.
LEMMA CommitStep ==
  ASSUME TypeOK, NEW i \in Instructions, txn[i] = "NONE", claim[i] = "CLAIMED",
         claim' = [claim EXCEPT ![i] = "SUBMITTED"],
         txn' = [txn EXCEPT ![i] = "SUBMITTED"],
         UNCHANGED <<requests, provider>>
  PROVE  Abs
<1>1. Intent[i] = "none"
  BY DEF Intent
<1>2. Intent' = [Intent EXCEPT ![i] = "recorded"]
  BY DEF Intent, TypeOK
<1>3. UNCHANGED <<requests, Outcome, Record>>
  BY DEF Outcome, Record, TypeOK, SettledStates
<1>4. Money!Commit(i)
  BY <1>1, <1>2, <1>3 DEF Money!Commit
<1> QED
  BY <1>4 DEF Abs, Money!Next

\* The B2C call, received, refused or lost on the way, is Payout's Request.
LEMMA RequestStep ==
  ASSUME TypeOK, NEW i \in Instructions, NEW p \in {"none", "received", "rejected"},
         claim[i] # "CLAIMED", requests[i] = 0, provider[i] = "none",
         provider' = [provider EXCEPT ![i] = p],
         requests' = [requests EXCEPT ![i] = 1],
         UNCHANGED <<claim, txn>>
  PROVE  Abs
<1>1. PICK q \in {"none", "pending", "unpaid"} :
         q = IF p = "none" THEN "none" ELSE IF p = "received" THEN "pending" ELSE "unpaid"
  OBVIOUS
<1>2. Outcome' = [Outcome EXCEPT ![i] = q]
  BY <1>1 DEF Outcome, TypeOK
<1>3. Intent[i] = "recorded" /\ UNCHANGED <<Intent, Record>>
  BY DEF Intent, Record
<1>4. Money!Request(i)
  BY <1>2, <1>3 DEF Money!Request
<1> QED
  BY <1>4 DEF Abs, Money!Next

\* M-PESA's decision is Payout's Decide.
LEMMA DecideStep ==
  ASSUME TypeOK, NEW i \in Instructions, NEW p \in {"paid", "refused"},
         provider[i] = "received",
         provider' = [provider EXCEPT ![i] = p],
         UNCHANGED <<claim, txn, requests>>
  PROVE  Abs
<1>1. Outcome[i] = "pending"
  BY DEF Outcome
<1>2. PICK q \in {"paid", "unpaid"} : q = IF p = "paid" THEN "paid" ELSE "unpaid"
  OBVIOUS
<1>3. Outcome' = [Outcome EXCEPT ![i] = q]
  BY <1>2 DEF Outcome, TypeOK
<1>4. UNCHANGED <<Intent, requests, Record>>
  BY DEF Intent, Record
<1>5. Money!Decide(i)
  BY <1>1, <1>3, <1>4 DEF Money!Decide
<1> QED
  BY <1>5 DEF Abs, Money!Next

\* The first settling write of a row, when it says what M-PESA did.
LEMMA RecordStep ==
  ASSUME TypeOK,
         NEW i \in Instructions, NEW s \in {"SUCCESS", "FAILED"},
         txn[i] \notin SettledStates, claim[i] # "CLAIMED",
         txn' = [txn EXCEPT ![i] = s], claim' = [claim EXCEPT ![i] = "SETTLED"],
         s = "SUCCESS" => provider[i] = "paid",
         s = "FAILED" => provider[i] \in {"refused", "rejected"},
         UNCHANGED <<requests, provider>>
  PROVE  Abs
<1>1. Record[i] = "OPEN" /\ Outcome[i] = IF s = "SUCCESS" THEN "paid" ELSE "unpaid"
  BY DEF Record, Outcome
<1>2. Record' = [Record EXCEPT ![i] = s]
  BY DEF Record, TypeOK, SettledStates
<1>3. UNCHANGED <<Intent, requests, Outcome>>
  BY DEF Intent, Outcome, TypeOK
<1>4. Money!Record(i)
  BY <1>1, <1>2, <1>3 DEF Money!Record
<1> QED
  BY <1>4 DEF Abs, Money!Next

\* Every step of the execution is a step of Payout or a stutter.
LEMMA AbstractStep ==
  ASSUME GarbledReplies = FALSE
  PROVE  ExecInv /\ [Next]_vars => Abs
<1> SUFFICES ASSUME TypeOK, KnownInv, CallInv, TruthInv, [Next]_vars PROVE Abs
  BY DEF ExecInv
<1> USE ExecutionAssumption DEF ledger, cases, rollup, mpesa, budget, UseFault, Goto
<1>1. ASSUME NEW w \in Workers, WorkerStep(w) PROVE Abs
  <2>1. ASSUME NEW i \in Instructions, ClaimJob(w, i) PROVE Abs
    BY <2>1, StutterStep DEF Untouched, ClaimJob
  <2>2. CASE SettleJob(w)
    BY <2>2, StutterStep DEF Untouched, SettleJob
  <2>3. CASE Throttle(w)
    BY <2>3, StutterStep DEF Untouched, Throttle
  <2>4. CASE PrepareSubmission(w)
    <3>1. /\ on[w] \in Instructions /\ txn[on[w]] = "NONE" /\ claim[on[w]] = "CLAIMED"
          /\ claim' = [claim EXCEPT ![on[w]] = "SUBMITTED"]
          /\ txn' = [txn EXCEPT ![on[w]] = "SUBMITTED"]
          /\ UNCHANGED <<requests, provider>>
      BY <2>4 DEF TypeOK, KnownInv, PrepareSubmission
    <3> QED
      BY <3>1, CommitStep
  <2>5. CASE SkipSubmission(w)
    BY <2>5, StutterStep DEF Untouched, SkipSubmission
  <2>6. CASE SkipDisabled(w)
    <3>1. on[w] \in Instructions /\ txn[on[w]] = "NONE"
      BY <2>6 DEF TypeOK, KnownInv, SkipDisabled, MaySubmit, DecideOnExistingClaim
    <3>2. Untouched
      BY <2>6, <3>1 DEF Untouched, TypeOK, SkipDisabled
    <3> QED
      BY <3>2, StutterStep
  <2>7. CASE LoadClientFails(w)
    BY <2>7, StutterStep DEF Untouched, LoadClientFails
  <2>8. CASE SendPayment(w)
    <3>1. /\ on[w] \in Instructions /\ provider[on[w]] = "none" /\ requests[on[w]] = 0
          /\ claim[on[w]] # "CLAIMED"
      BY <2>8 DEF TypeOK, KnownInv, CallInv, InCall, SendPayment
    <3>2. PICK p \in {"none", "received", "rejected"} :
             provider' = [provider EXCEPT ![on[w]] = p]
      BY <2>8, <3>1 DEF TypeOK, SendPayment
    <3>3. /\ requests' = [requests EXCEPT ![on[w]] = 1]
          /\ UNCHANGED <<claim, txn>>
      BY <2>8, <3>1 DEF TypeOK, SendPayment
    <3> QED
      BY <3>1, <3>2, <3>3, RequestStep
  <2>9. CASE RecordAck(w)
    <3>1. /\ on[w] \in Instructions
          /\ txn' = [txn EXCEPT ![on[w]] =
                        IF txn[on[w]] = "SUBMITTED" THEN "AWAITING_CALLBACK" ELSE txn[on[w]]]
          /\ UNCHANGED <<claim, requests, provider>>
      BY <2>9 DEF TypeOK, RecordAck
    <3>2. Untouched
      BY <3>1 DEF Untouched, TypeOK, SettledStates
    <3> QED
      BY <3>2, StutterStep
  <2>10. CASE MarkForReconciliation(w)
    <3>1. on[w] \in Instructions /\ UNCHANGED <<claim, requests, provider>>
      BY <2>10 DEF TypeOK, MarkForReconciliation
    <3>2. CASE txn[on[w]] \in SettledStates
      BY <2>10, <3>1, <3>2, StutterStep DEF Untouched, MarkForReconciliation
    <3>3. CASE txn[on[w]] \notin SettledStates
      <4>1. txn' = [txn EXCEPT ![on[w]] = "TIMEOUT"]
        BY <2>10, <3>3 DEF MarkForReconciliation
      <4>2. Untouched
        BY <3>1, <3>3, <4>1 DEF Untouched, TypeOK, SettledStates
      <4> QED
        BY <4>2, StutterStep
    <3> QED
      BY <3>2, <3>3
  <2>11. CASE RecordRejection(w)
    <3>1. /\ on[w] \in Instructions /\ provider[on[w]] = "rejected"
          /\ UNCHANGED <<requests, provider>>
          /\ claim[on[w]] # "CLAIMED"
      BY <2>11 DEF TypeOK, KnownInv, TruthInv, InCall, RecordRejection
    <3>2. CASE /\ txn[on[w]] \notin {"SUCCESS", "CANCELLED"}
               /\ txn' = [txn EXCEPT ![on[w]] = "FAILED"]
               /\ claim' = [claim EXCEPT ![on[w]] = "SETTLED"]
      <4>1. CASE txn[on[w]] = "FAILED"
        <5>1. Untouched
          BY <3>1, <3>2, <4>1 DEF Untouched, TypeOK
        <5> QED
          BY <5>1, StutterStep
      <4>2. CASE txn[on[w]] # "FAILED"
        <5>1. txn[on[w]] \notin SettledStates
          BY <3>2, <4>2 DEF SettledStates
        <5> QED
          BY <3>1, <3>2, <5>1, RecordStep
      <4> QED
        BY <4>1, <4>2
    <3>3. CASE UNCHANGED <<txn, claim>>
      BY <3>1, <3>3, StutterStep DEF Untouched
    <3> QED
      BY <2>11, <3>2, <3>3, RejectionCases
  <2>12. CASE WorkerTakesLock(w)
    BY <2>12, StutterStep DEF Untouched, WorkerTakesLock, TakeLock
  <2>13. CASE WorkerFindsLockBusy(w)
    BY <2>13, StutterStep DEF Untouched, WorkerFindsLockBusy
  <2>14. CASE WorkerSettlesBatch(w)
    BY <2>14, StutterStep DEF Untouched, WorkerSettlesBatch, WriteRollUp
  <2>15. CASE WorkerCrash(w)
    BY <2>15, StutterStep DEF Untouched, WorkerCrash
  <2>16. CASE UnclassifiedError(w)
    BY <2>16, StutterStep DEF Untouched, UnclassifiedError
  <2> QED
    BY <1>1, <2>1, <2>2, <2>3, <2>4, <2>5, <2>6, <2>7, <2>8, <2>9, <2>10, <2>11, <2>12, <2>13, <2>14, <2>15, <2>16 DEF WorkerStep
<1>2. ASSUME NEW k \in Deliveries, CallbackStep(k) PROVE Abs
  <2>0. k[1] \in Instructions /\ k[2] \in Kinds
    BY DEF Deliveries
  <2> USE DEF SetCallback
  <2>1. CASE StoreCallback(k)
    BY <2>0, <2>1, StutterStep DEF Untouched, StoreCallback, CanDeliver
  <2>2. CASE EnqueueCallback(k)
    BY <2>0, <2>2, StutterStep DEF Untouched, EnqueueCallback
  <2>3. CASE CallbackNeverApplied(k)
    BY <2>0, <2>3, StutterStep DEF Untouched, CallbackNeverApplied, Dropped
  <2>4. CASE ApplyB2cResult(k)
    <3>1. /\ cb[k] # "none" /\ k[2] \in ResultKinds
          /\ UNCHANGED <<requests, provider>>
      BY <2>4 DEF ApplyB2cResult
    <3>2. CASE txn[k[1]] \in SettledStates
      <4>1. Untouched
        BY <2>4, <3>1, <3>2 DEF Untouched, ApplyB2cResult, NoteSettled
      <4> QED
        BY <4>1, StutterStep
    <3>3. CASE txn[k[1]] \notin SettledStates
      <4>1. ApplyOutcome(k)
        BY <2>4, <3>3 DEF ApplyB2cResult
      <4>2. claim[k[1]] # "CLAIMED" /\ provider[k[1]] \in Says(k[2])
        BY <2>0, <3>1 DEF KnownInv, TruthInv
      <4>3. CASE k[2] = "QUEUE_TIMEOUT"
        <5>1. /\ txn' = [txn EXCEPT ![k[1]] = "TIMEOUT"]
              /\ claim' = [claim EXCEPT ![k[1]] = "SUBMITTED"]
          BY <4>1, <4>3 DEF ApplyOutcome
        <5>2. Untouched
          BY <2>0, <3>1, <3>3, <4>2, <5>1 DEF Untouched, TypeOK, SettledStates
        <5> QED
          BY <5>2, StutterStep
      <4>4. CASE k[2] # "QUEUE_TIMEOUT"
        <5>1. PICK s \in {"SUCCESS", "FAILED"} :
                /\ txn' = [txn EXCEPT ![k[1]] = s]
                /\ claim' = [claim EXCEPT ![k[1]] = "SETTLED"]
                /\ s = "SUCCESS" => k[2] = "RESULT_OK"
                /\ s = "FAILED" => k[2] = "RESULT_FAIL"
          BY <3>1, <4>1, <4>4 DEF ApplyOutcome, ResultKinds
        <5>2. /\ s = "SUCCESS" => provider[k[1]] = "paid"
              /\ s = "FAILED" => provider[k[1]] = "refused"
          BY <4>2, <5>1 DEF Says
        <5> QED
          BY <2>0, <3>1, <3>3, <4>2, <5>1, <5>2, RecordStep
      <4> QED
        BY <4>3, <4>4
    <3> QED
      BY <3>2, <3>3
  <2>5. CASE ApplyTransactionStatus(k)
    <3>1. /\ cb[k] # "none" /\ k[2] \in StatusKinds
          /\ UNCHANGED <<requests, provider>>
      BY <2>5 DEF ApplyTransactionStatus
    <3>2. CASE txn[k[1]] \in SettledStates
      <4>1. Untouched
        BY <2>5, <3>1, <3>2 DEF Untouched, ApplyTransactionStatus, NoteSettled
      <4> QED
        BY <4>1, StutterStep
    <3>3. CASE txn[k[1]] \notin SettledStates
      <4>1. ApplyAnswer(k)
        BY <2>5, <3>3 DEF ApplyTransactionStatus
      <4>2. claim[k[1]] # "CLAIMED" /\ provider[k[1]] \in Says(k[2])
        BY <2>0, <3>1 DEF KnownInv, TruthInv
      <4>3. CASE k[2] = "STATUS_PENDING"
        <5>1. Untouched
          BY <3>1, <4>1, <4>3 DEF Untouched, ApplyAnswer
        <5> QED
          BY <5>1, StutterStep
      <4>4. CASE k[2] # "STATUS_PENDING"
        <5>1. PICK s \in {"SUCCESS", "FAILED"} :
                /\ txn' = [txn EXCEPT ![k[1]] = s]
                /\ claim' = [claim EXCEPT ![k[1]] = "SETTLED"]
                /\ s = "SUCCESS" => k[2] = "STATUS_OK"
                /\ s = "FAILED" => k[2] = "STATUS_FAIL"
          BY <3>1, <4>1, <4>4 DEF ApplyAnswer, StatusKinds
        <5>2. /\ s = "SUCCESS" => provider[k[1]] = "paid"
              /\ s = "FAILED" => provider[k[1]] = "refused"
          BY <4>2, <5>1 DEF Says
        <5> QED
          BY <2>0, <3>1, <3>3, <4>2, <5>1, <5>2, RecordStep
      <4> QED
        BY <4>3, <4>4
    <3> QED
      BY <3>2, <3>3
  <2>6. CASE CallbackTakesLock(k)
    BY <2>0, <2>6, StutterStep DEF Untouched, CallbackTakesLock, TakeLock
  <2>7. CASE CallbackFindsLockBusy(k)
    BY <2>0, <2>7, StutterStep DEF Untouched, CallbackFindsLockBusy, Processed
  <2>8. CASE CallbackSettlesBatch(k)
    BY <2>0, <2>8, StutterStep DEF Untouched, CallbackSettlesBatch, WriteRollUp, Processed
  <2>9. CASE CallbackDiesBeforeRollUp(k)
    BY <2>0, <2>9, StutterStep DEF Untouched, CallbackDiesBeforeRollUp, Processed
  <2>10. CASE CallbackHandledAgain(k)
    BY <2>0, <2>10, StutterStep DEF Untouched, CallbackHandledAgain
  <2> QED
    BY <1>2, <2>1, <2>2, <2>3, <2>4, <2>5, <2>6, <2>7, <2>8, <2>9, <2>10 DEF CallbackStep
<1>3. ASSUME NEW i \in Instructions, SweepStep(i) PROVE Abs
  <2> USE DEF GotoSweep
  <2>1. CASE SweepSelects(i)
    BY <2>1, StutterStep DEF Untouched, SweepSelects
  <2>2. CASE SweepOpensCase(i)
    BY <2>2, StutterStep DEF Untouched, SweepOpensCase
  <2>3. CASE ReconcileSelects(i)
    BY <2>3, StutterStep DEF Untouched, ReconcileSelects
  <2>4. CASE Escalate(i)
    BY <2>4, StutterStep DEF Untouched, Escalate
  <2>5. CASE QueryUnavailable(i)
    BY <2>5, StutterStep DEF Untouched, QueryUnavailable
  <2>6. CASE AskStatus(i)
    BY <2>6, StutterStep DEF Untouched, AskStatus
  <2>7. CASE QueryFails(i)
    BY <2>7, StutterStep DEF Untouched, QueryFails
  <2>8. CASE RecordQuery(i)
    BY <2>8, StutterStep DEF Untouched, RecordQuery
  <2>9. CASE MarkReconciling(i)
    <3>1. Untouched
      BY <2>9 DEF Untouched, TypeOK, SettledStates, MarkReconciling
    <3> QED
      BY <3>1, StutterStep
  <2>10. CASE SweepDies(i)
    BY <2>10, StutterStep DEF Untouched, SweepDies
  <2> QED
    BY <1>3, <2>1, <2>2, <2>3, <2>4, <2>5, <2>6, <2>7, <2>8, <2>9, <2>10 DEF SweepStep
<1>4. ASSUME NEW i \in Instructions, RecoverLease(i) PROVE Abs
  BY <1>4, StutterStep DEF Untouched, RecoverLease
<1>5. ASSUME NEW i \in Instructions, ProviderDecides(i) PROVE Abs
  <2>1. PICK p \in {"paid", "refused"} : provider' = [provider EXCEPT ![i] = p]
    BY <1>5 DEF ProviderDecides
  <2>2. provider[i] = "received" /\ UNCHANGED <<claim, txn, requests>>
    BY <1>5 DEF ProviderDecides
  <2> QED
    BY <1>5, <2>1, <2>2, DecideStep
<1>6. CASE ToggleDaraja
  BY <1>6, StutterStep DEF Untouched, ToggleDaraja
<1>7. CASE UNCHANGED vars
  BY <1>7, StutterStep DEF Untouched, vars
<1> QED
  BY <1>1, <1>2, <1>3, <1>4, <1>5, <1>6, <1>7 DEF Next

\* With readable replies, the executor, the callbacks, the sweep and the queue together do
\* to money exactly what Payout allows.
THEOREM ExecutionImplementsPayout ==
  ASSUME GarbledReplies = FALSE
  PROVE  Spec => ImplementsPayout
<1>1. Init => Money!Init
  BY DEF Init, Money!Init, Intent, Outcome, Record, SettledStates
<1>2. ExecInv /\ [Next]_vars => [Money!Next]_(Money!payout)
  BY AbstractStep DEF Abs
<1> QED
  BY <1>1, <1>2, ExecInvariant, PTL DEF Spec, ImplementsPayout, Money!Spec

-----------------------------------------------------------------------------
(* Execution implements Settlement, whatever the replies: rows and the     *)
(* batch are written by different transactions, and still the batch is     *)
(* paid and rolled up as the lifecycle takes it to be.                     *)

\* The batch is begun with the first row and rolled up once, in a step that writes no row.
LEMMA BatchSteps ==
  ASSUME TypeOK, [Next]_vars
  PROVE  \/ batch' = batch
         \/ /\ batch = "QUEUED" /\ batch' = "PROCESSING"
            /\ \A i \in Instructions : txn'[i] \in {txn[i], "SUBMITTED"}
         \/ /\ batch = "PROCESSING" /\ batch' = verdict /\ verdict # "NONE"
            /\ Instructions # {} /\ UNCHANGED txn
<1> USE DEF ledger, cases, rollup, mpesa, budget, TypeOK
<1>1. ASSUME NEW w \in Workers, PrepareSubmission(w)
      PROVE  \/ batch' = batch
             \/ /\ batch = "QUEUED" /\ batch' = "PROCESSING"
                /\ \A i \in Instructions : txn'[i] \in {txn[i], "SUBMITTED"}
  BY <1>1 DEF PrepareSubmission
<1>2. ASSUME NEW w \in Workers, WorkerSettlesBatch(w)
      PROVE  \/ batch' = batch
             \/ /\ batch = "PROCESSING" /\ batch' = verdict /\ verdict # "NONE"
                /\ Instructions # {} /\ UNCHANGED txn
  BY <1>2 DEF WorkerSettlesBatch, WriteRollUp
<1>3. ASSUME NEW k \in Deliveries, CallbackSettlesBatch(k)
      PROVE  \/ batch' = batch
             \/ /\ batch = "PROCESSING" /\ batch' = verdict /\ verdict # "NONE"
                /\ Instructions # {} /\ UNCHANGED txn
  BY <1>3 DEF CallbackSettlesBatch, WriteRollUp, Deliveries
<1>4. ASSUME NEW w \in Workers, WorkerStep(w)
      PROVE  batch' = batch \/ PrepareSubmission(w) \/ WorkerSettlesBatch(w)
  BY <1>4 DEF WorkerStep, ClaimJob, SettleJob, Throttle, SkipSubmission, SkipDisabled, LoadClientFails,
    SendPayment, RecordAck, MarkForReconciliation, RecordRejection, WorkerFindsLockBusy,
    WorkerTakesLock, WorkerCrash, UnclassifiedError
<1>5. ASSUME NEW k \in Deliveries, CallbackStep(k)
      PROVE  batch' = batch \/ CallbackSettlesBatch(k)
  BY <1>5 DEF CallbackStep, StoreCallback, EnqueueCallback, CallbackNeverApplied, ApplyB2cResult,
    ApplyTransactionStatus, CallbackTakesLock, CallbackFindsLockBusy,
    CallbackDiesBeforeRollUp, CallbackHandledAgain
<1>6. ASSUME NEW i \in Instructions, SweepStep(i) PROVE batch' = batch
  BY <1>6 DEF SweepStep, SweepSelects, SweepOpensCase, ReconcileSelects, Escalate, QueryUnavailable,
    AskStatus, QueryFails, RecordQuery, MarkReconciling, SweepDies
<1>7. ASSUME NEW i \in Instructions, RecoverLease(i) \/ ProviderDecides(i) PROVE batch' = batch
  BY <1>7 DEF RecoverLease, ProviderDecides
<1>8. CASE ToggleDaraja \/ UNCHANGED vars
  BY <1>8 DEF ToggleDaraja, vars
<1> QED
  BY <1>1, <1>2, <1>3, <1>4, <1>5, <1>6, <1>7, <1>8 DEF Next

\* A row becomes SUCCESS only in a batch that runs or was given up on, or that has one already.
LEMMA PaidWhileRunning ==
  ASSUME ExecInv, VerdictInv, Moves, NEW i \in Instructions, txn[i] # "SUCCESS", txn'[i] = "SUCCESS"
  PROVE  batch \in {"PROCESSING", "TIMEOUT"}
<1>1. txn[i] \notin SettledStates /\ txn[i] # "NONE"
  BY DEF Moves, TxnMove, SettledStates
<1>2. batch # "QUEUED"
  BY <1>1 DEF ExecInv, KnownInv
<1>3. batch \notin {"SUCCESS", "FAILED", "PARTIAL_SUCCESS"}
  BY <1>1 DEF VerdictInv, Said, SettledStates
<1> QED
  BY <1>2, <1>3 DEF ExecInv, TypeOK

LEMMA SettlementStep ==
  ASSUME ExecInv, VerdictInv, [Next]_vars
  PROVE  Settled!Next \/ UNCHANGED Settled!settlement
<1>1. Moves
  BY RowsMove DEF ExecInv
<1>2. TypeOK
  BY DEF ExecInv
<1>3. CASE batch' = batch
  <2>1. CASE Some("SUCCESS")
    <3>1. Some("SUCCESS")'
      BY <1>1, <2>1 DEF Some, Moves, TxnMove, SettledStates
    <3> QED
      BY <1>3, <2>1, <3>1 DEF Settled!settlement, Some
  <2>2. CASE ~Some("SUCCESS") /\ ~Some("SUCCESS")'
    BY <1>3, <2>2 DEF Settled!settlement, Some
  <2>3. CASE ~Some("SUCCESS") /\ Some("SUCCESS")'
    <3>1. PICK i \in Instructions : txn'[i] = "SUCCESS" /\ txn[i] # "SUCCESS"
      BY <2>3 DEF Some
    <3>2. batch \in {"PROCESSING", "TIMEOUT"}
      BY <1>1, <3>1, PaidWhileRunning
    <3> QED
      BY <1>3, <2>3, <3>2 DEF Settled!Next, Settled!Pay, Some
  <2> QED
    BY <2>1, <2>2, <2>3
<1>4. CASE /\ batch = "QUEUED" /\ batch' = "PROCESSING"
           /\ \A i \in Instructions : txn'[i] \in {txn[i], "SUBMITTED"}
  <2>1. \A i \in Instructions : txn[i] = "NONE"
    BY <1>4 DEF ExecInv, KnownInv
  <2>2. ~Some("SUCCESS") /\ ~Some("SUCCESS")'
    BY <1>4, <2>1 DEF Some
  <2> QED
    BY <1>4, <2>2 DEF Settled!Next, Settled!Begin, Some
<1>5. CASE /\ batch = "PROCESSING" /\ batch' = verdict /\ verdict # "NONE"
           /\ Instructions # {} /\ UNCHANGED txn
  <2>1. verdict = "TIMEOUT" \/ (Some("SUCCESS") /\ verdict \in {"SUCCESS", "PARTIAL_SUCCESS"})
        \/ (~Some("SUCCESS") /\ verdict = "FAILED")
    BY <1>2, <1>5 DEF TypeOK, VerdictInv, Said, Some
  <2>2. UNCHANGED Some("SUCCESS")
    BY <1>5 DEF Some
  <2> QED
    BY <1>5, <2>1, <2>2 DEF Settled!Next, Settled!RollUp
<1> QED
  BY <1>2, <1>3, <1>4, <1>5, BatchSteps

\* ImplementsSettlement: executor, callbacks and roll-up, which write rows and batch in
\* transactions of their own, settle a batch as the lifecycle takes them to
\* (LifecycleProofs, LifecycleImplementsSettlement).
THEOREM ExecutionImplementsSettlement == Spec => ImplementsSettlement
<1>1. Init => Settled!Init
  BY DEF Init, Settled!Init, Some
<1>2. ExecInv /\ VerdictInv /\ [Next]_vars => [Settled!Next]_(Settled!settlement)
  BY SettlementStep
<1> QED
  BY <1>1, <1>2, ExecInvariant, VerdictInvariant, PTL DEF Spec, ImplementsSettlement, Settled!Spec
=============================================================================
