----------------------------- MODULE Execution -----------------------------
(***************************************************************************)
(* Execution of one released batch: the payments queue and its executor    *)
(* (apps/api/src/queues/payment-executor.ts, queue/queue.ts), the provider *)
(* callbacks (routes/callbacks.ts, queues/callback-processor.ts) and the   *)
(* reconciliation sweep (queues/reconciliation-worker.ts), over the        *)
(* idempotency claims, transactions and reconciliation cases they share.   *)
(*                                                                         *)
(* One instruction has at most one claim, one transaction and one payments *)
(* job (unique constraints of migrations 0002 and 0008), so each of those  *)
(* tables is a function of the instruction.  Each database transaction and *)
(* each call to M-PESA is one step; between two steps any other process    *)
(* may run, the process may die, and a lease may expire.                   *)
(***************************************************************************)
EXTENDS Naturals, TxnState

CONSTANTS
  Instructions,   \* the payment instructions of the batch
  Workers,        \* payment consumers, one message in hand at a time
  None,           \* no process, no instruction
  Kinds,          \* the provider deliveries that may arrive
  ReconcileJobs,  \* the reconciliation messages that may be queued
  MaxAttempts,    \* QUEUE_POLICIES.payments.maxAttempts
  MaxQueries,     \* MAX_QUERY_ATTEMPTS of the reconciliation worker
  MaxFaults,      \* bound on crashes, aborted transactions and slow workers
  MaxThrottles,   \* bound on refusals by the local rate limiter
  MaxToggles,     \* bound on enabling or disabling the Daraja integration
  GarbledReplies  \* may a 2xx reply to a payment request be unreadable?

ASSUME ExecutionAssumption ==
  /\ None \notin Instructions
  /\ None \notin Workers
  /\ Kinds \subseteq {"RESULT_OK", "RESULT_FAIL", "QUEUE_TIMEOUT",
                      "STATUS_OK", "STATUS_FAIL", "STATUS_PENDING"}
  /\ ReconcileJobs \subseteq {"SWEEP", "RECONCILE_TRANSACTION"}
  /\ MaxAttempts \in Nat \ {0}
  /\ MaxQueries \in Nat \ {0}
  /\ MaxFaults \in Nat /\ MaxThrottles \in Nat /\ MaxToggles \in Nat
  /\ GarbledReplies \in BOOLEAN

VARIABLES
  batch,     \* payment_batches.state
  instr,     \* payment_instructions.status
  claim,     \* idempotency_claims.state
  txn,       \* transactions.status, "NONE" before the row exists
  job,       \* job_queue row of the instruction: status and attempts
  rcase,     \* state of the newest reconciliation case, "NONE" before any
  tries,     \* its query_attempts
  refUsed,   \* has the reference REC-<transaction> been used by a case?
  flagged,   \* does a case with discrepancy = TRUE exist?
  enabled,   \* is the Daraja configuration ENABLED?
  pc, on,    \* per worker: where it is in executeInstruction, and its message
  cb,        \* per provider delivery: its provider_callbacks row and job
  sweep,     \* per instruction: progress of the reconciliation worker on it
  lock,      \* holder of the batch advisory lock in maybeSettleBatch
  verdict,   \* the roll-up its holder computed
  provider,  \* what M-PESA has done with the payment request
  asked,     \* is a Transaction Status query outstanding at M-PESA?
  requests,  \* history: B2C requests sent per instruction
  contra,    \* history: has a delivery contradicted the settled outcome?
  faults, throttles, toggles   \* what is used of each budget

ledger  == <<batch, instr, claim, txn>>
cases   == <<rcase, tries, refUsed, flagged>>
rollup  == <<lock, verdict>>
mpesa   == <<provider, asked, requests>>
budget  == <<faults, throttles, toggles>>
vars    == <<ledger, job, cases, enabled, pc, on, cb, sweep, rollup, mpesa, contra, budget>>

(***************************************************************************)
(* Deliveries.  RESULT_* arrive on the ResultURL, QUEUE_TIMEOUT on the     *)
(* QueueTimeOutURL, STATUS_* answer a Transaction Status query; PENDING    *)
(* stands for every answer interpretTransactionStatus does not decide.     *)
(***************************************************************************)
ResultKinds == {"RESULT_OK", "RESULT_FAIL", "QUEUE_TIMEOUT"}
StatusKinds == {"STATUS_OK", "STATUS_FAIL", "STATUS_PENDING"}
Deliveries  == Instructions \X Kinds
Procs       == Workers \cup Deliveries

ExecutionStates == {"AUTHORIZED", "QUEUED", "SUBMITTED", "PROCESSING"}
OpenStates      == {"OPEN", "QUERYING"}

JobRows == [status : {"PENDING", "IN_FLIGHT", "SUCCEEDED", "DEAD_LETTERED"}, attempts : Nat]

TypeOK ==
  /\ batch \in {"QUEUED", "PROCESSING", "TIMEOUT", "SUCCESS", "FAILED", "PARTIAL_SUCCESS"}
  /\ instr \in [Instructions -> TxnStates]
  /\ claim \in [Instructions -> {"CLAIMED", "SUBMITTED", "SETTLED"}]
  /\ txn \in [Instructions -> TxnStates \cup {"NONE"}]
  /\ job \in [Instructions -> JobRows]
  /\ rcase \in [Instructions -> {"NONE", "OPEN", "QUERYING", "RESOLVED_SUCCESS",
                                 "RESOLVED_FAILED", "ESCALATED"}]
  /\ tries \in [Instructions -> Nat]
  /\ refUsed \in [Instructions -> BOOLEAN]
  /\ flagged \in [Instructions -> BOOLEAN]
  /\ enabled \in BOOLEAN
  /\ pc \in [Workers -> {"idle", "fetched", "prepared", "accepted", "unknown", "rejected",
                         "settle", "locked", "ack", "retry"}]
  /\ on \in [Workers -> Instructions \cup {None}]
  /\ \A w \in Workers : pc[w] = "idle" <=> on[w] = None
  /\ cb \in [Deliveries -> {"none", "stored", "queued", "settle", "locked", "done", "lost"}]
  /\ sweep \in [Instructions -> {"idle", "selected", "query", "asked", "counted"}]
  /\ lock \in Procs \cup {None}
  /\ verdict \in {"NONE", "TIMEOUT", "SUCCESS", "FAILED", "PARTIAL_SUCCESS"}
  /\ provider \in [Instructions -> {"none", "received", "paid", "refused", "rejected"}]
  /\ asked \in [Instructions -> BOOLEAN]
  /\ requests \in [Instructions -> Nat]
  /\ contra \in [Instructions -> BOOLEAN]
  /\ faults \in 0..MaxFaults /\ throttles \in 0..MaxThrottles /\ toggles \in 0..MaxToggles

(***************************************************************************)
(* The state releaseBatch commits: the batch QUEUED and, per instruction,  *)
(* a CLAIMED claim and a payments job in the same transaction.             *)
(***************************************************************************)
Init ==
  /\ batch = "QUEUED"
  /\ instr = [i \in Instructions |-> "PENDING"]
  /\ claim = [i \in Instructions |-> "CLAIMED"]
  /\ txn = [i \in Instructions |-> "NONE"]
  /\ job = [i \in Instructions |-> [status |-> "PENDING", attempts |-> 0]]
  /\ rcase = [i \in Instructions |-> "NONE"]
  /\ tries = [i \in Instructions |-> 0]
  /\ refUsed = [i \in Instructions |-> FALSE]
  /\ flagged = [i \in Instructions |-> FALSE]
  /\ enabled = TRUE
  /\ pc = [w \in Workers |-> "idle"]
  /\ on = [w \in Workers |-> None]
  /\ cb = [k \in Deliveries |-> "none"]
  /\ sweep = [i \in Instructions |-> "idle"]
  /\ lock = None
  /\ verdict = "NONE"
  /\ provider = [i \in Instructions |-> "none"]
  /\ asked = [i \in Instructions |-> FALSE]
  /\ requests = [i \in Instructions |-> 0]
  /\ contra = [i \in Instructions |-> FALSE]
  /\ faults = 0 /\ throttles = 0 /\ toggles = 0

-----------------------------------------------------------------------------
(* The payments queue.  settleBatch checks only that the row is IN_FLIGHT, *)
(* not that this worker holds the claim.                                   *)

JobAfterRetry(j) ==
  IF j.status # "IN_FLIGHT" THEN j
  ELSE [j EXCEPT !.status = IF j.attempts >= MaxAttempts THEN "DEAD_LETTERED" ELSE "PENDING"]

JobAfterAck(j) == IF j.status # "IN_FLIGHT" THEN j ELSE [j EXCEPT !.status = "SUCCEEDED"]

UseFault == faults < MaxFaults /\ faults' = faults + 1 /\ UNCHANGED <<throttles, toggles>>

Goto(w, label) == pc' = [pc EXCEPT ![w] = label]

\* claimBatch: a pending job becomes this worker's, and the attempt is counted.
ClaimJob(w, i) ==
  /\ pc[w] = "idle"
  /\ job[i].status = "PENDING"
  /\ job' = [job EXCEPT ![i] = [status |-> "IN_FLIGHT", attempts |-> job[i].attempts + 1]]
  /\ Goto(w, "fetched")
  /\ on' = [on EXCEPT ![w] = i]
  /\ UNCHANGED <<ledger, cases, enabled, cb, sweep, rollup, mpesa, contra, budget>>

\* Mutant: a message without a recorded success is acknowledged all the same.
SettleJobAsAck(w) ==
  /\ pc[w] \in {"ack", "retry"}
  /\ job' = [job EXCEPT ![on[w]] = JobAfterAck(@)]
  /\ Goto(w, "idle")
  /\ on' = [on EXCEPT ![w] = None]
  /\ UNCHANGED <<ledger, cases, enabled, cb, sweep, rollup, mpesa, contra, budget>>

\* settleBatch: the runner records the disposition the consumer left on the message.
SettleJob(w) ==
  /\ pc[w] \in {"ack", "retry"}
  /\ job' = [job EXCEPT ![on[w]] = IF pc[w] = "ack" THEN JobAfterAck(@) ELSE JobAfterRetry(@)]
  /\ Goto(w, "idle")
  /\ on' = [on EXCEPT ![w] = None]
  /\ UNCHANGED <<ledger, cases, enabled, cb, sweep, rollup, mpesa, contra, budget>>

\* Mutant: leases of jobs at their last attempt are not recovered.
RecoverLeaseBelowLimit(i) ==
  /\ job[i].status = "IN_FLIGHT"
  /\ job[i].attempts < MaxAttempts
  /\ IF \E w \in Workers : on[w] = i THEN UseFault ELSE UNCHANGED budget
  /\ job' = [job EXCEPT ![i] = JobAfterRetry(@)]
  /\ UNCHANGED <<ledger, cases, enabled, pc, on, cb, sweep, rollup, mpesa, contra>>

\* recoverExpiredLeases: the lease of a dead worker runs out.  The lease of a live
\* worker runs out too when its batch of ten outlasts it, which counts as a fault.
RecoverLease(i) ==
  /\ job[i].status = "IN_FLIGHT"
  /\ IF \E w \in Workers : on[w] = i THEN UseFault ELSE UNCHANGED budget
  /\ job' = [job EXCEPT ![i] = JobAfterRetry(@)]
  /\ UNCHANGED <<ledger, cases, enabled, pc, on, cb, sweep, rollup, mpesa, contra>>

-----------------------------------------------------------------------------
(* The payment executor: executeInstruction and its caller's catch block.  *)

\* acquirePermit refuses: RATE_LIMIT_LOCAL, so the message is retried.
Throttle(w) ==
  /\ pc[w] = "fetched"
  /\ throttles < MaxThrottles
  /\ throttles' = throttles + 1
  /\ Goto(w, "retry")
  /\ UNCHANGED <<ledger, job, cases, enabled, on, cb, sweep, rollup, mpesa, contra, faults, toggles>>

DecideOnExistingClaim(state) ==
  CASE state = "SETTLED"   -> "SKIP_ALREADY_SETTLED"
    [] state = "SUBMITTED" -> "RECONCILE_FIRST"
    [] OTHER               -> "SUBMIT"

MaySubmit(i) ==
  /\ batch \in ExecutionStates
  /\ DecideOnExistingClaim(claim[i]) = "SUBMIT"

\* Mutant: a claim and a row that exist already do not stop the submission.
PrepareOverExisting(w) ==
  LET i == on[w] IN
  /\ pc[w] = "fetched"
  /\ batch \in ExecutionStates
  /\ enabled
  /\ txn' = [txn EXCEPT ![i] = IF @ = "NONE" THEN "SUBMITTED" ELSE @]
  /\ claim' = [claim EXCEPT ![i] = IF @ = "CLAIMED" THEN "SUBMITTED" ELSE @]
  /\ instr' = [instr EXCEPT ![i] = "SUBMITTED"]
  /\ batch' = "PROCESSING"
  /\ Goto(w, "prepared")
  /\ UNCHANGED <<job, cases, enabled, on, cb, sweep, rollup, mpesa, contra, budget>>

\* prepareSubmission commits the claim and the transaction row before the provider call.
PrepareSubmission(w) ==
  LET i == on[w] IN
  /\ pc[w] = "fetched"
  /\ MaySubmit(i)
  /\ enabled
  /\ txn[i] = "NONE"
  /\ txn' = [txn EXCEPT ![i] = "SUBMITTED"]
  /\ claim' = [claim EXCEPT ![i] = "SUBMITTED"]
  /\ instr' = [instr EXCEPT ![i] = "SUBMITTED"]
  /\ batch' = IF batch \in {"AUTHORIZED", "QUEUED", "SUBMITTED"} THEN "PROCESSING" ELSE batch
  /\ Goto(w, "prepared")
  /\ UNCHANGED <<job, cases, enabled, on, cb, sweep, rollup, mpesa, contra, budget>>

\* prepareSubmission returns skip: the batch left the execution states, the claim is
\* settled or already submitted (reconcile first), or the transaction row exists.
SkipSubmission(w) ==
  LET i == on[w] IN
  /\ pc[w] = "fetched"
  /\ ~MaySubmit(i) \/ (enabled /\ txn[i] # "NONE")
  /\ Goto(w, "ack")
  /\ UNCHANGED <<ledger, job, cases, enabled, on, cb, sweep, rollup, mpesa, contra, budget>>

\* No enabled integration: the UPDATE fails whatever unsettled row the instruction has,
\* and the message is acknowledged.
SkipDisabled(w) ==
  LET i == on[w] IN
  /\ pc[w] = "fetched"
  /\ MaySubmit(i)
  /\ ~enabled
  /\ txn' = [txn EXCEPT ![i] = IF @ \in {"NONE", "SUCCESS", "FAILED"} THEN @ ELSE "FAILED"]
  /\ Goto(w, "ack")
  /\ UNCHANGED <<batch, instr, claim, job, cases, enabled, on, cb, sweep, rollup, mpesa,
                 contra, budget>>

\* loadDarajaClient throws DARAJA_NOT_CONFIGURED, a STATE error: acknowledged.
LoadClientFails(w) ==
  /\ pc[w] = "prepared"
  /\ ~enabled
  /\ Goto(w, "ack")
  /\ UNCHANGED <<ledger, job, cases, enabled, on, cb, sweep, rollup, mpesa, contra, budget>>

(***************************************************************************)
(* sendB2cPayment, never retried by the client.  M-PESA either accepts,    *)
(* refuses, or leaves the caller without an answer it recognises (timeout, *)
(* unreachable, 5xx, duplicate originator), having received the request or *)
(* not.  A connection that breaks while the body is read is not a          *)
(* SolvarenError: it is rethrown and the message retried.  A 2xx reply     *)
(* whose body is unreadable is none of the executor's ambiguous codes, so  *)
(* it takes the path of a clean rejection.                                 *)
(***************************************************************************)
SendPayment(w) ==
  LET i == on[w]
      Reaches(outcome) == provider' = [provider EXCEPT ![i] = IF @ = "none" THEN outcome ELSE @]
  IN
  /\ pc[w] = "prepared"
  /\ enabled
  /\ requests' = [requests EXCEPT ![i] = @ + 1]
  /\ \/ Reaches("received") /\ Goto(w, "accepted")
     \/ Reaches("received") /\ Goto(w, "unknown")
     \/ UNCHANGED provider /\ Goto(w, "unknown")
     \/ Reaches("received") /\ Goto(w, "retry")
     \/ Reaches("rejected") /\ Goto(w, "rejected")
     \/ GarbledReplies /\ Reaches("received") /\ Goto(w, "rejected")
  /\ UNCHANGED <<ledger, job, cases, enabled, on, cb, sweep, rollup, asked, contra, budget>>

\* The request was accepted.  The transaction moves only if it is still SUBMITTED;
\* the instruction is written whatever its status has become.
RecordAck(w) ==
  LET i == on[w] IN
  /\ pc[w] = "accepted"
  /\ txn' = [txn EXCEPT ![i] = IF @ = "SUBMITTED" THEN "AWAITING_CALLBACK" ELSE @]
  /\ instr' = [instr EXCEPT ![i] = "AWAITING_CALLBACK"]
  /\ Goto(w, "ack")
  /\ UNCHANGED <<batch, claim, job, cases, enabled, on, cb, sweep, rollup, mpesa, contra, budget>>

\* A case under the reference REC-<transaction>: ON CONFLICT DO NOTHING drops it when the
\* reference was ever used or the transaction has an open case.
CanOpenReferenced(i) == ~refUsed[i] /\ rcase[i] \notin OpenStates

OpenCase(i) ==
  /\ rcase' = [rcase EXCEPT ![i] = "OPEN"]
  /\ tries' = [tries EXCEPT ![i] = 0]

OpenReferencedCase(i, discrepancy) ==
  IF CanOpenReferenced(i)
  THEN /\ OpenCase(i)
       /\ refUsed' = [refUsed EXCEPT ![i] = TRUE]
       /\ flagged' = [flagged EXCEPT ![i] = @ \/ discrepancy]
  ELSE UNCHANGED cases

\* Mutant: an unknown outcome is written down as a failure.
MarkAsFailed(w) ==
  LET i == on[w] IN
  /\ pc[w] = "unknown"
  /\ txn' = [txn EXCEPT ![i] = IF @ \in SettledStates THEN @ ELSE "FAILED"]
  /\ instr' = [instr EXCEPT ![i] = txn'[i]]
  /\ claim' = [claim EXCEPT ![i] = "SETTLED"]
  /\ Goto(w, "ack")
  /\ UNCHANGED <<batch, cases, job, enabled, on, cb, sweep, rollup, mpesa, contra, budget>>

\* Mutant: the case is left for the sweep to open.
MarkWithoutCase(w) ==
  LET i == on[w] IN
  /\ pc[w] = "unknown"
  /\ txn' = [txn EXCEPT ![i] = IF @ \in SettledStates THEN @ ELSE "TIMEOUT"]
  /\ instr' = [instr EXCEPT ![i] = txn'[i]]
  /\ Goto(w, "ack")
  /\ UNCHANGED <<batch, claim, cases, job, enabled, on, cb, sweep, rollup, mpesa, contra, budget>>

\* The outcome is unknown: TIMEOUT and a reconciliation case, unless already settled.
MarkForReconciliation(w) ==
  LET i == on[w] IN
  /\ pc[w] = "unknown"
  /\ IF txn[i] \in SettledStates
     THEN UNCHANGED <<txn, instr, cases>>
     ELSE /\ txn' = [txn EXCEPT ![i] = "TIMEOUT"]
          /\ instr' = [instr EXCEPT ![i] = "TIMEOUT"]
          /\ OpenReferencedCase(i, FALSE)
  /\ Goto(w, "ack")
  /\ UNCHANGED <<batch, claim, job, enabled, on, cb, sweep, rollup, mpesa, contra, budget>>

\* A clean rejection: FAILED, claim SETTLED, then the roll-up.  The UPDATE has no status
\* condition; the trigger aborts the transaction when a callback settled it first with a
\* different outcome, or as FAILED with another failure code.
RecordRejection(w) ==
  LET i == on[w] IN
  /\ pc[w] = "rejected"
  /\ AssertTxnTransition("SUBMITTED", "FAILED", "SYNC_ACK", FALSE, TRUE)
  /\ \E sameCode \in BOOLEAN :
       IF GuardTransactionUpdate(txn[i], "FAILED", sameCode)
       THEN /\ txn' = [txn EXCEPT ![i] = "FAILED"]
            /\ instr' = [instr EXCEPT ![i] = "FAILED"]
            /\ claim' = [claim EXCEPT ![i] = "SETTLED"]
            /\ Goto(w, "settle")
       ELSE Goto(w, "retry") /\ UNCHANGED <<txn, instr, claim>>
  /\ UNCHANGED <<batch, job, cases, enabled, on, cb, sweep, rollup, mpesa, contra, budget>>

\* The process dies: its message stays IN_FLIGHT, its transaction and lock are gone.
WorkerCrash(w) ==
  /\ pc[w] # "idle"
  /\ UseFault
  /\ Goto(w, "idle")
  /\ on' = [on EXCEPT ![w] = None]
  /\ IF lock = w THEN lock' = None /\ verdict' = "NONE" ELSE UNCHANGED rollup
  /\ UNCHANGED <<ledger, job, cases, enabled, cb, sweep, mpesa, contra>>

\* Anything else throws (connection lost, audit chain refused the append, instruction
\* lock busy, secret unreadable): the open transaction aborts and the message is retried.
UnclassifiedError(w) ==
  /\ pc[w] \notin {"idle", "ack", "retry"}
  /\ UseFault
  /\ Goto(w, "retry")
  /\ IF lock = w THEN lock' = None /\ verdict' = "NONE" ELSE UNCHANGED rollup
  /\ UNCHANGED <<ledger, job, cases, enabled, on, cb, sweep, mpesa, contra>>

-----------------------------------------------------------------------------
(* The batch roll-up, maybeSettleBatch: a transaction of its own that runs *)
(* under the batch advisory lock, called by a worker or a callback handler.*)

Some(status) == \E i \in Instructions : txn[i] = status

\* Mutant: the roll-up does not wait for transactions still in flight.
RollUpWithoutWaiting ==
  IF batch # "PROCESSING" \/ Some("NONE") THEN "NONE"
  ELSE CASE Some("TIMEOUT") -> "TIMEOUT"
         [] ~Some("TIMEOUT") /\ ~Some("FAILED") -> "SUCCESS"
         [] ~Some("TIMEOUT") /\ Some("FAILED") /\ ~Some("SUCCESS") -> "FAILED"
         [] OTHER -> "PARTIAL_SUCCESS"

\* Mutant: an unknown outcome counts as a failure.
RollUpTimeoutsAsFailures ==
  IF batch # "PROCESSING" \/ \E i \in Instructions : txn[i] \in InFlight \cup {"NONE"}
  THEN "NONE"
  ELSE CASE \A i \in Instructions : txn[i] = "SUCCESS" -> "SUCCESS"
         [] ~Some("SUCCESS") -> "FAILED"
         [] OTHER -> "PARTIAL_SUCCESS"

RollUp ==
  IF batch # "PROCESSING" \/ \E i \in Instructions : txn[i] \in InFlight \cup {"NONE"}
  THEN "NONE"
  ELSE CASE Some("TIMEOUT") -> "TIMEOUT"
         [] ~Some("TIMEOUT") /\ ~Some("FAILED") -> "SUCCESS"
         [] ~Some("TIMEOUT") /\ Some("FAILED") /\ ~Some("SUCCESS") -> "FAILED"
         [] OTHER -> "PARTIAL_SUCCESS"

TakeLock(p) == lock = None /\ lock' = p /\ verdict' = RollUp

WriteRollUp(p) ==
  /\ lock = p
  /\ batch' = IF verdict # "NONE" /\ batch = "PROCESSING" THEN verdict ELSE batch
  /\ lock' = None
  /\ verdict' = "NONE"

WorkerTakesLock(w) ==
  /\ pc[w] = "settle"
  /\ TakeLock(w)
  /\ Goto(w, "locked")
  /\ UNCHANGED <<ledger, job, cases, enabled, on, cb, sweep, mpesa, contra, budget>>

\* requireLock does not wait: a held lock is RESOURCE_BUSY, and the message is retried.
WorkerFindsLockBusy(w) ==
  /\ pc[w] = "settle"
  /\ lock # None
  /\ Goto(w, "retry")
  /\ UNCHANGED <<ledger, job, cases, enabled, on, cb, sweep, rollup, mpesa, contra, budget>>

WorkerSettlesBatch(w) ==
  /\ pc[w] = "locked"
  /\ WriteRollUp(w)
  /\ Goto(w, "ack")
  /\ UNCHANGED <<instr, claim, txn, job, cases, enabled, on, cb, sweep, mpesa, contra, budget>>

-----------------------------------------------------------------------------
(* Callbacks: ingest, then applyB2cResult or applyTransactionStatus, then  *)
(* the roll-up.  A callback always finds its transaction here, because the *)
(* row is committed before the request is sent (RequestIsOnRecord).          *)

\* What M-PESA can still deliver: results once it has decided, a queue timeout for any
\* request it took in, and the answer to an outstanding query.
CanDeliver(i, kind) ==
  CASE kind = "RESULT_OK"      -> provider[i] = "paid"
    [] kind = "RESULT_FAIL"    -> provider[i] = "refused"
    [] kind = "QUEUE_TIMEOUT"  -> provider[i] \in {"received", "paid", "refused"}
    [] kind = "STATUS_OK"      -> asked[i] /\ provider[i] = "paid"
    [] kind = "STATUS_FAIL"    -> asked[i] /\ provider[i] = "refused"
    [] kind = "STATUS_PENDING" -> asked[i] /\ provider[i] \in {"none", "received", "rejected"}

SetCallback(k, state) == cb' = [cb EXCEPT ![k] = state]

\* Each result body is stored once (payload_digest is unique); the answers to two queries
\* are two bodies, so their entry is free again when the first has been processed.
Processed(k) == IF k[2] \in StatusKinds THEN "none" ELSE "done"
Dropped(k)   == IF k[2] \in StatusKinds THEN "none" ELSE "lost"

\* ingest: the payload is stored in one statement ...
StoreCallback(k) ==
  /\ cb[k] = "none"
  /\ CanDeliver(k[1], k[2])
  /\ SetCallback(k, "stored")
  /\ asked' = IF k[2] \in StatusKinds THEN [asked EXCEPT ![k[1]] = FALSE] ELSE asked
  /\ UNCHANGED <<ledger, job, cases, enabled, pc, on, sweep, rollup, provider, requests,
                 contra, budget>>

\* ... and its job is enqueued in another.
EnqueueCallback(k) ==
  /\ cb[k] = "stored"
  /\ SetCallback(k, "queued")
  /\ UNCHANGED <<ledger, job, cases, enabled, pc, on, sweep, rollup, mpesa, contra, budget>>

\* The process dies in between, where a re-delivery is a duplicate digest and enqueues
\* nothing; or the job is dead-lettered after failing at every attempt.
CallbackNeverApplied(k) ==
  /\ cb[k] \in {"stored", "queued"}
  /\ UseFault
  /\ SetCallback(k, Dropped(k))
  /\ UNCHANGED <<ledger, job, cases, enabled, pc, on, sweep, rollup, mpesa, contra>>

\* A settled transaction: the delivery agrees (DUPLICATE) or contradicts it
\* (IGNORED_SETTLED, with a discrepancy case).
NoteSettled(k, contradicts) ==
  LET i == k[1] IN
  /\ contra' = [contra EXCEPT ![i] = @ \/ contradicts]
  /\ IF contradicts THEN OpenReferencedCase(i, TRUE) ELSE UNCHANGED cases
  /\ UNCHANGED <<txn, instr, claim>>

\* Mutant: a QueueTimeOutURL delivery is applied like any other failure.
ApplyTimeoutAsFailure(k) ==
  LET i == k[1]
      target == IF k[2] = "RESULT_OK" THEN "SUCCESS" ELSE "FAILED"
  IN
  /\ AssertTxnTransition(txn[i], target, "CALLBACK", TRUE, TRUE)
  /\ txn' = [txn EXCEPT ![i] = target]
  /\ instr' = [instr EXCEPT ![i] = target]
  /\ claim' = [claim EXCEPT ![i] = "SETTLED"]
  /\ UNCHANGED <<cases, contra>>

\* Mutant: whatever arrives on the ResultURL counts as a success.
ApplyWithoutResultCode(k) ==
  LET i == k[1]
      target == IF k[2] = "QUEUE_TIMEOUT" THEN "TIMEOUT" ELSE "SUCCESS"
  IN
  /\ txn' = [txn EXCEPT ![i] = target]
  /\ instr' = [instr EXCEPT ![i] = target]
  /\ claim' = [claim EXCEPT ![i] = IF target = "TIMEOUT" THEN "SUBMITTED" ELSE "SETTLED"]
  /\ IF target = "TIMEOUT" THEN OpenReferencedCase(i, FALSE) ELSE UNCHANGED cases
  /\ UNCHANGED contra

\* applyB2cResult on a transaction that is not settled.
ApplyOutcome(k) ==
  LET i == k[1]
      target == CASE k[2] = "RESULT_OK" -> "SUCCESS"
                  [] k[2] = "QUEUE_TIMEOUT" -> "TIMEOUT"
                  [] OTHER -> "FAILED"
      source == IF k[2] = "QUEUE_TIMEOUT" THEN "QUEUE_TIMEOUT" ELSE "CALLBACK"
  IN
  /\ AssertTxnTransition(txn[i], target, source, TRUE, TRUE)
  /\ txn' = [txn EXCEPT ![i] = target]
  /\ instr' = [instr EXCEPT ![i] = target]
  /\ claim' = [claim EXCEPT ![i] = IF target = "TIMEOUT" THEN "SUBMITTED" ELSE "SETTLED"]
  /\ IF target = "TIMEOUT" THEN OpenReferencedCase(i, FALSE) ELSE UNCHANGED cases
  /\ UNCHANGED contra

ApplyB2cResult(k) ==
  LET i == k[1] IN
  /\ cb[k] = "queued"
  /\ k[2] \in ResultKinds
  /\ IF txn[i] \in SettledStates
     THEN NoteSettled(k, ~ \/ txn[i] = "SUCCESS" /\ k[2] = "RESULT_OK"
                           \/ txn[i] = "FAILED" /\ k[2] # "RESULT_OK")
     ELSE ApplyOutcome(k)
  /\ SetCallback(k, "settle")
  /\ UNCHANGED <<batch, job, enabled, pc, on, sweep, rollup, mpesa, budget>>

\* Mutant: the answer settles the row and forgets the claim.
AnswerForgetsClaim(k) ==
  LET i == k[1] IN
  /\ k[2] # "STATUS_PENDING"
  /\ txn' = [txn EXCEPT ![i] = IF k[2] = "STATUS_OK" THEN "SUCCESS" ELSE "FAILED"]
  /\ instr' = [instr EXCEPT ![i] = txn'[i]]
  /\ rcase' = [rcase EXCEPT ![i] =
                  IF @ \notin OpenStates THEN @
                  ELSE IF txn'[i] = "SUCCESS" THEN "RESOLVED_SUCCESS" ELSE "RESOLVED_FAILED"]
  /\ UNCHANGED <<claim, tries, refUsed, flagged>>

\* Mutant: any decided answer resolves the case as a success.
AnswerResolvesAsSuccess(k) ==
  LET i == k[1] IN
  /\ k[2] # "STATUS_PENDING"
  /\ txn' = [txn EXCEPT ![i] = IF k[2] = "STATUS_OK" THEN "SUCCESS" ELSE "FAILED"]
  /\ instr' = [instr EXCEPT ![i] = txn'[i]]
  /\ claim' = [claim EXCEPT ![i] = "SETTLED"]
  /\ rcase' = [rcase EXCEPT ![i] = IF @ \in OpenStates THEN "RESOLVED_SUCCESS" ELSE @]
  /\ UNCHANGED <<tries, refUsed, flagged>>

\* applyTransactionStatus on a transaction that is not settled: an undecided answer counts
\* as a query attempt, a decided one settles the transaction and resolves its open case.
ApplyAnswer(k) ==
  LET i == k[1]
      target == IF k[2] = "STATUS_OK" THEN "SUCCESS" ELSE "FAILED"
      open == rcase[i] \in OpenStates
  IN
  IF k[2] = "STATUS_PENDING"
  THEN /\ rcase' = [rcase EXCEPT ![i] = IF open THEN "QUERYING" ELSE @]
       /\ tries' = [tries EXCEPT ![i] = IF open THEN @ + 1 ELSE @]
       /\ UNCHANGED <<txn, instr, claim, refUsed, flagged>>
  ELSE /\ AssertTxnTransition(txn[i], target, "STATUS_QUERY", TRUE, TRUE)
       /\ txn' = [txn EXCEPT ![i] = target]
       /\ instr' = [instr EXCEPT ![i] = target]
       /\ claim' = [claim EXCEPT ![i] = "SETTLED"]
       /\ rcase' = [rcase EXCEPT ![i] =
                       IF ~open THEN @
                       ELSE IF target = "SUCCESS" THEN "RESOLVED_SUCCESS" ELSE "RESOLVED_FAILED"]
       /\ UNCHANGED <<tries, refUsed, flagged>>

ApplyTransactionStatus(k) ==
  LET i == k[1] IN
  /\ cb[k] = "queued"
  /\ k[2] \in StatusKinds
  /\ IF txn[i] \in SettledStates
     THEN NoteSettled(k, \/ txn[i] # "SUCCESS" /\ k[2] = "STATUS_OK"
                         \/ txn[i] # "FAILED" /\ k[2] = "STATUS_FAIL")
     ELSE ApplyAnswer(k) /\ UNCHANGED contra
  /\ SetCallback(k, "settle")
  /\ UNCHANGED <<batch, job, enabled, pc, on, sweep, rollup, mpesa, budget>>

CallbackTakesLock(k) ==
  /\ cb[k] = "settle"
  /\ TakeLock(k)
  /\ SetCallback(k, "locked")
  /\ UNCHANGED <<ledger, job, cases, enabled, pc, on, sweep, mpesa, contra, budget>>

\* RESOURCE_BUSY: the message is retried, and the redelivery returns at processed_at.
CallbackFindsLockBusy(k) ==
  /\ cb[k] = "settle"
  /\ lock # None
  /\ SetCallback(k, Processed(k))
  /\ UNCHANGED <<ledger, job, cases, enabled, pc, on, sweep, rollup, mpesa, contra, budget>>

CallbackSettlesBatch(k) ==
  /\ cb[k] = "locked"
  /\ WriteRollUp(k)
  /\ SetCallback(k, Processed(k))
  /\ UNCHANGED <<instr, claim, txn, job, cases, enabled, pc, on, sweep, mpesa, contra, budget>>

\* The process dies, or the roll-up aborts, after the callback committed: as above, the
\* redelivery returns at processed_at.
CallbackDiesBeforeRollUp(k) ==
  /\ cb[k] \in {"settle", "locked"}
  /\ UseFault
  /\ SetCallback(k, Processed(k))
  /\ IF lock = k THEN lock' = None /\ verdict' = "NONE" ELSE UNCHANGED rollup
  /\ UNCHANGED <<ledger, job, cases, enabled, pc, on, sweep, mpesa, contra>>

\* Two consumers hold the message (its lease ran out) and both read processed_at before
\* either committed: the body is applied a second time.
CallbackHandledAgain(k) ==
  /\ cb[k] = "done"
  /\ UseFault
  /\ SetCallback(k, "queued")
  /\ UNCHANGED <<ledger, job, cases, enabled, pc, on, sweep, rollup, mpesa, contra>>

-----------------------------------------------------------------------------
(* Reconciliation: the scheduled sweep and RECONCILE_TRANSACTION jobs.     *)
(* The sweep takes its list first and acts on it statement by statement;   *)
(* one pass at a time per instruction (a bound).                           *)

GotoSweep(i, label) == sweep' = [sweep EXCEPT ![i] = label]

\* Mutant: the sweep takes a RECONCILING transaction for one that is being looked after.
SweepSkipsReconciling(i) ==
  /\ "SWEEP" \in ReconcileJobs
  /\ sweep[i] = "idle"
  /\ txn[i] \in StuckStates \ {"RECONCILING"}
  /\ GotoSweep(i, "selected")
  /\ UNCHANGED <<ledger, job, cases, enabled, pc, on, cb, rollup, mpesa, contra, budget>>

\* sweepOrganization selects what is in flight and stale.  The scheduler queues sweeps for
\* enabled integrations only, but a queued one outlives the switch.
SweepSelects(i) ==
  /\ "SWEEP" \in ReconcileJobs
  /\ sweep[i] = "idle"
  /\ txn[i] \in StuckStates
  /\ GotoSweep(i, "selected")
  /\ UNCHANGED <<ledger, job, cases, enabled, pc, on, cb, rollup, mpesa, contra, budget>>

\* ... opens a case under a random reference unless one is open ...
SweepOpensCase(i) ==
  /\ sweep[i] = "selected"
  /\ IF rcase[i] \in OpenStates
     THEN UNCHANGED <<rcase, tries>>
     ELSE OpenCase(i)
  /\ GotoSweep(i, "query")
  /\ UNCHANGED <<ledger, job, refUsed, flagged, enabled, pc, on, cb, rollup, mpesa, contra, budget>>

\* reconcileTransaction, for an operator's refresh or the executor's delayed job, opens no case.
ReconcileSelects(i) ==
  /\ "RECONCILE_TRANSACTION" \in ReconcileJobs
  /\ sweep[i] = "idle"
  /\ txn[i] \notin SettledStates \cup {"NONE"}
  /\ GotoSweep(i, "query")
  /\ UNCHANGED <<ledger, job, cases, enabled, pc, on, cb, rollup, mpesa, contra, budget>>

CountQuery(i) == tries' = [tries EXCEPT ![i] = IF rcase[i] \in OpenStates THEN @ + 1 ELSE @]

OpenTries(i) == IF rcase[i] \in OpenStates THEN tries[i] ELSE 0

\* queryTransactionStatus: enough attempts, so escalate to a human.
Escalate(i) ==
  /\ sweep[i] = "query"
  /\ OpenTries(i) >= MaxQueries
  /\ rcase' = [rcase EXCEPT ![i] = "ESCALATED"]
  /\ GotoSweep(i, "idle")
  /\ UNCHANGED <<ledger, job, tries, refUsed, flagged, enabled, pc, on, cb, rollup,
                 mpesa, contra, budget>>

\* The integration is unavailable: nothing is asked and nothing changes.
QueryUnavailable(i) ==
  /\ sweep[i] = "query"
  /\ OpenTries(i) < MaxQueries
  /\ ~enabled
  /\ GotoSweep(i, "idle")
  /\ UNCHANGED <<ledger, job, cases, enabled, pc, on, cb, rollup, mpesa, contra, budget>>

\* M-PESA takes the query; its answer comes as a callback.
AskStatus(i) ==
  /\ sweep[i] = "query"
  /\ OpenTries(i) < MaxQueries
  /\ enabled
  /\ asked' = [asked EXCEPT ![i] = TRUE]
  /\ GotoSweep(i, "asked")
  /\ UNCHANGED <<ledger, job, cases, enabled, pc, on, cb, rollup, provider, requests, contra, budget>>

\* The query itself failed: an attempt is counted and the transaction is left alone.
QueryFails(i) ==
  /\ sweep[i] = "query"
  /\ OpenTries(i) < MaxQueries
  /\ enabled
  /\ CountQuery(i)
  /\ GotoSweep(i, "idle")
  /\ UNCHANGED <<ledger, job, rcase, refUsed, flagged, enabled, pc, on, cb, rollup, mpesa,
                 contra, budget>>

\* After the query, in one statement: the case is QUERYING with one more attempt ...
RecordQuery(i) ==
  /\ sweep[i] = "asked"
  /\ rcase' = [rcase EXCEPT ![i] = IF @ \in OpenStates THEN "QUERYING" ELSE @]
  /\ CountQuery(i)
  /\ GotoSweep(i, "counted")
  /\ UNCHANGED <<ledger, job, refUsed, flagged, enabled, pc, on, cb, rollup, mpesa,
                 contra, budget>>

\* Mutant: the status is written whatever it has become while the query was under way.
MarkReconcilingBlindly(i) ==
  /\ sweep[i] = "counted"
  /\ txn' = [txn EXCEPT ![i] = "RECONCILING"]
  /\ GotoSweep(i, "idle")
  /\ UNCHANGED <<batch, instr, claim, job, cases, enabled, pc, on, cb, rollup, mpesa,
                 contra, budget>>

\* ... and in another: a transaction still waiting is RECONCILING.
MarkReconciling(i) ==
  /\ sweep[i] = "counted"
  /\ txn' = [txn EXCEPT ![i] = IF @ \in {"TIMEOUT", "AWAITING_CALLBACK"} THEN "RECONCILING" ELSE @]
  /\ GotoSweep(i, "idle")
  /\ UNCHANGED <<batch, instr, claim, job, cases, enabled, pc, on, cb, rollup, mpesa,
                 contra, budget>>

\* The reconciliation worker dies between two statements.
SweepDies(i) ==
  /\ sweep[i] # "idle"
  /\ UseFault
  /\ GotoSweep(i, "idle")
  /\ UNCHANGED <<ledger, job, cases, enabled, pc, on, cb, rollup, mpesa, contra>>

-----------------------------------------------------------------------------
(* The environment: M-PESA decides, an administrator switches Daraja.      *)

ProviderDecides(i) ==
  /\ provider[i] = "received"
  /\ \E outcome \in {"paid", "refused"} : provider' = [provider EXCEPT ![i] = outcome]
  /\ UNCHANGED <<ledger, job, cases, enabled, pc, on, cb, sweep, rollup, asked, requests,
                 contra, budget>>

ToggleDaraja ==
  /\ toggles < MaxToggles
  /\ toggles' = toggles + 1
  /\ enabled' = ~enabled
  /\ UNCHANGED <<ledger, job, cases, pc, on, cb, sweep, rollup, mpesa, contra, faults, throttles>>

-----------------------------------------------------------------------------
WorkerStep(w) ==
  \/ \E i \in Instructions : ClaimJob(w, i)
  \/ SettleJob(w) \/ Throttle(w)
  \/ PrepareSubmission(w) \/ SkipSubmission(w) \/ SkipDisabled(w)
  \/ LoadClientFails(w) \/ SendPayment(w)
  \/ RecordAck(w) \/ MarkForReconciliation(w) \/ RecordRejection(w)
  \/ WorkerTakesLock(w) \/ WorkerFindsLockBusy(w) \/ WorkerSettlesBatch(w)
  \/ WorkerCrash(w) \/ UnclassifiedError(w)

CallbackStep(k) ==
  \/ StoreCallback(k) \/ EnqueueCallback(k) \/ CallbackNeverApplied(k)
  \/ ApplyB2cResult(k) \/ ApplyTransactionStatus(k)
  \/ CallbackTakesLock(k) \/ CallbackFindsLockBusy(k) \/ CallbackSettlesBatch(k)
  \/ CallbackDiesBeforeRollUp(k) \/ CallbackHandledAgain(k)

SweepStep(i) ==
  \/ SweepSelects(i) \/ SweepOpensCase(i) \/ ReconcileSelects(i)
  \/ Escalate(i) \/ QueryUnavailable(i) \/ AskStatus(i) \/ QueryFails(i)
  \/ RecordQuery(i) \/ MarkReconciling(i) \/ SweepDies(i)

Next ==
  \/ \E w \in Workers : WorkerStep(w)
  \/ \E k \in Deliveries : CallbackStep(k)
  \/ \E i \in Instructions : SweepStep(i) \/ RecoverLease(i) \/ ProviderDecides(i)
  \/ ToggleDaraja

Spec == Init /\ [][Next]_vars

(***************************************************************************)
(* Fairness.  The queue loops poll for ever, so consumers finish what they *)
(* hold and leases of dead consumers run out; the scheduler sweeps every   *)
(* five minutes; M-PESA decides what it took in and answers a query it     *)
(* took.  Nothing obliges it to deliver a result (Daraja performs no       *)
(* retries), and a query that fails is tried again and succeeds in the end *)
(* (the strong fairness of AskStatus).                                     *)
(***************************************************************************)
WorkerProgress(w) ==
  \/ \E i \in Instructions : ClaimJob(w, i)
  \/ SettleJob(w)
  \/ PrepareSubmission(w) \/ SkipSubmission(w) \/ SkipDisabled(w)
  \/ LoadClientFails(w) \/ SendPayment(w)
  \/ RecordAck(w) \/ MarkForReconciliation(w) \/ RecordRejection(w)
  \/ WorkerTakesLock(w) \/ WorkerFindsLockBusy(w) \/ WorkerSettlesBatch(w)

CallbackProgress(k) ==
  \/ EnqueueCallback(k)
  \/ ApplyB2cResult(k) \/ ApplyTransactionStatus(k)
  \/ CallbackTakesLock(k) \/ CallbackFindsLockBusy(k) \/ CallbackSettlesBatch(k)

LeaseRunsOut(i) == RecoverLease(i) /\ ~ \E w \in Workers : on[w] = i

SweepProgress(i) ==
  \/ SweepSelects(i) \/ SweepOpensCase(i)
  \/ Escalate(i) \/ QueryUnavailable(i) \/ AskStatus(i) \/ QueryFails(i)
  \/ RecordQuery(i) \/ MarkReconciling(i)

Fairness ==
  /\ \A w \in Workers : WF_vars(WorkerProgress(w))
  /\ \A k \in Deliveries : WF_vars(CallbackProgress(k))
  /\ \A k \in Deliveries : k[2] \in StatusKinds => WF_vars(StoreCallback(k))
  /\ \A i \in Instructions :
       /\ WF_vars(LeaseRunsOut(i))
       /\ WF_vars(SweepProgress(i))
       /\ SF_vars(AskStatus(i))
       /\ WF_vars(ProviderDecides(i))

FairSpec == Spec /\ Fairness

-----------------------------------------------------------------------------
(* Safety.                                                                 *)

\* Whatever is redelivered, crashes or expires, at most one payment request is ever sent
\* for an instruction (executeInstruction, sendB2cPayment).
AtMostOneRequest == \A i \in Instructions : requests[i] <= 1

\* At no moment do two executors hold an instruction beyond prepareSubmission, where the
\* request may still be sent or its answer is still to be recorded.
InCall == {"prepared", "accepted", "unknown", "rejected"}

OneCaller ==
  \A v, w \in Workers : pc[v] \in InCall /\ pc[w] \in InCall /\ on[v] = on[w] => v = w

\* A request that may have reached M-PESA is on record before it is sent, so that the next
\* executor asks instead of sending (the order executeInstruction's comment insists on).
RequestIsOnRecord ==
  \A i \in Instructions :
    requests[i] > 0 => /\ claim[i] # "CLAIMED"
                       /\ txn[i] # "NONE"
                       /\ batch # "QUEUED"

\* The ledger never says SUCCESS of money that did not move, whatever arrives in whatever order.
SuccessIsPaid == \A i \in Instructions : txn[i] = "SUCCESS" => provider[i] = "paid"

\* The ledger says FAILED only of a payment M-PESA will not make.
FailedIsUnpaid ==
  \A i \in Instructions : txn[i] = "FAILED" => provider[i] \in {"refused", "rejected"}

\* The idempotency claim is SETTLED exactly when the ledger row is: an executor that reads
\* the claim and one that reads the row decide alike.
ClaimAgreesWithLedger ==
  \A i \in Instructions :
    /\ claim[i] = "SETTLED" <=> txn[i] \in SettledStates
    /\ claim[i] = "CLAIMED" <=> txn[i] = "NONE"

\* The roll-up never overstates: it is computed under the lock, but from rows that callbacks
\* go on changing until it is written.
VerdictIsTrue ==
  /\ batch = "SUCCESS" => \A i \in Instructions : txn[i] = "SUCCESS"
  /\ batch = "FAILED" => \A i \in Instructions : txn[i] = "FAILED"
  /\ batch = "PARTIAL_SUCCESS" =>
       /\ \A i \in Instructions : txn[i] \in SettledStates
       /\ Some("SUCCESS") /\ Some("FAILED")
  /\ batch = "TIMEOUT" => \A i \in Instructions : txn[i] # "NONE"

\* A transaction of unknown outcome is in an operator's queue: its newest case is open,
\* being queried or escalated, never resolved and never missing.
UnknownHasCase ==
  \A i \in Instructions : txn[i] = "TIMEOUT" => rcase[i] \in OpenStates \cup {"ESCALATED"}

\* A case resolved by a status query says what the ledger says; a case that reports a
\* discrepancy has one; and a settled outcome that was contradicted has a case, an earlier
\* one if its reference is taken (callback-processor.ts:162).
CasesAreTrue ==
  \A i \in Instructions :
    /\ rcase[i] = "RESOLVED_SUCCESS" => txn[i] = "SUCCESS"
    /\ rcase[i] = "RESOLVED_FAILED" => txn[i] = "FAILED"
    /\ flagged[i] => contra[i]
    /\ contra[i] => rcase[i] # "NONE"

\* While the integration stays enabled, no payments message is acknowledged before its
\* instruction has a ledger row: nothing authorized is dropped without a trace.
AckedIsRecorded ==
  \A i \in Instructions : job[i].status = "SUCCEEDED" /\ toggles = 0 => txn[i] # "NONE"

\* The executor, the callback processor and the sweep write the row with SQL of their own;
\* every change any of them makes is still an edge of the state machine, so a settled
\* outcome is final.
LedgerFollowsEdges ==
  [][\A i \in Instructions :
       txn'[i] # txn[i] /\ txn[i] # "NONE" => txn'[i] \in Allowed[txn[i]]]_vars

\* With readable replies, execution implements the abstract promise about money.
Intent  == [i \in Instructions |-> IF claim[i] = "CLAIMED" THEN "none" ELSE "recorded"]
Outcome == [i \in Instructions |->
              IF provider[i] = "received" THEN "pending"
              ELSE IF provider[i] \in {"refused", "rejected"} THEN "unpaid" ELSE provider[i]]
Record  == [i \in Instructions |-> IF txn[i] \in SettledStates THEN txn[i] ELSE "OPEN"]

Money == INSTANCE Payout WITH intent <- Intent, outcome <- Outcome, record <- Record

ImplementsPayout == Money!Spec

\* What the lifecycle of batches relies on: a batch counts as paid only while it runs or after
\* it was given up on, it is rolled up once, and the roll-up calls it FAILED only if nobody was
\* paid and a success only if someone was, although rows go on changing until it is written
\* (payment-executor.ts:553-612).
Settled == INSTANCE Settlement WITH stage <- batch, paid <- Some("SUCCESS")

ImplementsSettlement == Settled!Spec

-----------------------------------------------------------------------------
(* Liveness, under FairSpec.                                               *)

\* A payment M-PESA made is recorded as SUCCESS in the end, whatever callbacks are lost:
\* the sweep keeps asking.
PaidIsRecorded == \A i \in Instructions : provider[i] = "paid" ~> txn[i] = "SUCCESS"

\* Every payments job reaches a final disposition, whichever consumers die on it.
JobsFinish ==
  \A i \in Instructions : <>[](job[i].status \in {"SUCCEEDED", "DEAD_LETTERED"})

-----------------------------------------------------------------------------
(* A statement of the code that the code does not meet.                    *)

AllSettled == \A i \in Instructions : txn[i] \in SettledStates

\* "Settle the batch once every instruction has reached a terminal state"
\* (payment-executor.ts:553): the roll-up is not lost to a busy lock.
SettledBatchRollsUp == AllSettled ~> batch # "PROCESSING"
=============================================================================
