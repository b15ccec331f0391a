SPECIFICATION Spec
CONSTANTS
  Instructions = {i1}
  Workers = {w1}
  None = None
  Kinds = {"RESULT_OK", "RESULT_FAIL", "QUEUE_TIMEOUT", "STATUS_OK", "STATUS_FAIL", "STATUS_PENDING"}
  ReconcileJobs = {"RECONCILE_TRANSACTION"}
  MaxAttempts = 2
  MaxQueries = 1
  MaxFaults = 0
  MaxThrottles = 0
  MaxToggles = 0
  GarbledReplies = FALSE
INVARIANTS SuccessIsPaid FailedIsUnpaid ClaimAgreesWithLedger CasesAreTrue
PROPERTY LedgerFollowsEdges
CHECK_DEADLOCK FALSE
