SPECIFICATION Spec
CONSTANTS
  Instructions = {i1}
  Workers = {w1, w2}
  None = None
  Kinds = {"RESULT_OK", "RESULT_FAIL", "QUEUE_TIMEOUT"}
  ReconcileJobs = {"SWEEP"}
  MaxAttempts = 2
  MaxQueries = 1
  MaxFaults = 2
  MaxThrottles = 1
  MaxToggles = 1
  GarbledReplies = FALSE
SYMMETRY Symmetry
INVARIANTS AtMostOneRequest AckedIsRecorded UnknownHasCase
PROPERTY ImplementsPayout
CHECK_DEADLOCK FALSE
