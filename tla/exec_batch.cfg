SPECIFICATION Spec
CONSTANTS
  Instructions = {i1, i2}
  Workers = {w1}
  None = None
  Kinds = {"RESULT_OK", "QUEUE_TIMEOUT"}
  ReconcileJobs = {}
  MaxAttempts = 2
  MaxQueries = 1
  MaxFaults = 1
  MaxThrottles = 0
  MaxToggles = 0
  GarbledReplies = TRUE
SYMMETRY Symmetry
INVARIANT VerdictIsTrue
PROPERTY ImplementsSettlement
CHECK_DEADLOCK FALSE
