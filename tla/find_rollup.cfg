SPECIFICATION FairSpec
CONSTANTS
  Instructions = {i1, i2}
  Workers = {w1}
  None = None
  Kinds = {"RESULT_OK"}
  ReconcileJobs = {}
  MaxAttempts = 2
  MaxQueries = 1
  MaxFaults = 0
  MaxThrottles = 0
  MaxToggles = 0
  GarbledReplies = FALSE
PROPERTY SettledBatchRollsUp
CHECK_DEADLOCK FALSE
