SPECIFICATION FairSpec
CONSTANTS
  Instructions = {i1}
  Workers = {w1}
  None = None
  Kinds = {"STATUS_OK", "STATUS_PENDING"}
  ReconcileJobs = {"SWEEP"}
  MaxAttempts = 2
  MaxQueries = 1
  MaxFaults = 1
  MaxThrottles = 0
  MaxToggles = 0
  GarbledReplies = FALSE
PROPERTIES PaidIsRecorded JobsFinish
CHECK_DEADLOCK FALSE
