SPECIFICATION FairSpec
CONSTANTS
  Deploys = {d1, d2}
  Edited = {d2}
  Migrations = 2
  Proven = {2}
  Replicas = {r1, r2}
  Jobs = {"reconciliation", "housekeeping"}
  Daily = "housekeeping"
  LastDay = 1
  MaxChain = 2
  MaxFaults = 1
  None = None
INVARIANTS SchemaIsRecorded RacesAtTheTableOnly ServesOnWholeSchema EachRunsOnce
PROPERTY JobsKeepRunning
CHECK_DEADLOCK FALSE
