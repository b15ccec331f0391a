SPECIFICATION RestoreSpec
CONSTANTS
  Together = {t1}
  After = {a1}
  Denied = {d1}
  None = None
  NoSnapshot = NoSnapshot
  MaxTries = 2
  MaxFaults = 2
  Triggers = 2
  Sealing = 1
  MaxDisasters = 1
INVARIANTS LiveChainVerifies LiveRecordedWithChange RestoredIsWhole
PROPERTIES InFlightEnds LogIsAppendOnly
CHECK_DEADLOCK FALSE
