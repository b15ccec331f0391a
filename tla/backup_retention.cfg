SPECIFICATION Spec
CONSTANTS
  Workers = {w1, w2}
  Manual = {m1}
  None = None
  Retentions = {1, 2}
  MaxFirings = 1
  MaxAttempts = 2
  MaxFailures = 2
  MaxEdits = 1
  MaxFaults = 2
SYMMETRY Symmetry
INVARIANTS NewestAreRestorable CompletionIsTrue NoWindowLost OnlyFaultsAbandon
PROPERTY ImplementsArchive
CHECK_DEADLOCK FALSE
