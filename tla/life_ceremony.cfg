SPECIFICATION FairSpec
CONSTANTS
  Batches = {b1}
  L1 = {a}
  L2 = {m}
  L3 = {x, y}
  Conflicts <- MCConflicts
  y = y
  q = q
  Payloads = {p, q}
  Signals = {s}
  Blocking = TRUE
  Ceiling = 0
  None = None
  MaxVersion = 3
  MaxApprovals = 2
  MaxChallenges = 2
  MaxFaults = 1
INVARIANTS ApprovalStands ReleaseIsSigned ReleaserIsUnconflicted FindingsAreReviewed
PROPERTIES ImplementsFourEyes CeremonyEnds
CHECK_DEADLOCK FALSE
