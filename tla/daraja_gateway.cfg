SPECIFICATION Spec
CONSTANTS
  Workers = {w1, w2}
  None = None
  Permit = 2
  Rate = 1
  Burst = 2
  MaxClock = 1
  Environments = {production, sandbox}
  Production = production
  Officers = {o1, o2}
  Nothing = Nothing
  MaxRotations = 2
  MaxDeaths = 1
INVARIANTS PermitsAreBounded EnabledIsProven PaymentsAreProven
SYMMETRY Symmetry
CHECK_DEADLOCK FALSE
