SPECIFICATION Spec
CONSTANTS
  Subscribers = {"s", "t"}
  MaxDigits = 6
  MinCents = 1000
  MaxCents = 25000000
  MaxName = 4
  MaxLines = 1
  Careful = FALSE
  Separators = {";"}
  Headers <- MCHeaders
  Lines <- MCLines
INVARIANTS AcceptedIsMeant
CHECK_DEADLOCK FALSE
