SPECIFICATION Spec
CONSTANTS
  Subscribers = {"s", "t"}
  MaxDigits = 6
  MinCents = 1000
  MaxCents = 25000000
  MaxName = 4
  MaxLines = 2
  Careful = TRUE
  Separators = {",", ";"}
  Headers <- MCHeaders
  Lines <- MCLines
INVARIANTS GridIsAsWritten AnswersAreTrue DuplicatesAreFound
CHECK_DEADLOCK FALSE
