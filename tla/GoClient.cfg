SPECIFICATION GoSpec
CONSTANTS
  MaxRetries = 2
  Buffer = 1
  MaxConns = 3
INVARIANTS
  AttemptsBounded
  KeepsTrying
PROPERTIES
  CloseEndsLoops
  GivesUp
CHECK_DEADLOCK FALSE
