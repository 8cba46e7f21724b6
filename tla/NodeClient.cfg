SPECIFICATION NodeSpec
CONSTANTS
  MaxRetries = 2
  Sockets = {s1,s2,s3}
  MaxCalls = 3
  MaxIntervals = 3
INVARIANTS
  OneLineagePerCall
PROPERTIES
  OnlyUnansweredEnded
  ReportsGivingUp
CHECK_DEADLOCK FALSE
