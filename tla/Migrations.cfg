SPECIFICATION MigrationSpec
CONSTANTS
  g1 = g1
  g2 = g2
  job = job
  Nobody = Nobody
  Ghost = Ghost
  Processes = {g1, g2, job}
  Gateways = {g1, g2}
  Last = 2
  MaxFaults = 1
  MaxInterruptions = 2
INVARIANTS
  AppliedOnceInOrder
  UpIsMigrated
  FailuresExplained
PROPERTIES
  GatewaysComeUp
CHECK_DEADLOCK FALSE
