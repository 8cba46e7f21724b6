SPECIFICATION GatewaySpec
CONSTANTS
  a1 = a1
  a2 = a2
  a3 = a3
  x = x
  d1 = d1
  d2 = d2
  d3 = d3
  Agents = {a1, a3}
  Founders = {a1}
  DidOf <- MCDidOf
  Dids = {d1, d3}
  Callers = {a1, x}
  Nobody = Nobody
  r1 = r1
  r2 = r2
  r3 = r3
  Requests = {r1, r2}
  Ops = {"register", "list", "get", "update", "delete", "heartbeat", "query"}
  Routes = {"agents", "agent", "heartbeat", "query"}
  QueryLimit = 1
  Limit = 1
  Unstorable = {r2}
  Window = 1
  MaxClock = 1
  MaxFaults = 1
  MaxInterruptions = 1
CHECK_DEADLOCK FALSE
INVARIANTS
  ChangesAudited
  AnswersAreTrue
  DeletedActsNoMore
  HeartbeatStands
  AdmittedWithinLimit
  CountersExpire
PROPERTIES
  DeletedRowsStay
