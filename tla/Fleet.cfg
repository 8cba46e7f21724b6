SPECIFICATION Spec
CONSTANTS
  a1 = a1
  a2 = a2
  m1 = m1
  m2 = m2
  Agents = {a1, a2}
  Recipients <- MCRecipients
  Batches <- Apart
  e1 = e1
  e2 = e2
  w1 = w1
  w2 = w2
  NoMessage = NoMessage
  NoAck = NoAck
  Handlers = {}
  Nonces = {}
  AckStatus = {"processed"}
  Messages = {m1, m2}
  Engines = {e1, e2}
  MaxRetries = 1
  BatchLimit = 2
  MaxFaults = 2
  MaxInterruptions = 1
  Workers = {w1, w2}
  EngineOf <- TwoEngines
INVARIANTS
  ExclusiveCustody
  OneDeadLetter
  RowBeforeUse
  SentReachedAll
  RetriesWithinBudget
  ProcessedReachedAll
  LossesAccounted
PROPERTIES
  RefinesJourney
