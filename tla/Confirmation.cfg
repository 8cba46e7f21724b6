SPECIFICATION Spec
CONSTANTS
  a1 = a1
  a2 = a2
  m1 = m1
  m2 = m2
  Agents = {a1, a2}
  Recipients <- MCRecipients
  Batches <- Apart
  e1 = e1
  e2 = e2
  w1 = w1
  w2 = w2
  NoMessage = NoMessage
  NoAck = NoAck
  Handlers = {h1}
  Nonces = {n1}
  AckStatus = {"processed"}
  Messages = {m1}
  Engines = {e1}
  MaxRetries = 1
  BatchLimit = 2
  MaxFaults = 0
  MaxInterruptions = 0
  Workers = {w1, w2}
  EngineOf <- OneEngine
  h1 = h1
  h2 = h2
  n1 = n1
  n2 = n2
PROPERTIES
  ConfirmationStands
