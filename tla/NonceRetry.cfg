SPECIFICATION RetryingSpec
CONSTANTS
  a1 = a1
  a2 = a2
  m1 = m1
  m2 = m2
  Agents = {a1, a2}
  Recipients <- MCRecipients
  Batches <- Together
  Messages = {m1, m2}
  MaxFaults = 1
  NoAck = NoAck
  h1 = h1
  h2 = h2
  n1 = n1
  n2 = n2
  Handlers = {h1}
  Nonces = {n1}
  AckStatus = {"processed"}
PROPERTIES
  AckedIsConfirmed
