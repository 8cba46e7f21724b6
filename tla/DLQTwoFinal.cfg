SPECIFICATION DLQSpec
CONSTANTS
  a1 = a1
  a2 = a2
  m1 = m1
  m2 = m2
  Agents = {a1, a2}
  Recipients <- MCRecipients
  e1 = e1
  e2 = e2
  Messages = {m1, m2}
  Engines = {e1, e2}
  MaxRetries = 2
  BatchLimit = 2
  MaxFaults = 1
  MaxInterruptions = 0
PROPERTIES
  SettledIsFinal
