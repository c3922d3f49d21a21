SPECIFICATION Spec
CONSTANTS
  x = x
  y = y
  ConnIds <- MCConnIds
  Payloads <- MCPayloads
  MaxConnections = 2
  MaxStored = 2
  MaxInstances = 2
  MaxRuns = 2
CHECK_DEADLOCK FALSE
INVARIANTS
  MessagesOfOneConnection
