SPECIFICATION Spec
CONSTANTS
  x = x
  y = y
  p = p
  q = q
  ConnIds <- MCConnIds
  Payloads <- MCPayloads
  MaxConnections = 4
  MaxStored = 4
  MaxLines = 4
CHECK_DEADLOCK FALSE
INVARIANTS
  OneConnectionPerId
  NothingLost
  ClosedByCleanup
PROPERTIES
  Terminates
