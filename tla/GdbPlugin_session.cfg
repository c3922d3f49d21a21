SPECIFICATION Spec
CONSTANTS
  x = x
  y = y
  ConnIds <- MCConnIds
  Payloads <- MCPayloads
  MaxConnections = 2
  MaxStored = 2
  MaxInstances = 3
  MaxRuns = 2
SYMMETRY Symmetry
CHECK_DEADLOCK FALSE
INVARIANTS
  DictionariesAgree
  OneInstanceEach
PROPERTIES
  StopsExactlyAtMatches
