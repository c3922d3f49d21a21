SPECIFICATION ManagerSpec
CONSTANTS
  x = x
  y = y
  p = p
  ConnIds <- MCConnIds
  Payloads <- MCPayloads
  Letters = 2
  MaxConnections = 3
  MaxStored = 2
SYMMETRY Symmetry
INVARIANTS
  OpenIsReachable
  OnlyNewestOpen
  StoryOfEachConnection
  NamesReadBack
PROPERTIES
  ClosedIsFinal
