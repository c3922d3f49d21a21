SPECIFICATION Spec
CONSTANTS
  x = x
  y = y
  ConnIds <- MCConnIds
  Payloads <- MCPayloads
  Contents <- MCContents
  Times <- MCTimes
  Matchers <- MCMatchers
  Names <- MCNames
  Counts <- MCCounts
  MaxConnections = 2
  MaxStored = 3
  MaxCommands = 2
SYMMETRY Symmetry
CONSTRAINT Bounded
INVARIANTS
  AllMessagesOrdered
  ListShowsLast
  GapsAreReal
  LiveIsListed
