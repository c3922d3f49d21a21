SPECIFICATION Spec
CONSTANTS
  Ids <- MCIds
  ServerIds <- MCServerIds
  Types <- MCTypes
  NoType = NoType
  Strings <- MCStrings
  Empty = ""
  LastPart <- MCLastPart
  Protocol <- MCProtocol
  Messages <- MCMessages
  MaxMessages = 5
CONSTRAINT OneTheme
INVARIANTS
  TypeOK
  LifetimesInOrder
  ReferencesInLifetime
  NewArgIsNewOrInUse
  LifetimesExplained
  AnnouncedUnlessRaised
  NamesFromHistory
  ListenerUpToDate
PROPERTIES
  PastIsFrozen
  ImplementsLifetimes
