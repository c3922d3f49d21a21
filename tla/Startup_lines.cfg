SPECIFICATION MCSpec
CONSTANTS
  f1 = f1
  f2 = f2
  f3 = f3
  NoProtocol = NoProtocol
  MaxWords = 3
  Files <- MCFiles
  Directory <- MCDirectory
  Contents <- MCContents
  Broken <- NoProtocol
  Tags <- MCTags
  FakeEnums = "fake_enums"
  FakeInterface <- MCFakeInterface
  Bits = {0, 1, 2}
  CommandLines <- MCCommandLines
  BadMatchers <- MCBadMatchers
  Escape = "escape"
  Escaped = "newline"
  Unreadable = "unreadable"
  Quote = "quote"
CHECK_DEADLOCK FALSE
INVARIANTS
  StartsAsAsked
  GdbInstanceAgrees
  NewestOfEarliest
  TaggedUpToMissing
  NamesStandForValue
