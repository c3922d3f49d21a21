SPECIFICATION FilterSpec
CONSTANTS
  Texts <- MCTexts
  Messages <- MCMessages
  MaxCommands = 2
CHECK_DEADLOCK FALSE
INVARIANTS
  StarShowsEverything
