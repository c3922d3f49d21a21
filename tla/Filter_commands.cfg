SPECIFICATION FilterSpec
CONSTANTS
  Texts <- MCTexts
  Messages <- MCMessages
  MaxCommands = 3
CHECK_DEADLOCK FALSE
INVARIANTS
  ShowsWhatWasAsked
