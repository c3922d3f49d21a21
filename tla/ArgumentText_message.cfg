SPECIFICATION ArgumentSpec
CONSTANTS
  Marks <- MCMarks
  Texts <- MCTexts
  MaxLength = 3
  MaxElements = 2
CHECK_DEADLOCK FALSE
INVARIANTS
  RightUntilArray
  SameArguments
