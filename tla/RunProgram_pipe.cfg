SPECIFICATION Spec
CONSTANTS
  Capacity = 1
  ExitCodes = {0, 1}
  MaxLines = 3
  MaxInterrupts = 2
CHECK_DEADLOCK FALSE
INVARIANTS
  AllParsed
  ReturnsExitCode
PROPERTIES
  UserIsAsked
  WritesGoOn
  InputEnds
