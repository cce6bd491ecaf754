SPECIFICATION Spec
CONSTANTS
  Byte = 32
  IntMax = 127
  Numbers = {0, 1}
  Strings <- MCStrings
  INITIAL_CAPACITY = 2
  FunctionIds <- MCFunctionIds
  Programs <- EveryProgram
  Clock <- MCClock
  FrameLimit = 4
  Moves = {FALSE, TRUE}
  Repl = FALSE
  SessionSize = 100
  Readable <- MCStrings
CHECK_DEADLOCK FALSE
INVARIANTS
  UndefinedOnlyAt
PROPERTIES
  LagSteps
