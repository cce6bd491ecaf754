SPECIFICATION Spec
CONSTANTS
  Letters <- MCLetters
  DigitValue <- MCDigitValue
  Others <- MCOthers
  Typed <- MCTyped
  Files <- MCFiles
  BUFFER_SIZE = 6
  CAP_INITIAL = 2
  HAW_INT_MAX = 9
  LLONG_MAX = 99
  OutOfRange <- MCOutOfRange
CHECK_DEADLOCK FALSE
INVARIANTS
  TypeOK
  BufferFits
  TextIsLexeme
  OwnValue
  KindByMagnitude
  StaysInLine
  UndefinedExplained
PROPERTIES
  LexEnds
