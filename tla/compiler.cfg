\* Programs and REPL sessions of up to five constructs over two names; a
\* function has room for two locals beside its slot 0.
CONSTANTS
  Names = {a, b}
  NoName = NoName
  Other = Other
  LocalLimit = 3
  ProgramLength = 5
SPECIFICATION Spec
SYMMETRY NameSymmetry
INVARIANTS
  TypeOK
  ScriptConstantsResolve
  OneCellShortPerSet
  InnermostFound
PROPERTY
  ScopesNeverRecover
CHECK_DEADLOCK FALSE
