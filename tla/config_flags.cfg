SPECIFICATION Spec
CONSTANTS
  Nil = Nil
  Environments <- MCDerivedEnvironments
  CommandLines <- MCChangingFlags
  Domain <- MCDomain
  Pieces <- MCPieces
INVARIANTS
  FlagsCount
CHECK_DEADLOCK FALSE
