SPECIFICATION Spec
CONSTANTS
  Nil = Nil
  Environments <- MCEnvironments
  CommandLines <- MCCommandLines
  Domain <- MCDomain
  Pieces <- MCPieces
INVARIANTS
  TypeOK
  StartsAsDocumented
  DerivedFromOneSide
CHECK_DEADLOCK FALSE
