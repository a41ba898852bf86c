CONSTANTS
  Files <- MCFiles
  IdentMaxIndex = 2
  UIntMod = 32
SPECIFICATION Spec
CHECK_DEADLOCK FALSE
INVARIANTS
  TypeOK
  Position
  GrammarAgrees
  IdentWhole
  NumberRead
  FittingAccepted
PROPERTIES
  Terminates
