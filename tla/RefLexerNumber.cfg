CONSTANTS
  Files <- MCFiles
  IdentMaxIndex = 2
  UIntMod = 32
SPECIFICATION Spec
CHECK_DEADLOCK FALSE
INVARIANT NumberAsWritten
