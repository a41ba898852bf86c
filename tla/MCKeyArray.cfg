CONSTANTS
  d1 = d1
  d2 = d2
  none = none
  Keys <- MCKeys
  Data <- MCData
  NoOut = none
  ReserveCounts <- MCReserveCounts
  GrowBy = 2
  UIntMod = 16
  MaxCapacity = 5
SPECIFICATION Spec
INVARIANTS
  TypeOK
  Capacity
  Sorted
  SearchBracket
PROPERTIES
  SearchProgress
  IndexStable
  Termination
  MapSpec
