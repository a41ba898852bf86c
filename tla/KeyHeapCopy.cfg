CONSTANTS
  null = null
  symTable = symTable
  localTable = localTable
  Blocks <- MCBlocks
  Malloc <- MCMalloc
  Null = null
  Lists <- MCLists
  Keys <- MCKeys
  ReserveCounts <- MCReserveCounts
  GrowBy = 2
  CopyResults = {0}
SPECIFICATION Spec
VIEW MCView
CHECK_DEADLOCK FALSE
INVARIANT CopyFailureReturns
