CONSTANTS
  Sources <- MCSources
SPECIFICATION Spec
CHECK_DEADLOCK FALSE
INVARIANTS
  TypeOK
  KeywordFound
  TablesOwned
  LocalTableScope
  NothingLeft
  AcceptedAsDocumented
  MissingTableReported
PROPERTIES
  Progress
  Terminates
