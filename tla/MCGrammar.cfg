CONSTANT Programs <- MCPrograms
SPECIFICATION Spec
CHECK_DEADLOCK FALSE
INVARIANTS
  ExpressionsRead
  StatementsSeparate
  HeadersRead
  Answered
