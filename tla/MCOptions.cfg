CONSTANTS
  Chars <- MCChars
  FirstArguments <- MCFirst
  SecondArguments <- MCSecond
SPECIFICATION Spec
CHECK_DEADLOCK FALSE
INVARIANTS
  TypeOK
  OptionsOwnNames
  NothingLeft
  FreedOnce
  BufferExact
  SourceFound
