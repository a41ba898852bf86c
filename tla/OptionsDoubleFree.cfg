CONSTANTS
  Chars <- MCChars
  FirstArguments <- MCFirst
  SecondArguments <- MCSecond
SPECIFICATION Spec
CHECK_DEADLOCK FALSE
INVARIANT PartsReleasedOnce
