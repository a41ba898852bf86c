CONSTANTS
  Sources <- MCCommented
SPECIFICATION Spec
CHECK_DEADLOCK FALSE
INVARIANT RunAsCommented
