CONSTANTS
  Sources <- MCCommented
SPECIFICATION Spec
CHECK_DEADLOCK FALSE
PROPERTY PointerDimensionOptional
