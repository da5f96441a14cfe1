SPECIFICATION Spec
CONSTANTS
  None = None
  Families <- All
PROPERTY NoUndefined
PROPERTY NoNone
PROPERTY CaughtRight
PROPERTY OwnedFreed
CHECK_DEADLOCK FALSE
