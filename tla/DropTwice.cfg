SPECIFICATION Spec
CONSTANTS
  None = None
  Families <- OwnParameter
CHECK_DEADLOCK FALSE
PROPERTY DroppedOnce
