SPECIFICATION Spec
CONSTANTS
  Owner = {"a", "c"}
  Slot = {"q", "r", "s"}
  Families <- Sound
  None = None
INVARIANT NoUseAfterMove
INVARIANT NoUseAfterFree
INVARIANT Exact
CHECK_DEADLOCK FALSE
