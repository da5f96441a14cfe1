SPECIFICATION Spec
CONSTANTS
  Owner = {a}
  Slot = {q, r}
  None = None
INVARIANT EntrySound
INVARIANT RoundsBounded
CHECK_DEADLOCK FALSE
