SPECIFICATION Spec
CONSTANTS
  Thread = {"main", "h1", "h2", "w1"}
  Descriptors = {"d1", "d2"}
  Addresses = 2
  Messages = {"m1", "m2"}
  Units = 2
  Calls = 2
  Holes = {"value"}
  Chosen = {"nested", "scoped", "locked", "talking"}
  Families <- MCFamilies
INVARIANT NoRace
INVARIANT LockHeld
INVARIANT FramesAlive
INVARIANT ErrorsTrue
INVARIANT GivenBack
INVARIANT StreamTrue
PROPERTY CallsEnd
CHECK_DEADLOCK FALSE
