SPECIFICATION Spec
CONSTANTS
  Box = {b1, b2, b3}
  Name = {x, y}
  MaxDepth = 1
  Styles <- Sound
  MaxCount = 2
  None = None
SYMMETRY SameBoxes
INVARIANT Counted
INVARIANT NoDangling
INVARIANT Reclaimed
