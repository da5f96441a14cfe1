SPECIFICATION DriverSpec
CONSTANTS
  Module <- Three
  Entry = "a"
  Imports <- Lists
  Jobs = 2
  Sources = 2
  Orphans = {}
INVARIANT InOrder
INVARIANT Exact
INVARIANT ExitTrue
PROPERTY BuildEnds
