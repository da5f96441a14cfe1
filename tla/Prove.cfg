SPECIFICATION Spec
CONSTANTS
  MinInt <- Lowest
  MaxInt = 7
  IntVar = {"i", "n", "j", "result"}
  ListVar = {"xs", "ys", "self.ts"}
  Global = {"ys"}
  ObjectOf <- Objects
  MaxLen = 2
  None = None
  Families <- All
PROPERTY NoNeededCheckRemoved
PROPERTY KnowledgeTrue
CHECK_DEADLOCK FALSE
PROPERTY FastIsExact
