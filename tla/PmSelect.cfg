SPECIFICATION CmdSpec
CONSTANTS
  Name = {"a", "b", "c"}
  Url = {"ua", "ub", "uc", "uw"}
  MaxVer = 2
  Declared <- Few
  MaxRounds = 4
  MaxRead = 2
  LongFiles = FALSE
  None = None
INVARIANT WhyTrue
INVARIANT AllMet
INVARIANT EnoughRounds
INVARIANT Agreed
INVARIANT NothingMissing
