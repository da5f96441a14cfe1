SPECIFICATION FairSpec
CONSTANTS
  MaxThreads = 3
  MaxScopes = 1
  MaxTotal = 2
  None = None
  Rules <- HandlesRules
INVARIANT NoUseAfterFree
PROPERTY ScopesEnd
CHECK_DEADLOCK FALSE
