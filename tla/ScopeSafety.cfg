SPECIFICATION Spec
CONSTANTS
  MaxThreads = 3
  MaxScopes = 2
  MaxTotal = 3
  None = None
  Rules <- FullRules
INVARIANT BorrowAlive
INVARIANT ScopeJoined
PROPERTY ForkJoinSpec
CHECK_DEADLOCK FALSE
