SPECIFICATION Spec
CONSTANTS Keyword <- MCKeyword
 Word <- MCWord
 Buffer = 7
 MaxInt = 127
 MaxDepth = 5
 Enums <- MCEnums
 Cursored <- MCCursored
 Lists <- MCLists
 Vars <- MCVars
 MaxRounds = 12
 Tasks <- MCTasks
 TextOf <- MCTextOf
PROPERTY ReadsBack
PROPERTY RunsAsWritten
PROPERTY NothingImpossible
PROPERTY LexedRight
CHECK_DEADLOCK FALSE
