CONSTANTS
  Entry = {a, b}
  Root = Root
  Dots = {Dot}
  NULL = NULL
  Trees <- AllTrees
  MaxDepths <- SomeDepths
SPECIFICATION FairFtsSpec
INVARIANTS
  FtsTypeOK NeverBoth NothingSkipped StopMeansAll CopiesOwned
PROPERTIES
  StopIsFinal LoopEnds
CHECK_DEADLOCK FALSE
