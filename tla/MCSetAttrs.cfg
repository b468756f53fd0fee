CONSTANTS
  Entry = {a, b, c}
  Root = Root
  Dots = {Dot}
  NULL = NULL
  Trees <- AllTrees
  MaxDepths <- NoLimit
SPECIFICATION FairSetSpec
INVARIANTS
  SetTypeOK ChangedFromTop FailureIsReported QuietIsDone OpenChangeRead
PROPERTIES
  Returns
CHECK_DEADLOCK FALSE
