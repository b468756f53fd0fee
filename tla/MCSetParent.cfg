CONSTANTS
  Entry = {a, b}
  Root = Root
  Dots = {Dot}
  NULL = NULL
  Trees <- AllTrees
  MaxDepths <- NoLimit
SPECIFICATION SetSpec
INVARIANTS
  ParentPathGiven
CHECK_DEADLOCK FALSE
