CONSTANTS
  Entry = {a, b}
  Root = Root
  Dots = {Dot}
  NULL = NULL
  Trees <- AllTrees
  MaxDepths <- SomeDepths
SPECIFICATION Spec
INVARIANTS
  ZeroMeansNoMoreEntries
CHECK_DEADLOCK FALSE
