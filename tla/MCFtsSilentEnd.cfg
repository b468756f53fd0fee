CONSTANTS
  Entry = {a, b}
  Root = Root
  Dots = {Dot}
  NULL = NULL
  Trees <- AllTrees
  MaxDepths <- SomeDepths
SPECIFICATION FtsSpec
INVARIANTS
  EndsWithException
CHECK_DEADLOCK FALSE
