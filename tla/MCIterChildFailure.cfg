CONSTANTS
  Entry = {a, b}
  Root = Root
  Dots = {Dot}
  NULL = NULL
  Trees <- AllTrees
  MaxDepths <- SomeDepths
SPECIFICATION Spec
INVARIANTS
  ChildFailureReturned
CHECK_DEADLOCK FALSE
