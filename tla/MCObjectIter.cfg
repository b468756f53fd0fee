CONSTANTS
  Entry = {a, b, c}
  Root = Root
  Dots = {Dot}
  NULL = NULL
  Trees <- AllTrees
  MaxDepths <- SomeDepths
SPECIFICATION Spec
SYMMETRY Symmetry
INVARIANTS
  TypeOK CallbackArguments VisitedOnce PreOrder DepthBounded HeldExactly Complete
PROPERTIES
  ImplementsTreeWalk
CHECK_DEADLOCK FALSE
