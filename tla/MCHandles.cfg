CONSTANTS
  v1 = v1  v2 = v2  o1 = o1  o2 = o2  d1 = d1  f1 = f1  i1 = i1  e1 = e1
  Obj <- Objects
  Place <- Places
  Thread = {t1, t2}
  Python = Python
  NULL = NULL
SPECIFICATION Spec
SYMMETRY Symmetry
INVARIANTS
  TypeOK Counted NoDangling NoUseAfterClose FiniLast OneOwner AllClosed
PROPERTIES
  ImplementsLifetimes
CHECK_DEADLOCK FALSE
