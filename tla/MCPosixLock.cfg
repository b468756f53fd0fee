CONSTANTS
  p = p  q = q  p1 = p1  p2 = p2  q1 = q1  q2 = q2
  Process = {p, q}
  Thread = {p1, p2, q1, q2}
  Home <- Homes
  Lock = {l1, l2}
  NULL = NULL
SPECIFICATION Spec
PROPERTIES
  WaitEnds
CHECK_DEADLOCK FALSE
