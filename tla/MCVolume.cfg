CONSTANTS
  one = one  two = two
  Thread = {t1, t2}
  Servers <- ServerLists
  Count <- CountOf
  List = {l1, l2}
  Block = {b1, b2, b3}
  Mount = {m1, m2, m3}
  NULL = NULL
SPECIFICATION Spec
SYMMETRY Symmetry
INVARIANTS
  VolTypeOK MountsOwned MethodMountOpen ServersOwned ServersOfMount
CHECK_DEADLOCK FALSE
