SPECIFICATION ObjectsSpec
CONSTANTS
  Obj = {x1, x2, x3}
  MaxLevel = 2
  Val = {1}
  Default = 0
  NotifyObj = {x1, x2, x3}
  MaxPushes = 2
  NULL = Null
  x1 = x1
  x2 = x2
  x3 = x3
  k1 = k1
  k2 = k2
  o1 = o1
  Absent = Absent
  Null = Null
SYMMETRY Symmetry
INVARIANTS ListsSound NotifyRight MapSound
PROPERTIES ImplementsContext ImplementsMap
\* The context may be gone, with its objects.
CHECK_DEADLOCK FALSE
