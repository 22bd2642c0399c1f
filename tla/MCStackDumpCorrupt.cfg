CONSTANTS
  MaxSlot = 3
  FnR = FnR
  FnU = FnU
  StrR = StrR
  TabR = TabR
  Thr = Thr
  Objs = {FnR, FnU, StrR, TabR, Thr}
  Null = Null
  Heap <- MCHeap
  Code <- MCCode
  Images <- MCCorruptImages

SPECIFICATION Spec
PROPERTY WalkDescends
CHECK_DEADLOCK FALSE
