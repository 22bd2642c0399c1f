CONSTANTS
  MaxSlot = 3
  FnR = FnR
  FnU = FnU
  StrR = StrR
  TabR = TabR
  Thr = Thr
  Objs = {FnR, FnU, StrR, TabR, Thr}
  Null = Null
  Heap <- MCHeap
  Code <- MCCode
  Images <- MCImages

SPECIFICATION Spec
INVARIANT DumpsEverySpan
CHECK_DEADLOCK FALSE
