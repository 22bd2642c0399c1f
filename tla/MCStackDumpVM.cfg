CONSTANTS
  MaxSlot = 3
  FnR = FnR
  FnU = FnU
  StrR = StrR
  TabR = TabR
  Thr = Thr
  Objs = {FnR, FnU, StrR, TabR, Thr}
  Null = Null
  Heap <- MCHeap
  Code <- MCCode
  Images <- MCVMImages

SPECIFICATION SpecVM
INVARIANT TypeOKVM
INVARIANT UnwindFindsStack
INVARIANT DumpComplete
PROPERTY VMScanRefinement
CHECK_DEADLOCK FALSE
