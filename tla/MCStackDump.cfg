CONSTANTS
  MaxSlot = 3
  FnR = FnR
  FnU = FnU
  StrR = StrR
  TabR = TabR
  Thr = Thr
  Objs = {FnR, FnU, StrR, TabR, Thr}
  Null = Null
  Heap <- MCHeap
  Code <- MCCode
  Images <- MCRunImages

SPECIFICATION Spec
INVARIANT TypeOK
INVARIANT PartialDumpSound
INVARIANT DumpComplete
PROPERTY PrintsDescend
PROPERTY ScanRefinement
CHECK_DEADLOCK FALSE
