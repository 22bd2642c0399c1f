CONSTANTS
  E1 = E1
  E2 = E2
  E3 = E3
  Entries = {E1, E2, E3}
  NoEntry = NoEntry
  Registries <- MCRegistries
  Overrun = {}
  Targets <- MCTargets
  MaxScan = 4

SPECIFICATION Spec
INVARIANT FoundNotDenied
CHECK_DEADLOCK FALSE
