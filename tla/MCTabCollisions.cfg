CONSTANTS
  S1 = S1
  S2 = S2
  Strs = {S1, S2}
  Tables <- MCTables

SPECIFICATION Spec

INVARIANT TypeOK
INVARIANT ScanAccounts
INVARIANT CollidingKeysReported
INVARIANT CountIsCollidingKeys
PROPERTY ReportRefinement

CHECK_DEADLOCK FALSE
