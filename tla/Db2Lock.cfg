SPECIFICATION FairSpec
CONSTANTS
  a = a
  b = b
  c = c
  NoRow = NoRow
  Proc <- MCProc
  StaleAge = 2
  MaxHold = 2
  MaxCrashes = 2
INVARIANT RowOfHolder
PROPERTIES LockPromise OrphanRowCleaned
