SPECIFICATION FairSpec
CONSTANTS
  a = a
  b = b
  c = c
  NoRow = NoRow
  Proc <- MCProc
  Pid <- MCPid
  StaleAge = 2
  MaxHold = 2
  MaxTries = 2
  MaxCrashes = 2
INVARIANTS RowOfHolder
PROPERTIES LockPromise OrphanRowCleaned
