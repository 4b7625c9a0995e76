SPECIFICATION FairSpec
CONSTANTS
  a = a
  b = b
  v1 = v1
  v2 = v2
  r1 = r1
  NoProc = NoProc
  Proc <- MCTwo
  Script <- MCScripts
  Repeatable = {r1}
  Order <- MCOrder
  Stmts <- MCStmts
  RollsBack = {v1}
  Visible <- MCSame
  Strict = TRUE
  MaxFaults <- MCAllFaults
INVARIANTS TypeOK NoDuplicateSuccess AtomicMigration RowAfterStatements NoFailureAfterSuccess StrictOrder
PROPERTIES DeploymentPromise LockGivenBack EventuallySettled
