SPECIFICATION Spec
CONSTANTS
  a = a
  b = b
  c = c
  d = d
  NoProc = NoProc
  Proc <- MCProc
  Granted <- MCMixtures
  MaxCrashes = 2
INVARIANTS NoOrphan
PROPERTIES MixedPromise
