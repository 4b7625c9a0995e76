SPECIFICATION FairSpec
CONSTANTS
  a = a
  b = b
  c = c
  Task <- MCThree
  MaxCancels = 2
INVARIANT ToldTheTruth
PROPERTIES NothingAfterExit EveryCallEnds
