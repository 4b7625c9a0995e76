SPECIFICATION FairSpec
CONSTANTS
  Object = {o1, o2, o3}
  Dialects <- MCDialects
  KindsOf <- MCKindsOf
  MaxFailures = 1
  MaxCreations = 1
INVARIANTS SuccessMeansGone ChecksRestored
PROPERTIES Converges
