SPECIFICATION Spec
CONSTANTS
  Script <- MCScript
  TypeOf <- MCType
  VersionOf <- MCVersionOf
  Version = {1, 2}
  Order <- MCOrder
  NoVersion = 0
  Absent = 0
  Sum = {1, 2}
  Proc = {p1, p2}
  NoProc = none
  NoScript = "B"
  Commands = {"migrate", "mark", "undo", "undoTo", "repair", "baseline"}
  MayOverlap <- MCSafePairs
  Editable = {"V1", "R"}
  Targets = {1}
  BaselineAt = {1}
  MaxRank = 4
  MaxEdits = 2
  MaxFailures = 1
INVARIANTS TypeOK HistoryTruthful PendingTruthful RepairCoversValidation
PROPERTIES NeverDeployedTwice UndoTakesLatest
SYMMETRY MCSymmetry
CHECK_DEADLOCK FALSE
