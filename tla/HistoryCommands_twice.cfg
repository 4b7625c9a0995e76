SPECIFICATION Spec
CONSTANTS
  Script <- MCScript
  TypeOf <- MCType
  VersionOf <- MCVersionOf
  Version = {1, 2}
  Order <- MCOrder
  NoVersion = 0
  Absent = 0
  Sum = {1, 2}
  Proc = {p1}
  NoProc = none
  NoScript = "B"
  Commands = {"migrate", "undo", "undoTo"}
  MayOverlap <- MCSafePairs
  Editable = {"V1", "R"}
  Targets = {1}
  BaselineAt = {1}
  MaxRank = 5
  MaxEdits = 0
  MaxFailures = 0
PROPERTIES NoDoubleUndo
CHECK_DEADLOCK FALSE
