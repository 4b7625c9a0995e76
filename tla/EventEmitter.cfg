SPECIFICATION Spec
CONSTANTS
  Listener = {a, b}
  MaxCalls = 7
  MaxDepth = 4
INVARIANTS NoEventLost BatchModeAsAsked RegisteredAreCalled
SYMMETRY MCSymmetry
CHECK_DEADLOCK FALSE
