SPECIFICATION Spec
CONSTANTS
  Dialects <- AllDialects
  Unused <- MCUnused
  MaxNest = 5
  MaxKeywordLookback = 1
  MaxDepth = 4
INVARIANTS BlocksStayWhole StatementsApart
