SPECIFICATION Spec
CONSTANTS
  Script <- MCScript
  NoScript = none
  Operation = operation
  Statements <- MCStatements
  Pending <- MCPending
  ToUndo <- MCToUndo
  MaxOps = 4
INVARIANTS JournalTellsOutcome SummaryComplete SpansTellOutcome
CHECK_DEADLOCK FALSE
