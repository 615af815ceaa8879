SPECIFICATION Spec

CONSTANTS
  p1 = p1
  p2 = p2
  c1 = c1
  c2 = c2
  None = None
  Runs <- TwoRuns
  Cancels <- OneCancel
  MaxRestarts = 0

PROPERTIES
  TerminalStatusFinal

CHECK_DEADLOCK FALSE
