SPECIFICATION FairSpec

CONSTANTS
  p1 = p1
  p2 = p2
  c1 = c1
  c2 = c2
  None = None
  Runs <- TwoRuns
  Cancels <- TwoCancels
  MaxRestarts = 1

INVARIANTS
  SingleTenant
  FinalStatusJustified
  CleanShutdown
  NoGhostRow
PROPERTIES
  CancelTakesEffect

CHECK_DEADLOCK FALSE
