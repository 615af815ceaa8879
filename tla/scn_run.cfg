SPECIFICATION FairSpec

CONSTANTS
  None = None
  N = 2
  WarmupDelay = TRUE

INVARIANTS
  FinalLineExact
  DrainedSummaryComplete
  StartedIsStopped
PROPERTIES
  RunEnds

CHECK_DEADLOCK FALSE
