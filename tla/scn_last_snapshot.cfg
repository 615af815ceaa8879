SPECIFICATION Spec

CONSTANTS
  None = None
  N = 2
  WarmupDelay = TRUE

INVARIANT
  LastSnapshotIsDone

CHECK_DEADLOCK FALSE
