SPECIFICATION FairSpec

CONSTANTS
  MaxConns = 2
  MaxLines = 2
  ChanCap = 1

INVARIANTS
  StreamFaithful
PROPERTIES
  CompleteHasSummary
  StreamReleased
  StreamCatchesUp
  EndIsSeen

CHECK_DEADLOCK FALSE
