SPECIFICATION Spec
CONSTANTS
  c1 = c1
  c2 = c2
  None = None
  Calls <- MCCalls
  RandomAuth <- MCRandomAuth
  Dests <- TwoDests
  DestOf <- ToTwoDests
  NumSockets = 1
  NumIDs = 1
  MaxRetries = 1
  MaxBackoffs = 0
  GCThreshold = 1
INVARIANTS
  NoOrphanWaiter
CHECK_DEADLOCK FALSE
