SPECIFICATION FairSpec
CONSTANTS
  c1 = c1
  c2 = c2
  None = None
  Calls <- MCCalls
  RandomAuth <- MCRandomAuth
  Dests <- OneDest
  DestOf <- ToOneDest
  NumSockets = 1
  NumIDs = 1
  MaxRetries = 1
  MaxBackoffs = 1
  GCThreshold = 1
INVARIANTS
  IDOwnership
  ReplyIntegrity
  PushNeverDropped
  DuplicateIsSecond
  NoOrphanWaiter
PROPERTIES
  ImplementsContract
  EverySendReturns
CHECK_DEADLOCK FALSE
