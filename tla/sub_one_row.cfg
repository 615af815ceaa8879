SPECIFICATION Spec

CONSTANTS
  d1 = d1
  d2 = d2
  a1 = a1
  None = None
  Disconnects <- MCDisconnects
  CoAs <- MCCoAs

INVARIANT
  OneRowPerSubscriber

CHECK_DEADLOCK FALSE
