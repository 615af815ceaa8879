SPECIFICATION FairSpec

CONSTANTS
  MaxConns = 2
  MaxLines = 1
  ChanCap = 1

PROPERTY
  CompletionCloses

CHECK_DEADLOCK FALSE
