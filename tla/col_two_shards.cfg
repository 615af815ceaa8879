SPECIFICATION FairSpec

CONSTANTS
  e1 = e1
  e2 = e2
  r1 = r1
  Events <- TwoEvents
  Rows <- OneRow
  ShardOf <- OneShard
  NumShards = 2
  Buffer = 1
  BatchSize = 2

INVARIANTS
  DrainedComplete
  HighMeansNoFullDrop
PROPERTIES
  NothingPersistedAfterStop
  EventuallyPersisted

CHECK_DEADLOCK FALSE
