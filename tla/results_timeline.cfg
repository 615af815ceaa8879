SPECIFICATION Spec

CONSTANTS
  Count = 3
  ShardCount = 2
  CurveBucketMs = 2
  Configs <- MCConfigs
  Draws <- MCDraws
  EndOfTime = 2
  MaxExtras = 1

INVARIANTS
  ScheduleSound
  ShardingInvisible
  TotalsMatch
  CurveMatches
  LatencyIsNearestRank
  HistogramSound

CHECK_DEADLOCK FALSE
