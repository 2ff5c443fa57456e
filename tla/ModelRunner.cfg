CONSTANTS
  w1 = w1
  w2 = w2
  w3 = w3
  Workers = {w1, w2, w3}
  MaxRuns = 2
  TpSize = 4
  Shapes <- SomeShapes
SPECIFICATION RunnerSpec
INVARIANTS FollowsRankZero MemoryOutlivesItsUse ShardsMakeTheModel
 
CHECK_DEADLOCK FALSE
