CONSTANTS
  MinPerBlock = 1
  MaxThreads = 4
  MaxCandidates = 4
  MaxDistance = 2
SPECIFICATION ScanSpec
INVARIANTS WithinParallelism
PROPERTIES QueriesReturn RefinesNearestObstacle
