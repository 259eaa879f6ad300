CONSTANTS
  Size = 2
  ChunkUnits = 2
  PipeCap = 1
SPECIFICATION FairSpec
INVARIANTS TypeOK OkMeansComplete CancelledMeansStopped
PROPERTIES CancelEnds NoChildForever
CHECK_DEADLOCK FALSE
