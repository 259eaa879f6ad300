CONSTANTS
  Size = 2
  ChunkUnits = 2
  FifoCap = 1
SPECIFICATION FairSpec
INVARIANTS TypeOK OkMeansComplete
PROPERTIES CancelEnds NoHelperForever
CHECK_DEADLOCK FALSE
