SPECIFICATION Spec
CONSTANTS
  Cnt = 6
  MatchedCnt = 6
  MaxNode = 12
  DimX = 2
  DimY = 1
  MatchedBin <- MCBin
  MatchedType <- MCType
  MatchedEdges <- MCEdges
  MaxFanin = 1
  MaxFanout = 4
  TopoOrder = 0
  CombRatio = 80
  SequFanins = {1}
INVARIANT
  DegreesInRange
CHECK_DEADLOCK FALSE
