SPECIFICATION GainSpec
CONSTANTS
  Node <- MCNode
  X <- MCX
  Y <- MCY
  Addr <- MCAddr
  Type <- MCType
  MaxFanin = 2
  MaxFanout = 3
  DimX = 2
  DimY = 2
  FaninTarget <- MCFaninTarget
  FanoutTarget <- MCFanoutTarget
  BboxTarget <- MCBboxTarget
  EdgeTarget <- MCEdgeTarget
  TarEdgeCnt = 7
INVARIANTS
  Mirrored
  DegreesBounded
  Acyclic
  HistogramsExact
  CachesExact
PROPERTIES
  ImplementsMatching
  UnservedFirst
  UndrivenServed
CHECK_DEADLOCK FALSE
