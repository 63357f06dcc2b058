SPECIFICATION Spec
CONSTANTS
  Values = {0, 1, 2}
  Weights = {0, 1, 3}
  MaxLines = 3
  Maxima = {1, 2, 3}
  Totals = {1, 4, 5}
  Lowest = 0
  Highest = 3
  Start = 1
  Tol = 2
  Targets = {2, 3}
  Averages <- MCAverages
  InstCnts = {1, 2, 5, 10}
  Degrees = {10, 22}
  MaxFanins = 2
  MaxFanouts = 3
  Probs = {1, 3}
  InstanceCnts <- MCInstanceCnts
  CombPercents = {0, 50, 90, 100}
  PinCnts = {0, 1, 2, 4}
INVARIANTS
  TotalsSurvive
  ReadsInside
  SamplesAddUp
  TargetsClose
  AllPlaced
  PinsDelivered
PROPERTIES
  SearchEnds
CHECK_DEADLOCK FALSE
