SPECIFICATION Spec
CONSTANTS
  Inst = {1, 2, 3, 4}
  Cnt = 6
  Registers = {4}
  PortIn = {5}
  Designs <- MCDesigns
  MaxInSigCnt = 6
  FaninLimit = 3
  FanoutLimit = 2
INVARIANTS
  InputsPrecedeGates
CHECK_DEADLOCK FALSE
