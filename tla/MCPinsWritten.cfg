SPECIFICATION Spec
CONSTANTS
  Cnt = 6
  Type <- MCType
  Netlists <- MCNetlists
  Masters <- MCMasters
  Ins <- MCIns
  Outs <- MCOuts
  Clks <- MCClks
  Rsts <- MCRsts
  Share <- MCShare
INVARIANT PinsWritten
CHECK_DEADLOCK FALSE
