SPECIFICATION Spec
CONSTANTS
  Nand = Nand
  Nor = Nor
  Inv = Inv
  Mux = Mux
  Dff = Dff
  Fill = Fill
  Sdff = Sdff
  Gone = Gone
  Library <- MCLibrary
  Ins <- MCIns
  HasOut <- MCHasOut
  HasClk <- MCHasClk
  HasScan <- MCHasScan
  Specs <- MCSpecs
  Names <- MCNames
  MaxCmds = 4
  MaxNodes = 7
INVARIANTS
  MappingServed
  RoomForAll
CHECK_DEADLOCK FALSE
