SPECIFICATION ShellSpec
CONSTANTS
  ff = ff
  buf = buf
  t1 = t1
  t2 = t2
  c1 = c1
  c2 = c2
  in = in
  out = out
  Inst = {ff, buf}
  MTerm = {"A", "Z"}
  OutTerm = {"Z"}
  Port = {in, out}
  InPort = {in}
  Net = {t1, t2, c1, c2}
  NoNet = NoNet
  CellName = {"BUF", "DFF"}
  Lef = {"lef1", "lef2"}
  Macros <- MCMacros
  Liberty = {"slow", "fast"}
  LibertyCells <- MCLibertyCells
  NoLib = NoLib
  Designs <- MCDesigns
  EditDesigns <- MCEditDesigns
  MaxBlocks = 2
  MaxEdits = 2
  MaxCopies = 2
INVARIANT MissingWarned
CHECK_DEADLOCK FALSE
