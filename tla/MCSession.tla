------------------------------ MODULE MCSession ------------------------------
(***************************************************************************)
(* Seven masters, among them one without output and one with a scan input, *)
(* and six files: without a list, with lists that overlap, with a smaller  *)
(* range, with a single cell, with one the library does not have, and with *)
(* a cell listed twice.                                                    *)
(***************************************************************************)
EXTENDS Session, TLC

CONSTANTS Nand, Nor, Inv, Mux, Dff, Fill, Sdff, Gone

MCLibrary == <<Nand, Nor, Inv, Mux, Dff, Fill, Sdff>>
MCIns == Nand :> 2 @@ Nor :> 2 @@ Inv :> 1 @@ Mux :> 3 @@ Dff :> 1 @@ Fill :> 1 @@ Sdff :> 2
MCHasOut == [m \in Range(MCLibrary) |-> m # Fill]
MCHasClk == [m \in Range(MCLibrary) |-> m \in {Dff, Sdff}]
MCHasScan == [m \in Range(MCLibrary) |-> m = Sdff]

MCNames == Range(MCLibrary) \cup {Gone}

Listed(m, r) == [master |-> m, ratio |-> r]
MCSpecs == {
  [list |-> <<>>, maxFanin |-> 2],
  [list |-> <<Listed(Nand, 60), Listed(Fill, 10), Listed(Inv, 30)>>, maxFanin |-> 3],
  [list |-> <<Listed(Nor, 50), Listed(Sdff, 10), Listed(Nand, 20)>>, maxFanin |-> 2],
  [list |-> <<Listed(Mux, 40), Listed(Gone, 20)>>, maxFanin |-> 3],
  [list |-> <<Listed(Mux, 40)>>, maxFanin |-> 3],
  [list |-> <<Listed(Nand, 20), Listed(Dff, 50), Listed(Nand, 30)>>, maxFanin |-> 2]}
=============================================================================
