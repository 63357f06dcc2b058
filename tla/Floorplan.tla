----------------------------- MODULE Floorplan ------------------------------
(***************************************************************************)
(* Netlist::initialize and Netlist::setPrimaryIO: the layout is grown bin  *)
(* row by bin column until it has enough bins, the nodes are dealt out to  *)
(* the bins in blocks, and the primary inputs and outputs are picked from  *)
(* the front row and the last column.  The result is what EdgeMatching     *)
(* takes as its constants.                                                 *)
(***************************************************************************)
EXTENDS Integers, Sequences, FiniteSets, Functions, SequencesExt, Common

CONSTANTS
  InstanceCnts,   \* instance counts a specification file may add up to
  CombPercents,   \* combinational ratios, in percent
  PinCnts         \* numbers of primary inputs and of primary outputs asked for

ASSUME SpecAssumption ==
  /\ InstanceCnts \subseteq Nat \ {0}
  /\ CombPercents \subseteq 0..100
  /\ PinCnts \subseteq Nat

VARIABLES
  instanceCnt, inputPinCnt, outputPinCnt,   \* parameters of the session
  initCellCnt,          \* number of nodes to create
  layoutDimX, layoutDimY,           \* layoutDimX_, layoutDimY_
  place,                \* index of a node |-> index of its bin
  type,                 \* index of a node |-> NodeType
  primIns, primOuts,    \* primIns_, primOuts_
  scan,                 \* the bin setPrimaryIO looks at next: x and y
  stage                 \* "unread", "layout", "inputs", "outputs", "done", "exit"

planParams == <<instanceCnt, inputPinCnt, outputPinCnt, initCellCnt>>
layout == <<layoutDimX, layoutDimY>>
planVars == <<planParams, layout, place, type, primIns, primOuts, scan, stage>>

totalBinCnt == CeilSqrt(instanceCnt)
binCnt == layoutDimX * layoutDimY

\* Mutant: the average is rounded down.
avgNodeCntDown == initCellCnt \div binCnt

\* Nodes per bin
avgNodeCnt == CeilDiv(initCellCnt, binCnt)

\* 0.80 * n - 0.2 * (1 - comb) * n cut to an int.  Where the exact value is an
\* integer the doubles may come out just below it.
InitCellCnts(n, comb) ==
  LET percent == 80 * n * 100 - 20 * (100 - comb) * n
  IN  {percent \div 10000}
        \cup IF percent % 10000 = 0 THEN {(percent \div 10000) - 1} ELSE {}

Node == 0..(initCellCnt - 1)
BinX(b) == b % layoutDimX
BinY(b) == b \div layoutDimX

\* fi2Nodes(0) and fo2Nodes(0) before matching: all nodes of the bin, in the
\* order they were added
NodesOf(x, y) ==
  Ascending({n \in DOMAIN place : place[n] = x + y * layoutDimX})

\* Mutant: a bin gives all its nodes.
TakenWhole(list, candidates, wanted) == candidates

\* Pushing stops after the push that reaches the requested number, so one node
\* is taken even if none is asked for.
Taken(list, candidates, wanted) ==
  IF Len(candidates) = 0 THEN <<>>
  ELSE IF wanted - Len(list) >= Len(candidates) THEN candidates
  ELSE SubSeq(candidates, 1, IF wanted > Len(list) THEN wanted - Len(list) ELSE 1)

\* setType of the nodes taken
Retype(nodes, t) == [n \in DOMAIN type |-> IF n \in Range(nodes) THEN t ELSE type[n]]
-----------------------------------------------------------------------------
EmptyPlan ==
  /\ layoutDimX = 1 /\ layoutDimY = 1
  /\ place = <<>> /\ type = <<>>
  /\ primIns = <<>> /\ primOuts = <<>>
  /\ scan = [x |-> 0, y |-> 0]

\* A file that has been read, whatever it adds up to
PlanInit ==
  /\ instanceCnt \in InstanceCnts
  /\ inputPinCnt \in PinCnts
  /\ outputPinCnt \in PinCnts
  /\ \E comb \in CombPercents : initCellCnt \in InitCellCnts(instanceCnt, comb)
  /\ initCellCnt >= 1           \* no node: the averages of the report divide by 0
  /\ EmptyPlan
  /\ stage = "layout"

\* No file has been read.
NoPlan ==
  /\ instanceCnt = 0 /\ inputPinCnt = 0 /\ outputPinCnt = 0 /\ initCellCnt = 0
  /\ EmptyPlan
  /\ stage = "unread"

\* One turn of the loop that grows the layout
GrowLayout ==
  /\ stage = "layout" /\ layoutDimX * layoutDimY < totalBinCnt
  /\ IF layoutDimX > layoutDimY
     THEN layoutDimY' = layoutDimY + 1 /\ layoutDimX' = layoutDimX
     ELSE layoutDimX' = layoutDimX + 1 /\ layoutDimY' = layoutDimY
  /\ UNCHANGED <<planParams, place, type, primIns, primOuts, scan, stage>>

\* Bin i gets the nodes from avgNodeCnt * i up to avgNodeCnt * (i + 1).
PlaceNodes ==
  /\ stage = "layout" /\ layoutDimX * layoutDimY >= totalBinCnt
  /\ place' = [n \in {m \in Node : m < avgNodeCnt * binCnt} |-> n \div avgNodeCnt]
  /\ type' = [n \in Node |-> "Combinational"]
  /\ stage' = "inputs"
  /\ UNCHANGED <<planParams, layout, primIns, primOuts, scan>>

\* One bin of the front row, from the left
ScanInputs ==
  /\ stage = "inputs"
  /\ LET taken == Taken(primIns, NodesOf(scan.x, scan.y), inputPinCnt)
         enough == taken # <<>> /\ Len(primIns) + Len(taken) >= inputPinCnt
     IN  /\ primIns' = primIns \o taken
         /\ type' = Retype(taken, "PrimaryIn")
         /\ IF enough
            THEN stage' = "outputs" /\ scan' = [x |-> layoutDimX - 1, y |-> layoutDimY - 1]
            ELSE /\ scan' = [scan EXCEPT !.x = @ + 1]
                 /\ stage' = IF scan.x + 1 >= layoutDimX THEN "exit" ELSE stage
  /\ UNCHANGED <<planParams, layout, place, primOuts>>

\* One bin of the last column, from the top
ScanOutputs ==
  /\ stage = "outputs"
  /\ LET taken == Taken(primOuts, NodesOf(scan.x, scan.y), outputPinCnt)
         enough == taken # <<>> /\ Len(primOuts) + Len(taken) >= outputPinCnt
     IN  /\ primOuts' = primOuts \o taken
         /\ type' = Retype(taken, "PrimaryOut")
         /\ IF enough
            THEN stage' = "done" /\ scan' = scan
            ELSE /\ scan' = [scan EXCEPT !.y = @ - 1]
                 /\ stage' = IF scan.y - 1 < 0 THEN "exit" ELSE stage
  /\ UNCHANGED <<planParams, layout, place, primIns>>

PlanNext == GrowLayout \/ PlaceNodes \/ ScanInputs \/ ScanOutputs
-----------------------------------------------------------------------------
\* Nodes reachable by a scan: the front row and the last column
FrontRow == {n \in Node : BinY(place[n]) = 0}
LastColumn == {n \in Node : BinX(place[n]) = layoutDimX - 1}
Wanted(cnt) == IF cnt = 0 THEN 1 ELSE cnt

\* Every node created is added to a bin of the layout: Node::x() of one that is
\* not would follow an unset bin_ pointer.
AllPlaced ==
  stage \notin {"unread", "layout"} =>
    /\ DOMAIN place = Node
    /\ \A n \in Node : place[n] \in 0..(binCnt - 1)

\* The generator stops only if the row or the column is really too short, and
\* otherwise delivers as many pins as asked for (one, if none was), each in one
\* list and of its type.  One exception: the bin at the end of the front row is
\* scanned for outputs as well, and a node both scans take stays in primIns_.
PinsDelivered ==
  /\ stage = "exit" => \/ Wanted(inputPinCnt) > Cardinality(FrontRow)
                       \/ Wanted(outputPinCnt) > Cardinality(LastColumn)
  /\ stage = "done" =>
       /\ Len(primIns) = Wanted(inputPinCnt) /\ IsInjective(primIns)
       /\ Len(primOuts) = Wanted(outputPinCnt) /\ IsInjective(primOuts)
       /\ \A n \in Node : type[n] = "PrimaryOut" <=> n \in Range(primOuts)
       /\ \A n \in Range(primIns) :
            \/ type[n] = "PrimaryIn"
            \/ type[n] = "PrimaryOut" /\ place[n] = layoutDimX - 1
=============================================================================
