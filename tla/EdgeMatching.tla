---------------------------- MODULE EdgeMatching ----------------------------
(***************************************************************************)
(* What Netlist::distMatching promises of the edges it draws, whatever     *)
(* pair its gains choose.  A round of distMatching picks one source and    *)
(* one sink and calls Netlist::connect; the conditions under which it may  *)
(* pick them are the loop bounds and the `continue's of getSinkBins and    *)
(* getMaxGain.  Module GainMatching has the choice itself and is shown to  *)
(* implement this specification.                                           *)
(*                                                                         *)
(* The nodes were created, placed into bins and typed before matching      *)
(* starts (module Floorplan), so place and type are constants here.        *)
(***************************************************************************)
EXTENDS Integers, Sequences, Functions

CONSTANTS
  Node,        \* Netlist::nodes_
  X, Y,        \* coordinates of the bin a node was added to
  Addr,        \* address of the node: same-bin edges follow pointer order
  Type,        \* NodeType of the node
  MaxFanin,    \* fiDist_.xMax()
  MaxFanout    \* foDist_.xMax()

ASSUME PlaceAssumption ==
  /\ X \in [Node -> Nat]
  /\ Y \in [Node -> Nat]
  /\ Addr \in [Node -> Nat]
  /\ \A m, n \in Node : Addr[m] = Addr[n] => m = n

ASSUME TypeAssumption ==
  Type \in [Node -> {"PrimaryIn", "PrimaryOut", "Combinational"}]

ASSUME DegreeAssumption == MaxFanin \in Nat \ {0} /\ MaxFanout \in Nat

VARIABLES
  sources,     \* Node::sources_, the drivers of a node in order of arrival
  sinks        \* Node::sinks_, the loads of a node in order of arrival

vars == <<sources, sinks>>

SameBin(u, v) == X[u] = X[v] /\ Y[u] = Y[v]

\* getSinkBins walks to the right and upwards only; inside one bin getMaxGain
\* asks for a sink at a higher address unless the sink is a primary output.
Ahead(u, v) ==
  /\ X[u] <= X[v]
  /\ Y[u] <= Y[v]
  /\ SameBin(u, v) => Type[v] = "PrimaryOut" \/ Addr[u] < Addr[v]

\* Node::hasConnection
HasConnection(u, v) == v \in Range(sinks[u])

\* The loop over fanouts stops before xMax; a primary output is no source.
SourceOpen(u) ==
  /\ Type[u] # "PrimaryOut"
  /\ Len(sinks[u]) < MaxFanout

\* A primary input takes no source, a primary output one at most.
SinkOpen(v) ==
  /\ Type[v] # "PrimaryIn"
  /\ Type[v] = "PrimaryOut" => Len(sources[v]) = 0
  /\ Len(sources[v]) < MaxFanin

Connectable(u, v) ==
  /\ SourceOpen(u)
  /\ SinkOpen(v)
  /\ Ahead(u, v)
  /\ ~ HasConnection(u, v)

\* Mutant: the load does not learn of its driver.
LinkOneWay(u, v) ==
  sinks' = [sinks EXCEPT ![u] = Append(@, v)] /\ UNCHANGED sources

\* Node::addSink and Node::addSource, as Netlist::connect calls them
Link(u, v) ==
  /\ sinks' = [sinks EXCEPT ![u] = Append(@, v)]
  /\ sources' = [sources EXCEPT ![v] = Append(@, u)]

Connect(u, v) ==
  /\ Connectable(u, v)
  /\ Link(u, v)

Init ==
  /\ sources = [n \in Node |-> <<>>]
  /\ sinks = [n \in Node |-> <<>>]

Next == \E u, v \in Node : Connect(u, v)

Spec == Init /\ [][Next]_vars
-----------------------------------------------------------------------------
TypeOK ==
  /\ sources \in [Node -> Seq(Node)]
  /\ sinks \in [Node -> Seq(Node)]

\* Each edge is stored twice, in sinks_ of the driver and in sources_ of the
\* load, and never repeated: technology mapping walks sinks_ to build the nets
\* and sources_ to hand out the input terms, and both must see one graph.
Mirrored ==
  /\ \A u, v \in Node : v \in Range(sinks[u]) <=> u \in Range(sources[v])
  /\ \A n \in Node : IsInjective(sinks[n]) /\ IsInjective(sources[n])

\* No fanin or fanout leaves the range the bins' lists and the distributions
\* are indexed by, a primary input has no driver, a primary output has at most
\* one driver and drives nothing (the checks of summaryDesign).
DegreesBounded ==
  \A n \in Node :
    /\ Len(sources[n]) <= MaxFanin
    /\ Len(sinks[n]) <= MaxFanout
    /\ Type[n] = "PrimaryIn" => sources[n] = <<>>
    /\ Type[n] = "PrimaryOut" => Len(sources[n]) <= 1 /\ sinks[n] = <<>>

\* Matching leaves no loop: every non-empty set of nodes has a member none of
\* whose drivers is in the set.  There is no sequential node yet, so a loop
\* would be a combinational one and topologicalSort would never reach it.
Acyclic ==
  \A S \in SUBSET Node :
    S # {} => \E n \in S : \A m \in S : m \notin Range(sources[n])
=============================================================================
