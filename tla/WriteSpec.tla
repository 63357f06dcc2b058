----------------------------- MODULE WriteSpec -------------------------------
(***************************************************************************)
(* write_spec as a whole: ArtNetGen::writeSpec measures a placed design,   *)
(* and analyzeTopologicalOrder builds a graph of the same design and sorts *)
(* it.  Nodes are the instances and then the ports; a net has the ports    *)
(* design.nets[n].ports.                                                   *)
(***************************************************************************)
EXTENDS SpecWriter, TopoOrder

CONSTANTS
  Registers,  \* instances with a sequential master
  PortIn      \* ports of direction INPUT, the others being OUTPUT

Port == Node \ Inst

ASSUME PortAssumption ==
  /\ Inst \subseteq Node /\ Registers \subseteq Inst /\ PortIn \subseteq Port
  /\ \A d \in Designs : \A n \in DOMAIN d.nets : d.nets[n].ports \subseteq Port

\* Nodes that edges are drawn from: instances with a SIGNAL output term on the
\* net, and OUTPUT ports.
Drives(d, m, n) == m \in d.nets[n].outs \/ m \in d.nets[n].ports \ PortIn

\* Nodes edges are drawn to, once for each input term, and INPUT ports
Driven(d, n) ==
  FlattenSeq([j \in 1..numInsts |->
                [k \in 1..(d.nets[n].ins[j] + d.nets[n].ctl[j]) |-> j]])
    \o Ascending(d.nets[n].ports \cap PortIn)

\* The graph sorted; isSequential and isPrimaryIn make a start.
GraphOf(d) ==
  [sinks |-> [m \in Node |-> FlattenSeq([n \in DOMAIN d.nets |->
                IF Drives(d, m, n) THEN Driven(d, n) ELSE <<>>])],
   start |-> Registers \cup PortIn,
   held |-> {}]
-----------------------------------------------------------------------------
\* The graph depends on the design only, so it is there from the beginning.
Init == MeasureInit /\ OrderInit(GraphOf(design))

\* writeSpec calls analyzeTopologicalOrder behind its last loop.
Next ==
  \/ MeasureNext /\ UNCHANGED orderVars
  \/ phase = "sort" /\ OrderNext /\ UNCHANGED measureVars
  \/ pc = "done" /\ ReadSpec /\ UNCHANGED orderVars

vars == <<measureVars, orderVars>>
Spec == Init /\ [][Next]_vars
-----------------------------------------------------------------------------
\* test/nangate45/run_extract.tcl:3 "AVG_TOPO_ORDER: average topological order
\* of instances in reg2reg / in2reg / reg2out": a gate that an input port
\* drives comes behind the port.
InputsPrecedeGates ==
  pc = "done" =>
    \A n \in DOMAIN design.nets : \A g \in Inst \ Registers :
      design.nets[n].ports \cap PortIn # {} /\ design.nets[n].ins[g] > 0
        => topoOrder[g] # 0
=============================================================================
