------------------------------ MODULE Rewiring ------------------------------
(***************************************************************************)
(* What Netlist::timingPathConstruction_v1 promises of the graph while it  *)
(* turns nodes into registers, merges registers and splits registers off.  *)
(* The vectors of the code are the relation `edges' here, and which nodes  *)
(* are chosen is left open.  Module TimingPath has the vectors and the     *)
(* choice, and is shown to implement this specification.                   *)
(***************************************************************************)
EXTENDS Naturals

CONSTANTS
  Node,       \* every node that may ever be created
  Matched     \* the nodes distMatching leaves behind, some of Node

NodeType == {"PrimaryIn", "PrimaryOut", "Combinational", "Sequential"}

VARIABLES
  nodes,      \* the nodes created so far
  type,       \* NodeType of a node
  edges       \* <<m, n>>: n is in sinks_ of m and m in sources_ of n

vars == <<nodes, type, edges>>

Registers == {n \in nodes : type[n] = "Sequential"}

\* Primary inputs have no driver, primary outputs no load and one driver at most.
PinRules ==
  \A e \in edges :
    /\ type[e[1]] # "PrimaryOut"
    /\ type[e[2]] # "PrimaryIn"
    /\ type[e[2]] = "PrimaryOut" => \A d \in edges : d[2] = e[2] => d[1] = e[1]

\* Every loop of the netlist passes a register: of any nodes that are no
\* registers, one has no driver among them.
NoCombLoop ==
  \A S \in SUBSET (nodes \ Registers) :
    S # {} => \E n \in S : \A m \in S : <<m, n>> \notin edges

\* distMatching draws no loop at all and there are no registers yet.
Init ==
  /\ nodes = Matched
  /\ type \in [Node -> NodeType \ {"Sequential"}]
  /\ \A n \in Node \ Matched : type[n] = "Combinational"
  /\ edges \in SUBSET (Matched \X Matched)
  /\ PinRules
  /\ NoCombLoop

\* One pass of the marking loop: the nodes at the target order become registers.
Mark(S) ==
  /\ S # {}
  /\ S \subseteq {n \in nodes : type[n] = "Combinational"}
  /\ type' = [n \in Node |-> IF n \in S THEN "Sequential" ELSE type[n]]
  /\ UNCHANGED <<nodes, edges>>

\* The registers R give way to one register c, and become logic.
Replace(R, c) ==
  /\ R \subseteq Registers
  /\ c \in Node \ nodes
  /\ nodes' = nodes \cup {c}
  /\ type' = [n \in Node |-> IF n = c THEN "Sequential"
                             ELSE IF n \in R THEN "Combinational" ELSE type[n]]

\* createMergeNode(.., true): c takes over the drivers of R and drives R.
PutInFront(R, c) ==
  /\ Replace(R, c)
  /\ edges' = {e \in edges : e[2] \notin R}
                \cup ({m \in nodes : \E n \in R : <<m, n>> \in edges} \X {c})
                \cup ({c} \X R)

\* createMergeNode(.., false) and insertSequentialNode(.., false): c takes over
\* the loads of R and is driven by R.
PutBehind(R, c) ==
  /\ Replace(R, c)
  /\ edges' = {e \in edges : e[1] \notin R}
                \cup ({c} \X {n \in nodes : \E m \in R : <<m, n>> \in edges})
                \cup (R \X {c})

Next ==
  \/ \E S \in SUBSET {n \in nodes : type[n] = "Combinational"} : Mark(S)
  \/ \E R \in (SUBSET Registers) \ {{}}, c \in Node \ nodes :
       PutInFront(R, c) \/ PutBehind(R, c)

Spec == Init /\ [][Next]_vars
-----------------------------------------------------------------------------
TypeOK ==
  /\ nodes \subseteq Node
  /\ type \in [Node -> NodeType]
  /\ edges \subseteq nodes \X nodes
=============================================================================
