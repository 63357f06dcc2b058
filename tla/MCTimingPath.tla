---------------------------- MODULE MCTimingPath ----------------------------
(***************************************************************************)
(* One primary input, some logic and one primary output on two bins.  The  *)
(* matched edges go from a lower node to a higher one, which is one of the *)
(* acyclic graphs matching can leave, up to the names of the nodes.        *)
(***************************************************************************)
EXTENDS TimingPath, TLC

CONSTANT Cnt        \* matched nodes: node 1 is the input, node Cnt the output

MCType == [n \in 1..Cnt |-> IF n = 1 THEN "PrimaryIn"
                            ELSE IF n = Cnt THEN "PrimaryOut"
                            ELSE "Combinational"]

\* Nodes stand in two bins, one after the other.
MCBin == [n \in 1..Cnt |-> IF n <= (Cnt + 1) \div 2 THEN 0 ELSE 1]

\* Edge sets without an undriven node and within the degrees asked for
MCEdges ==
  {E \in SUBSET {e \in (1..(Cnt - 1)) \X (2..Cnt) : e[1] < e[2]} :
     /\ \A n \in 2..Cnt :
          Cardinality({e \in E : e[2] = n}) \in 1..(IF n = Cnt THEN 1 ELSE MaxFanin)
     /\ \A n \in 1..(Cnt - 1) : Cardinality({e \in E : e[1] = n}) <= MaxFanout}
=============================================================================
