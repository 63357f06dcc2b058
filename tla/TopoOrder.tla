----------------------------- MODULE TopoOrder -------------------------------
(***************************************************************************)
(* The topological sort of Netlist::topologicalSort, which steers the      *)
(* construction of timing paths, and of analyzeTopologicalOrder, which     *)
(* measures a placed design: nodes leave a queue and count down the        *)
(* drivers their loads still wait for.                                     *)
(***************************************************************************)
EXTENDS Integers, Sequences, FiniteSets, Functions, SequencesExt, Common

CONSTANTS
  Cnt       \* number of nodes

Node == 1..Cnt

ASSUME CntAssumption == Cnt \in Nat \ {0}

VARIABLES
  graph,       \* the netlist sorted: [sinks, start, held], the loads of each
               \*   node, a load as often as it is connected; the nodes paths
               \*   start at (registers, primary inputs); the nodes that are
               \*   never queued (clock, reset)
  inDegree,    \* drivers a node still waits for
  topoOrder,   \* order of a node, -1 before it is known
  queue,       \* Q
  n1, pos,     \* the node taken from the queue and the load looked at next
  pc           \* "start", "pop", "loads", "done"

orderVars == <<graph, inDegree, topoOrder, queue, n1, pos, pc>>

\* The netlists that are sorted: the loads of the nodes held back are registers.
IsGraph(g) ==
  /\ g.sinks \in [Node -> Seq(Node)]
  /\ \A m \in g.held : m \in Node => Range(g.sinks[m]) \subseteq g.start

\* A connection is an entry of the loads of a node; those to n make its fanin.
Connections(g) == UNION {{m} \X DOMAIN g.sinks[m] : m \in Node}
Into(g, n) == {e \in Connections(g) : g.sinks[e[1]][e[2]] = n}
NumFanins(g, n) == Cardinality(Into(g, n))

\* inDegree to begin with
Waits(g, n) == IF n \in g.start THEN 0 ELSE NumFanins(g, n)

\* Mutant: the newest node leaves first.
TakeNewest(q) == <<Last(q)>> \o Front(q)

\* Nodes leave the queue in the order they came.
TakeOldest(q) == q
-----------------------------------------------------------------------------
OrderInit(g) ==
  /\ graph = g
  /\ inDegree = <<>> /\ topoOrder = <<>> /\ queue = <<>>
  /\ n1 = 1 /\ pos = 0
  /\ pc = "start"

\* The loop over all nodes before the queue is worked off
Fill ==
  /\ pc = "start"
  /\ inDegree' = [n \in Node |-> Waits(graph, n)]
  /\ topoOrder' = [n \in Node |-> IF inDegree'[n] = 0 THEN 0 ELSE -1]
  /\ queue' = Ascending({n \in Node : inDegree'[n] = 0} \ graph.held)
  /\ pc' = "pop"
  /\ UNCHANGED <<graph, n1, pos>>

\* Front and pop of the queue
Pop ==
  /\ pc = "pop" /\ queue # <<>>
  /\ n1' = Head(TakeOldest(queue)) /\ queue' = Tail(TakeOldest(queue))
  /\ pos' = 1
  /\ pc' = "loads"
  /\ UNCHANGED <<graph, inDegree, topoOrder>>

\* Nodes that waited for nothing from the start are passed over.
MayCountDown(n2) == inDegree[n2] # 0

\* One turn of the loop over the loads of n1
VisitLoad ==
  /\ pc = "loads" /\ pos <= Len(graph.sinks[n1])
  /\ LET n2 == graph.sinks[n1][pos]
     IN  IF MayCountDown(n2)
         THEN /\ inDegree' = [inDegree EXCEPT ![n2] = @ - 1]
              /\ IF inDegree[n2] = 1
                 THEN /\ topoOrder' = [topoOrder EXCEPT ![n2] = topoOrder[n1] + 1]
                      /\ queue' = Append(queue, n2)
                 ELSE UNCHANGED <<topoOrder, queue>>
         ELSE UNCHANGED <<inDegree, topoOrder, queue>>
  /\ pos' = pos + 1
  /\ UNCHANGED <<graph, n1, pc>>

EndLoads ==
  /\ pc = "loads" /\ pos > Len(graph.sinks[n1])
  /\ pc' = "pop"
  /\ UNCHANGED <<graph, inDegree, topoOrder, queue, n1, pos>>

Finish ==
  /\ pc = "pop" /\ queue = <<>>
  /\ pc' = "done"
  /\ UNCHANGED <<graph, inDegree, topoOrder, queue, n1, pos>>

OrderNext == Fill \/ Pop \/ VisitLoad \/ EndLoads \/ Finish
-----------------------------------------------------------------------------
Start == {n \in Node : Waits(graph, n) = 0}
Drivers(n) == {m \in Node : n \in Range(graph.sinks[m])}

\* The result: a node is one deeper than its deepest driver, nodes on or
\* behind a loop of logic have no order, and paths start at 0.  For a netlist
\* without such loops that is the length of the longest path.
OrderExact ==
  pc = "done" =>
    \A n \in Node :
      IF n \in Start THEN topoOrder[n] = 0
      ELSE IF \E m \in Drivers(n) : topoOrder[m] = -1 THEN topoOrder[n] = -1
      ELSE /\ \A m \in Drivers(n) : topoOrder[m] < topoOrder[n]
           /\ \E m \in Drivers(n) : topoOrder[m] = topoOrder[n] - 1
=============================================================================
