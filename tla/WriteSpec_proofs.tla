-------------------------- MODULE WriteSpec_proofs ---------------------------
(***************************************************************************)
(* Proofs about write_spec for every placed design: that the topological   *)
(* sort gives every node its depth, and that the histograms written count  *)
(* every instance and every connection.                                    *)
(*                                                                         *)
(* The sort.  The inductive invariant IInv says what the countdown stands  *)
(* for: a node waits for the connections not seen yet (Counted), those of  *)
(* the nodes that left the queue up to the load looked at.  That the last  *)
(* driver seen is the deepest (Deep) rests on the queue: it is ordered by  *)
(* depth and never holds more than two depths (Layered).                   *)
(*                                                                         *)
(* The measurement.  MeasureInv says what each histogram stands for while  *)
(* the loop runs (HistsExact): how many of the instances measured have a   *)
(* value, and as many edges as these have fanouts.  The rest is counting   *)
(* in two ways, over loads and over drivers (SidesBalance), and the size   *)
(* of a bin against the layout (ValuesHaveLines).                          *)
(***************************************************************************)
EXTENDS WriteSpec, Common_proofs

Held == Start \cap graph.held

\* The nodes that left the queue, and their connections looked at so far
Popped == {n \in Node : topoOrder[n] # -1 /\ n \notin Range(queue) /\ n \notin Held}
Seen ==
  {e \in Connections(graph) :
     e[1] \in Popped /\ (pc = "loads" /\ e[1] = n1 => e[2] < pos)}
Left(n) == Into(graph, n) \ Seen

TypeOK ==
  /\ inDegree \in [Node -> Nat]
  /\ topoOrder \in [Node -> Nat \cup {-1}]
  /\ queue \in Seq(Node) /\ IsInjective(queue)
  /\ \A q \in Range(queue) : topoOrder[q] # -1 /\ q \notin Held
  /\ pc = "loads" => n1 \in Popped /\ pos \in 1..(Len(graph.sinks[n1]) + 1)
  /\ pc = "done" => queue = <<>>

Counted ==
  \A n \in Node :
    /\ n \in Start => topoOrder[n] = 0 /\ inDegree[n] = 0
    /\ n \notin Start => inDegree[n] = Cardinality(Left(n))
    /\ topoOrder[n] = -1 <=> inDegree[n] # 0

Layered ==
  /\ \A i, j \in 1..Len(queue) :
       i <= j => /\ topoOrder[queue[i]] <= topoOrder[queue[j]]
                 /\ topoOrder[queue[j]] <= topoOrder[queue[i]] + 1
  /\ \A m \in Popped, q \in Range(queue) : topoOrder[m] <= topoOrder[q]
  /\ pc = "loads" =>
       /\ \A m \in Popped : topoOrder[m] <= topoOrder[n1]
       /\ \A q \in Range(queue) : topoOrder[q] <= topoOrder[n1] + 1

\* A node is one deeper than its deepest driver.
DeepAt(n) ==
  /\ \A m \in Drivers(n) : topoOrder[m] # -1 /\ topoOrder[m] < topoOrder[n]
  /\ \E m \in Drivers(n) : topoOrder[m] = topoOrder[n] - 1

Deep == \A n \in Node \ Start : topoOrder[n] # -1 => DeepAt(n)

IInv ==
  /\ IsGraph(graph)
  /\ pc \in {"start", "pop", "loads", "done"}
  /\ pc # "start" => TypeOK /\ Counted /\ Layered /\ Deep
-----------------------------------------------------------------------------
\* A netlist has finitely many connections.
LEMMA FiniteConnections ==
  ASSUME NEW g, IsGraph(g)
  PROVE  /\ Connections(g) \subseteq Node \X Nat
         /\ \A n : IsFiniteSet(Into(g, n))
         /\ \A n : NumFanins(g, n) \in Nat
         /\ \A m, n \in Node : n \in Range(g.sinks[m]) <=>
              \E e \in Into(g, n) : e[1] = m
<1> DEFINE Of == [m \in Node |-> {m} \X DOMAIN g.sinks[m]]
           T == {Of[m] : m \in Node}
<1>1. \A m \in Node : g.sinks[m] \in Seq(Node) /\ DOMAIN g.sinks[m] = 1..Len(g.sinks[m])
                      /\ Len(g.sinks[m]) \in Nat
  BY DEF IsGraph
<1>2. \A m \in Node : IsFiniteSet(Of[m])
  <2> SUFFICES ASSUME NEW m \in Node PROVE IsFiniteSet({m} \X DOMAIN g.sinks[m])
    OBVIOUS
  <2>1. IsFiniteSet({m})
    BY FS_Singleton
  <2>2. IsFiniteSet(DOMAIN g.sinks[m])
    BY <1>1, FS_Interval
  <2> QED
    BY <2>1, <2>2, FS_Product
<1>3. IsFiniteSet(Node)
  BY CntAssumption, FS_Interval DEF Node
<1>4. IsFiniteSet(T)
  <2>1. Of \in Surjection(Node, T)
    BY DEF Surjection
  <2> HIDE DEF Of, T
  <2> QED
    BY <1>3, <2>1, FS_Surjection
<1>5. Connections(g) = UNION T
  BY DEF Connections
<1>6. \A S \in T : IsFiniteSet(S)
  BY <1>2
<1>7. IsFiniteSet(Connections(g))
  <2> HIDE DEF T
  <2> QED
    BY <1>4, <1>5, <1>6, FS_UNION
<1>8. \A n : IsFiniteSet(Into(g, n))
  BY <1>7, FS_Subset DEF Into
<1>9. Connections(g) \subseteq Node \X Nat
  BY <1>1 DEF Connections
<1>10. \A n : NumFanins(g, n) \in Nat
  BY <1>8, FS_CardinalityType DEF NumFanins
<1>11. ASSUME NEW m \in Node, NEW n \in Node
       PROVE  n \in Range(g.sinks[m]) <=> \E e \in Into(g, n) : e[1] = m
  <2>1. ASSUME n \in Range(g.sinks[m]) PROVE \E e \in Into(g, n) : e[1] = m
    <3>1. PICK i \in DOMAIN g.sinks[m] : g.sinks[m][i] = n
      BY <2>1 DEF Range
    <3>2. <<m, i>> \in Into(g, n)
      BY <3>1 DEF Into, Connections
    <3> QED
      BY <3>2
  <2>2. ASSUME NEW e \in Into(g, n), e[1] = m PROVE n \in Range(g.sinks[m])
    BY <2>2 DEF Into, Connections, Range
  <2> QED
    BY <2>1, <2>2
<1> QED
  BY <1>8, <1>9, <1>10, <1>11

\* Nothing has been looked at when the queue is filled.
LEMMA FillInv ==
  ASSUME IInv, Fill
  PROVE  IInv'
<1>1. /\ IsGraph(graph) /\ graph' = graph /\ pc' = "pop"
      /\ inDegree' = [n \in Node |-> Waits(graph, n)]
      /\ topoOrder' = [n \in Node |-> IF inDegree'[n] = 0 THEN 0 ELSE -1]
      /\ queue' = Ascending({n \in Node : inDegree'[n] = 0} \ graph.held)
  BY DEF IInv, Fill
<1>2. Start' = Start /\ Held' = Held
  BY <1>1 DEF Start, Held
<1>3. \A n \in Node : /\ Waits(graph, n) \in Nat
                      /\ n \in Start <=> Waits(graph, n) = 0
                      /\ n \notin Start => Waits(graph, n) = Cardinality(Into(graph, n))
  BY <1>1, FiniteConnections DEF Waits, Start, NumFanins
<1>4. {n \in Node : inDegree'[n] = 0} = Start
  BY <1>1, <1>3 DEF Start
<1>5. /\ queue' \in Seq(Node) /\ IsInjective(queue') /\ Range(queue') = Start \ graph.held
  <2> DEFINE S == Start \ graph.held
  <2>1. S \in SUBSET Node /\ S \in SUBSET Nat
    BY CntAssumption DEF Start, Node
  <2>2. IsFiniteSet(S)
    <3>1. IsFiniteSet(Node)
      BY CntAssumption, FS_Interval DEF Node
    <3> QED
      BY <2>1, <3>1, FS_Subset
  <2>3. queue' = Ascending(S)
    BY <1>1, <1>4
  <2>4. queue' \in Seq(S) /\ IsInjective(queue') /\ Range(queue') = S
    BY <2>1, <2>2, <2>3, AscendingLists
  <2>5. queue' \in Seq(Node)
    BY <2>1, <2>4, SeqMonotonic
  <2> QED
    BY <2>4, <2>5
<1>6. \A n \in Node : topoOrder'[n] = IF n \in Start THEN 0 ELSE -1
  BY <1>1, <1>3
<1>7. Popped' = {} /\ Seen' = {}
  <2>1. Popped' = {}
    BY <1>2, <1>5, <1>6 DEF Popped, Held
  <2> QED
    BY <2>1 DEF Seen
<1>8. \A n : Left(n)' = Into(graph, n)
  BY <1>1, <1>7 DEF Left
<1>9. TypeOK'
  <2>1. inDegree' \in [Node -> Nat] /\ topoOrder' \in [Node -> Nat \cup {-1}]
    BY <1>1, <1>3
  <2>2. \A q \in Range(queue') : topoOrder'[q] # -1 /\ q \notin Held'
    BY <1>2, <1>5, <1>6 DEF Held, Start
  <2> QED
    BY <1>1, <1>5, <2>1, <2>2 DEF TypeOK
<1>10. Counted'
  BY <1>1, <1>2, <1>3, <1>6, <1>8 DEF Counted
<1>11. Layered'
  <2>1. \A i \in 1..Len(queue') : queue'[i] \in Start \ graph.held
    BY <1>5 DEF Range
  <2>2. \A i \in 1..Len(queue') : topoOrder'[queue'[i]] = 0
    BY <1>6, <2>1 DEF Start
  <2> QED
    BY <1>1, <1>7, <2>2 DEF Layered
<1>12. Deep'
  BY <1>2, <1>6 DEF Deep
<1> QED
  BY <1>1, <1>9, <1>10, <1>11, <1>12 DEF IInv

\* The node taken from the queue has its connections still to be seen.
LEMMA PopInv ==
  ASSUME IInv, Pop
  PROVE  IInv'
<1>1. /\ IsGraph(graph) /\ graph' = graph /\ pc = "pop" /\ pc' = "loads"
      /\ queue # <<>> /\ n1' = Head(queue) /\ queue' = Tail(queue) /\ pos' = 1
      /\ inDegree' = inDegree /\ topoOrder' = topoOrder
      /\ TypeOK /\ Counted /\ Layered /\ Deep
  BY DEF IInv, Pop, TakeOldest
<1>2. Start' = Start /\ Held' = Held
  BY <1>1 DEF Start, Held
<1>3. /\ queue \in Seq(Node) /\ IsInjective(queue)
      /\ Len(queue) \in Nat \ {0} /\ DOMAIN queue = 1..Len(queue)
  BY <1>1, EmptySeq DEF TypeOK
<1>4. /\ n1' = queue[1] /\ n1' \in Node
      /\ queue' \in Seq(Node) /\ Len(queue') = Len(queue) - 1
      /\ DOMAIN queue' = 1..(Len(queue) - 1)
      /\ \A i \in 1..(Len(queue) - 1) : queue'[i] = queue[i + 1]
  BY <1>1, <1>3, HeadTailProperties
<1>5. IsInjective(queue')
  BY <1>3, <1>4 DEF IsInjective
<1>6. Range(queue') = Range(queue) \ {n1'} /\ n1' \in Range(queue)
  <2>1. n1' \in Range(queue) /\ n1' \notin Range(queue')
    BY <1>3, <1>4, SMTT(30) DEF IsInjective, Range
  <2>2. Range(queue') \subseteq Range(queue)
    BY <1>3, <1>4, SMTT(30) DEF Range
  <2>3. ASSUME NEW x \in Range(queue), x # n1' PROVE x \in Range(queue')
    <3>1. PICK i \in 1..Len(queue) : queue[i] = x
      BY <1>3 DEF Range
    <3>2. i - 1 \in 1..(Len(queue) - 1) /\ queue'[i - 1] = x
      BY <1>3, <1>4, <2>3, <3>1
    <3> QED
      BY <1>4, <3>2 DEF Range
  <2> QED
    BY <2>1, <2>2, <2>3
<1>7. topoOrder[n1'] # -1 /\ n1' \notin Held
  BY <1>1, <1>6 DEF TypeOK
<1>8. Popped' = Popped \cup {n1'} /\ n1' \notin Popped
  BY <1>1, <1>2, <1>4, <1>6, <1>7 DEF Popped
<1>9. Seen' = Seen
  <2>1. \A e \in Connections(graph) : e[2] \in Nat \ {0}
    <3>1. \A m \in Node : DOMAIN graph.sinks[m] \subseteq Nat \ {0}
      BY <1>1 DEF IsGraph
    <3> QED
      BY <3>1 DEF Connections
  <2> QED
    BY <1>1, <1>8, <2>1 DEF Seen
<1>10. \A n : Left(n)' = Left(n)
  BY <1>1, <1>9 DEF Left
<1>11. TypeOK'
  <2>1. n1' \in Popped' /\ pos' \in 1..(Len(graph.sinks[n1']) + 1)
    BY <1>1, <1>4, <1>8 DEF IsGraph
  <2> QED
    BY <1>1, <1>2, <1>4, <1>5, <1>6, <2>1 DEF TypeOK
<1>12. Counted'
  BY <1>1, <1>2, <1>10 DEF Counted
<1>13. Layered'
  <2>1. \A i \in 1..Len(queue) : topoOrder[queue[i]] \in Nat \cup {-1}
    BY <1>1, <1>3 DEF TypeOK
  <2>2. \A i, j \in 1..Len(queue') :
          i <= j => /\ topoOrder[queue'[i]] <= topoOrder[queue'[j]]
                    /\ topoOrder[queue'[j]] <= topoOrder[queue'[i]] + 1
    BY <1>1, <1>3, <1>4 DEF Layered
  <2>3. \A q \in Range(queue) : topoOrder[n1'] <= topoOrder[q]
                                /\ topoOrder[q] <= topoOrder[n1'] + 1
    BY <1>1, <1>3, <1>4 DEF Layered, Range
  <2>4. \A m \in Popped' : topoOrder[m] <= topoOrder[n1']
    BY <1>1, <1>6, <1>8, <2>3 DEF Layered
  <2>5. \A m \in Popped', q \in Range(queue') : topoOrder[m] <= topoOrder[q]
    BY <1>1, <1>6, <1>8, <2>3 DEF Layered
  <2> QED
    BY <1>1, <1>6, <2>2, <2>3, <2>4, <2>5 DEF Layered
<1>14. Deep'
  BY <1>1, <1>2 DEF Deep, DeepAt, Drivers
<1> QED
  BY <1>1, <1>11, <1>12, <1>13, <1>14 DEF IInv

\* A connection looked at is no longer waited for; the last one makes its load
\* one deeper than the node it comes from, which is the deepest to have left.
LEMMA VisitLoadInv ==
  ASSUME IInv, VisitLoad
  PROVE  IInv'
<1> DEFINE e == <<n1, pos>>
<1>1. /\ IsGraph(graph) /\ graph' = graph /\ pc = "loads" /\ pc' = "loads"
      /\ n1' = n1 /\ pos' = pos + 1 /\ pos <= Len(graph.sinks[n1])
      /\ TypeOK /\ Counted /\ Layered /\ Deep
  BY DEF IInv, VisitLoad
<1>2. /\ Start' = Start /\ Held' = Held
      /\ \A n : Drivers(n)' = Drivers(n)
  BY <1>1 DEF Start, Held, Drivers
<1>3. /\ n1 \in Popped /\ n1 \in Node /\ pos \in 1..Len(graph.sinks[n1])
      /\ graph.sinks[n1] \in Seq(Node)
  <2>1. n1 \in Popped /\ n1 \in Node /\ pos \in 1..(Len(graph.sinks[n1]) + 1)
    BY <1>1 DEF TypeOK, Popped
  <2>2. graph.sinks[n1] \in Seq(Node)
    BY <1>1, <2>1 DEF IsGraph
  <2> QED
    BY <1>1, <2>1, <2>2
<1>. PICK n2 \in Node : n2 = graph.sinks[n1][pos]
  BY <1>3
<1>4. e \in Into(graph, n2) /\ e \notin Seen
  BY <1>1, <1>3 DEF Into, Connections, Seen
<1>5. \A n \in Node : n # n2 => e \notin Into(graph, n)
  BY DEF Into
<1>6. n1 \in Drivers(n2)
  BY <1>3 DEF Drivers, Range
<1>7. inDegree \in [Node -> Nat] /\ topoOrder \in [Node -> Nat \cup {-1}]
  BY <1>1 DEF TypeOK
<1> HIDE DEF e
\* What is seen then, if no node leaves the queue
<1>8. ASSUME Popped' = Popped
      PROVE  /\ Left(n2)' = Left(n2) \ {e} /\ e \in Left(n2)
             /\ \A n \in Node \ {n2} : Left(n)' = Left(n)
  <2>1. Seen' = Seen \cup {e}
    <3>1. \A d \in Connections(graph) : d = <<d[1], d[2]>> /\ d[2] \in Nat
      BY <1>1, FiniteConnections
    <3>2. \A d \in Connections(graph) : d \in Seen' <=> d \in Seen \/ d = e
      BY <1>1, <1>3, <1>8, <3>1 DEF Seen, e
    <3>3. e \in Connections(graph)
      BY <1>4 DEF Into
    <3> QED
      BY <1>1, <3>2, <3>3 DEF Seen
  <2> QED
    BY <1>1, <1>4, <1>5, <2>1 DEF Left
<1>9. CASE ~ MayCountDown(n2)
  <2>1. inDegree[n2] = 0 /\ inDegree' = inDegree /\ topoOrder' = topoOrder /\ queue' = queue
    BY <1>9 DEF MayCountDown, VisitLoad
  <2>2. Popped' = Popped
    BY <1>2, <2>1 DEF Popped
  <2>3. n2 \in Start
    <3> SUFFICES ASSUME n2 \notin Start PROVE FALSE
      OBVIOUS
    <3>1. Cardinality(Left(n2)) = 0
      BY <1>1, <1>3, <2>1 DEF Counted
    <3>2. IsFiniteSet(Left(n2))
      BY <1>1, FiniteConnections, FS_Subset DEF Left
    <3> QED
      BY <1>8, <2>2, <3>1, <3>2, FS_EmptySet
  <2>4. TypeOK'
    BY <1>1, <1>2, <1>3, <2>1, <2>2 DEF TypeOK
  <2>5. Counted'
    BY <1>1, <1>2, <1>8, <2>1, <2>2, <2>3 DEF Counted
  <2>6. Layered'
    BY <1>1, <2>1, <2>2 DEF Layered
  <2>7. Deep'
    BY <1>1, <1>2, <2>1 DEF Deep, DeepAt
  <2> QED
    BY <1>1, <2>4, <2>5, <2>6, <2>7 DEF IInv
<1>10. CASE MayCountDown(n2)
  <2>1. /\ inDegree[n2] # 0 /\ inDegree' = [inDegree EXCEPT ![n2] = @ - 1]
        /\ IF inDegree[n2] = 1
           THEN /\ topoOrder' = [topoOrder EXCEPT ![n2] = topoOrder[n1] + 1]
                /\ queue' = Append(queue, n2)
           ELSE topoOrder' = topoOrder /\ queue' = queue
    BY <1>10 DEF MayCountDown, VisitLoad
  <2>2. n2 \notin Start /\ topoOrder[n2] = -1 /\ n2 \notin Range(queue) /\ n2 \notin Popped
    BY <1>1, <1>3, <2>1 DEF Counted, TypeOK, Popped
  <2>3. topoOrder[n1] \in Nat /\ n1 # n2
    BY <1>3, <1>7, <2>2 DEF Popped
  <2>4. /\ inDegree' \in [Node -> Nat] /\ inDegree'[n2] = inDegree[n2] - 1
        /\ \A n \in Node \ {n2} : inDegree'[n] = inDegree[n]
    BY <1>3, <1>7, <2>1
  <2>5. ASSUME Popped' = Popped
        PROVE  /\ inDegree'[n2] = Cardinality(Left(n2)')
               /\ \A n \in Node \ Start : inDegree'[n] = Cardinality(Left(n)')
    <3>1. IsFiniteSet(Left(n2))
      BY <1>1, FiniteConnections, FS_Subset DEF Left
    <3>2. Cardinality(Left(n2) \ {e}) = Cardinality(Left(n2)) - 1
      BY <1>8, <2>5, <3>1, FS_RemoveElement
    <3>3. inDegree[n2] = Cardinality(Left(n2))
      BY <1>1, <1>3, <2>2 DEF Counted
    <3>4. inDegree'[n2] = Cardinality(Left(n2)')
      BY <1>8, <2>4, <2>5, <3>2, <3>3
    <3>5. ASSUME NEW n \in Node \ Start, n # n2
          PROVE  inDegree'[n] = Cardinality(Left(n)')
      BY <1>1, <1>8, <2>4, <2>5, <3>5 DEF Counted
    <3> QED
      BY <3>4, <3>5
  <2>6. CASE inDegree[n2] # 1
    <3>1. topoOrder' = topoOrder /\ queue' = queue
      BY <2>1, <2>6
    <3>2. Popped' = Popped
      BY <1>2, <3>1 DEF Popped
    <3>3. inDegree'[n2] # 0
      BY <1>3, <1>7, <2>4, <2>6
    <3>4. TypeOK'
      BY <1>1, <1>2, <1>3, <2>4, <3>1, <3>2, SMTT(30) DEF TypeOK
    <3>5. Counted'
      <4>1. ASSUME NEW n \in Node
            PROVE  topoOrder'[n] = -1 <=> inDegree'[n] # 0
        BY <1>1, <1>3, <2>2, <2>4, <3>1, <3>3 DEF Counted
      <4>2. ASSUME NEW n \in Start PROVE topoOrder'[n] = 0 /\ inDegree'[n] = 0
        BY <1>1, <2>2, <2>4, <3>1, <4>2 DEF Counted, Start
      <4> QED
        BY <1>2, <2>5, <3>2, <4>1, <4>2 DEF Counted
    <3>6. Layered'
      BY <1>1, <3>1, <3>2 DEF Layered
    <3>7. Deep'
      BY <1>1, <1>2, <3>1 DEF Deep, DeepAt
    <3> QED
      BY <1>1, <3>4, <3>5, <3>6, <3>7 DEF IInv
  <2>7. CASE inDegree[n2] = 1
    <3>1. /\ topoOrder' = [topoOrder EXCEPT ![n2] = topoOrder[n1] + 1]
          /\ queue' = Append(queue, n2)
      BY <2>1, <2>7
    <3>2. /\ topoOrder' \in [Node -> Nat \cup {-1}] /\ topoOrder'[n2] = topoOrder[n1] + 1
          /\ topoOrder'[n2] # -1
          /\ \A n \in Node \ {n2} : topoOrder'[n] = topoOrder[n]
      <4> DEFINE k == topoOrder[n1] + 1
      <4>1. k \in Nat /\ k \in Nat \cup {-1} /\ k # -1
        BY <2>3
      <4> HIDE DEF k
      <4>2. topoOrder' = [topoOrder EXCEPT ![n2] = k]
        BY <3>1 DEF k
      <4>3. /\ topoOrder' \in [Node -> Nat \cup {-1}] /\ topoOrder'[n2] = k
            /\ \A n \in Node \ {n2} : topoOrder'[n] = topoOrder[n]
        BY <1>3, <1>7, <4>1, <4>2
      <4> QED
        BY <4>1, <4>3 DEF k
    <3>3. /\ queue \in Seq(Node) /\ IsInjective(queue)
          /\ queue' \in Seq(Node) /\ IsInjective(queue')
          /\ Range(queue') = Range(queue) \cup {n2}
          /\ Len(queue) \in Nat /\ Len(queue') = Len(queue) + 1
          /\ queue'[Len(queue) + 1] = n2
          /\ \A i \in 1..Len(queue) : queue'[i] = queue[i] /\ queue[i] \in Range(queue)
      <4>1. queue \in Seq(Node) /\ IsInjective(queue)
        BY <1>1 DEF TypeOK
      <4>2. \A i \in 1..Len(queue) : queue[i] \in Range(queue)
        BY <4>1 DEF Range
      <4> QED
        BY <1>3, <2>2, <3>1, <4>1, <4>2, AppendNew
    <3>4. Popped' = Popped
      BY <1>2, <2>2, <3>2, <3>3 DEF Popped
    <3>5. TypeOK'
      <4>1. \A q \in Range(queue') : topoOrder'[q] # -1 /\ q \notin Held'
        <5>1. n2 \notin Held
          BY <2>2 DEF Held
        <5>2. Range(queue) \subseteq Node
          BY <3>3, RangeOfSeq
        <5> QED
          BY <1>1, <1>2, <2>2, <3>2, <3>3, <5>1, <5>2, SMTT(30) DEF TypeOK
      <4> QED
        <5>1. n1' \in Popped' /\ pos' \in 1..(Len(graph.sinks[n1']) + 1)
          BY <1>1, <1>3, <3>4
        <5> QED
          BY <1>1, <2>4, <3>2, <3>3, <4>1, <5>1 DEF TypeOK
    <3>6. Counted'
      <4>1. ASSUME NEW n \in Node
            PROVE  topoOrder'[n] = -1 <=> inDegree'[n] # 0
        <5>1. CASE n = n2
          BY <2>4, <2>7, <3>2, <5>1
        <5>2. CASE n # n2
          BY <1>1, <2>4, <3>2, <5>2 DEF Counted
        <5> QED
          BY <5>1, <5>2
      <4>2. ASSUME NEW n \in Start PROVE topoOrder'[n] = 0 /\ inDegree'[n] = 0
        BY <1>1, <2>2, <2>4, <3>2, <4>2 DEF Counted, Start
      <4> QED
        BY <1>2, <2>5, <3>4, <4>1, <4>2 DEF Counted
    <3>7. Layered'
      <4>1. \A q \in Range(queue) : /\ topoOrder'[q] = topoOrder[q] /\ topoOrder[q] \in Nat \cup {-1}
                                    /\ topoOrder[n1] <= topoOrder[q]
                                    /\ topoOrder[q] <= topoOrder[n1] + 1
        <5>1. Range(queue) \subseteq Node
          BY <3>3, RangeOfSeq
        <5> QED
          BY <1>1, <1>3, <1>7, <2>2, <3>2, <5>1 DEF Layered
      <4>2. \A m \in Popped : topoOrder'[m] = topoOrder[m] /\ topoOrder[m] <= topoOrder[n1]
                              /\ topoOrder[m] \in Nat \cup {-1}
        BY <1>1, <1>7, <2>2, <3>2 DEF Layered, Popped
      <4>3. topoOrder'[n1] = topoOrder[n1]
        BY <1>3, <2>3, <3>2
      <4>4. ASSUME NEW i \in 1..Len(queue'), NEW j \in 1..Len(queue'), i <= j
            PROVE  /\ topoOrder'[queue'[i]] <= topoOrder'[queue'[j]]
                   /\ topoOrder'[queue'[j]] <= topoOrder'[queue'[i]] + 1
        <5>1. CASE j \in 1..Len(queue)
          <6>1. i \in 1..Len(queue)
            BY <4>4, <5>1, <3>3
          <6>2. /\ topoOrder[queue[i]] <= topoOrder[queue[j]]
                /\ topoOrder[queue[j]] <= topoOrder[queue[i]] + 1
            BY <1>1, <4>4, <5>1, <6>1 DEF Layered
          <6> QED
            BY <3>3, <4>1, <5>1, <6>1, <6>2
        <5>2. CASE j = Len(queue) + 1 /\ i \in 1..Len(queue)
          BY <2>3, <3>2, <3>3, <4>1, <5>2, SMTT(30)
        <5>3. CASE i = Len(queue) + 1 /\ j = Len(queue) + 1
          BY <2>3, <3>2, <3>3, <5>3
        <5> QED
          BY <3>3, <4>4, <5>1, <5>2, <5>3
      <4>5. \A m \in Popped', q \in Range(queue') : topoOrder'[m] <= topoOrder'[q]
        <5>1. \A m \in Popped : topoOrder[m] <= topoOrder[n1] + 1
          BY <2>3, <4>2
        <5>2. \A m \in Popped, q \in Range(queue) : topoOrder[m] <= topoOrder[q]
          BY <1>1 DEF Layered
        <5> QED
          BY <3>2, <3>3, <3>4, <4>1, <4>2, <5>1, <5>2
      <4>6. \A m \in Popped' : topoOrder'[m] <= topoOrder'[n1]
        BY <3>4, <4>2, <4>3
      <4>7. \A q \in Range(queue') : topoOrder'[q] <= topoOrder'[n1] + 1
        BY <2>3, <3>2, <3>3, <4>1, <4>3
      <4> QED
        BY <1>1, <4>4, <4>5, <4>6, <4>7 DEF Layered
    <3>8. Deep'
      <4>1. ASSUME NEW n \in Node \ Start, topoOrder'[n] # -1, n # n2
            PROVE  DeepAt(n)'
        <5>1. DeepAt(n)
          BY <1>1, <3>2, <4>1 DEF Deep
        <5>2. \A m \in Drivers(n) : topoOrder'[m] = topoOrder[m]
          BY <2>2, <3>2, <5>1 DEF DeepAt, Drivers
        <5> QED
          BY <1>2, <3>2, <4>1, <5>1, <5>2 DEF DeepAt
      <4>2. DeepAt(n2)'
        <5>1. Left(n2)' = {}
          <6>1. IsFiniteSet(Left(n2)')
            BY <1>1, <1>8, <3>4, FiniteConnections, FS_Subset DEF Left
          <6>2. Cardinality(Left(n2)') = 0
            BY <2>4, <2>5, <2>7, <3>4
          <6> QED
            BY <6>1, <6>2, FS_EmptySet
        <5>2. Drivers(n2) \subseteq Popped
          <6>1. SUFFICES ASSUME NEW m \in Drivers(n2) PROVE m \in Popped
            OBVIOUS
          <6>2. PICK d \in Into(graph, n2) : d[1] = m
            BY <1>1, <1>3, FiniteConnections DEF Drivers
          <6>3. d \in Seen'
            BY <1>1, <5>1 DEF Left
          <6> QED
            BY <3>4, <6>2, <6>3 DEF Seen
        <5>3. \A m \in Popped : /\ topoOrder'[m] = topoOrder[m]
                                /\ topoOrder[m] # -1 /\ topoOrder[m] \in Nat \cup {-1}
                                /\ topoOrder[m] <= topoOrder[n1]
          BY <1>1, <1>7, <2>2, <3>2 DEF Popped, Layered
        <5> QED
          <6>1. \A m \in Drivers(n2) : topoOrder'[m] # -1 /\ topoOrder'[m] < topoOrder'[n2]
            BY <2>3, <3>2, <5>2, <5>3
          <6>2. topoOrder'[n1] = topoOrder'[n2] - 1
            BY <1>3, <2>3, <3>2
          <6> QED
            BY <1>2, <1>6, <6>1, <6>2 DEF DeepAt
      <4> QED
        BY <1>2, <4>1, <4>2 DEF Deep
    <3> QED
      BY <1>1, <3>5, <3>6, <3>7, <3>8 DEF IInv
  <2> QED
    BY <2>6, <2>7
<1> QED
  BY <1>9, <1>10

\* The last load has been looked at.
LEMMA EndLoadsInv ==
  ASSUME IInv, EndLoads
  PROVE  IInv'
<1>1. /\ IsGraph(graph) /\ graph' = graph /\ pc = "loads" /\ pc' = "pop"
      /\ n1' = n1 /\ pos' = pos /\ pos > Len(graph.sinks[n1])
      /\ inDegree' = inDegree /\ topoOrder' = topoOrder /\ queue' = queue
      /\ TypeOK /\ Counted /\ Layered /\ Deep
  BY DEF IInv, EndLoads
<1>2. /\ Start' = Start /\ Held' = Held
      /\ \A n : Drivers(n)' = Drivers(n)
  BY <1>1 DEF Start, Held, Drivers
<1>3. Popped' = Popped
  BY <1>1, <1>2 DEF Popped
<1>4. Seen' = Seen
  <2>1. \A e \in Connections(graph) : e[1] = n1 => e[2] < pos
    <3>1. \A m \in Node : DOMAIN graph.sinks[m] = 1..Len(graph.sinks[m])
                          /\ Len(graph.sinks[m]) \in Nat
      BY <1>1 DEF IsGraph
    <3>2. n1 \in Node /\ pos \in Nat
      BY <1>1 DEF TypeOK, Popped
    <3> QED
      BY <1>1, <3>1, <3>2 DEF Connections
  <2> QED
    BY <1>1, <1>3, <2>1 DEF Seen
<1>5. \A n : Left(n)' = Left(n)
  BY <1>1, <1>4 DEF Left
<1>6. TypeOK' /\ Counted' /\ Layered' /\ Deep'
  BY <1>1, <1>2, <1>3, <1>5 DEF TypeOK, Counted, Layered, Deep, DeepAt
<1> QED
  BY <1>1, <1>6 DEF IInv

\* Nothing changes any more, or nothing but that the sort has ended.
LEMMA StillInv ==
  ASSUME IInv, Finish \/ UNCHANGED orderVars
  PROVE  IInv'
<1>1. /\ graph' = graph /\ inDegree' = inDegree /\ topoOrder' = topoOrder
      /\ queue' = queue /\ n1' = n1 /\ pos' = pos
      /\ pc' = pc \/ (pc = "pop" /\ pc' = "done" /\ queue = <<>>)
  BY DEF Finish, orderVars
<1>2. /\ Start' = Start /\ Held' = Held
      /\ \A n : Drivers(n)' = Drivers(n)
  BY <1>1 DEF Start, Held, Drivers
<1>3. Popped' = Popped
  BY <1>1, <1>2 DEF Popped
<1>4. \A n : Left(n)' = Left(n)
  BY <1>1, <1>3 DEF Left, Seen
<1>5. ASSUME TypeOK, Counted, Layered, Deep
      PROVE  TypeOK' /\ Counted' /\ Layered' /\ Deep'
  BY <1>1, <1>2, <1>3, <1>4, <1>5 DEF TypeOK, Counted, Layered, Deep, DeepAt
<1> QED
  BY <1>1, <1>5 DEF IInv

\* The sort begins with nothing but the netlist.
LEMMA OrderInitInv ==
  ASSUME NEW g, IsGraph(g)
  PROVE  OrderInit(g) => IInv
BY DEF OrderInit, IInv

\* Every step keeps the invariant.
LEMMA OrderNextInv == IInv /\ [OrderNext]_orderVars => IInv'
BY FillInv, PopInv, VisitLoadInv, EndLoadsInv, StillInv DEF OrderNext

\* When the queue is empty a node without depth waits for one without depth.
LEMMA InvOrderExact == IInv => OrderExact
<1> SUFFICES ASSUME IInv, pc = "done", NEW n \in Node
             PROVE  IF n \in Start THEN topoOrder[n] = 0
                    ELSE IF \E m \in Drivers(n) : topoOrder[m] = -1 THEN topoOrder[n] = -1
                    ELSE DeepAt(n)
  BY DEF OrderExact, DeepAt
<1>1. IsGraph(graph) /\ TypeOK /\ Counted /\ Deep
  BY DEF IInv
<1>2. Range(queue) = {}
  BY <1>1 DEF TypeOK, Range
<1>3. IsFiniteSet(Left(n))
  BY <1>1, FiniteConnections, FS_Subset DEF Left
<1>4. CASE n \in Start
  BY <1>1, <1>4 DEF Counted
<1>5. CASE n \notin Start /\ \E m \in Drivers(n) : topoOrder[m] = -1
  <2>1. PICK m \in Drivers(n) : topoOrder[m] = -1
    BY <1>5
  <2>2. PICK e \in Into(graph, n) : e[1] = m
    BY <1>1, FiniteConnections DEF Drivers
  <2>3. e \in Left(n)
    BY <2>1, <2>2 DEF Left, Seen, Popped
  <2>4. inDegree[n] # 0
    BY <1>1, <1>3, <1>5, <2>3, FS_EmptySet DEF Counted
  <2> QED
    BY <1>1, <1>5, <2>4 DEF Counted
<1>6. CASE n \notin Start /\ \A m \in Drivers(n) : topoOrder[m] # -1
  <2>1. Left(n) = {}
    <3> SUFFICES ASSUME NEW e \in Left(n) PROVE FALSE
      OBVIOUS
    <3>1. e \in Into(graph, n) /\ e \in Connections(graph) /\ e \notin Seen
      BY DEF Left, Into
    <3>2. e[1] \in Node /\ n \in Range(graph.sinks[e[1]])
      BY <1>1, <3>1, FiniteConnections
    <3>3. topoOrder[e[1]] # -1
      BY <1>6, <3>2 DEF Drivers
    <3>4. e[1] \in Held
      BY <1>2, <3>1, <3>2, <3>3 DEF Seen, Popped
    <3>5. n \in graph.start
      BY <1>1, <3>2, <3>4 DEF Held, IsGraph
    <3> QED
      BY <1>6, <3>5 DEF Start, Waits
  <2>2. topoOrder[n] # -1
    BY <1>1, <1>6, <2>1, FS_EmptySet DEF Counted
  <2> QED
    BY <1>1, <1>6, <2>2 DEF Deep
<1> QED
  BY <1>4, <1>5, <1>6

\* Whatever netlist is sorted, and in whatever order its nodes are numbered, the
\* sort ends with the depth of every node, and finds out the nodes on or behind
\* a loop of logic.
THEOREM SortGivesDepths ==
  ASSUME NEW g, IsGraph(g)
  PROVE  OrderInit(g) /\ [][OrderNext]_orderVars => []OrderExact
<1>1. OrderInit(g) => IInv
  BY OrderInitInv
<1> QED
  BY <1>1, OrderNextInv, InvOrderExact, PTL
-----------------------------------------------------------------------------
\* The instances are numbered, and there is one.
LEMMA InstancesCounted ==
  numInsts \in Nat \ {0} /\ Inst = 1..numInsts /\ IsFiniteSet(Inst)
<1>1. Inst = 1..Cardinality(Inst) /\ Inst # {}
  BY DesignAssumption
<1>2. Cardinality(Inst) \in Nat
  BY FS_CardinalityType, DesignAssumption
<1> QED
  BY <1>1, <1>2, FS_Interval DEF numInsts
-----------------------------------------------------------------------------
\* The lists the graph is put together from are lists of nodes.
LEMMA DrivenAreNodes ==
  ASSUME NEW d \in Designs, NEW n \in DOMAIN d.nets
  PROVE  Driven(d, n) \in Seq(Node)
<1> DEFINE len == [j \in 1..numInsts |-> d.nets[n].ins[j] + d.nets[n].ctl[j]]
           ss == [j \in 1..numInsts |-> [k \in 1..len[j] |-> j]]
           ports == d.nets[n].ports \cap PortIn
<1>1. numInsts \in Nat \ {0} /\ Inst = 1..numInsts /\ Inst \subseteq Node
  BY InstancesCounted, PortAssumption
<1>2. \A j \in 1..numInsts : len[j] \in Nat
  <2>1. \A j \in Inst : d.nets[n].ins[j] \in Nat /\ d.nets[n].ctl[j] \in Nat
    BY DesignAssumption
  <2> QED
    BY <1>1, <2>1
<1>3. ss \in [1..numInsts -> Seq(Node)]
  <2> SUFFICES ASSUME NEW j \in 1..numInsts PROVE [k \in 1..len[j] |-> j] \in Seq(Node)
    OBVIOUS
  <2> DEFINE m == len[j]
  <2>1. m \in Nat /\ j \in Node
    BY <1>1, <1>2
  <2> HIDE DEF m
  <2>2. [k \in 1..m |-> j] \in [1..m -> Node]
    BY <2>1
  <2>3. [k \in 1..m |-> j] \in Seq(Node)
    BY <2>1, <2>2, SeqOfFunction
  <2> QED
    BY <2>3 DEF m
<1>4. FlattenSeq(ss) \in Seq(Node)
  <2> DEFINE size == [j \in 1..numInsts |-> Len(ss[j])]
  <2>1. \A j \in 1..numInsts : size[j] = Len(ss[j])
    OBVIOUS
  <2> HIDE DEF ss, size
  <2> QED
    BY <1>1, <1>3, <2>1, FlattenLength
<1>5. Ascending(ports) \in Seq(Node)
  <2>1. ports \in SUBSET Node /\ Node \in SUBSET Nat /\ IsFiniteSet(Node)
    BY CntAssumption, PortAssumption, FS_Interval DEF Node, Port
  <2>2. IsFiniteSet(ports) /\ ports \in SUBSET Nat
    BY <2>1, FS_Subset
  <2>3. Ascending(ports) \in Seq(ports)
    BY <2>2, AscendingLists
  <2> HIDE DEF ports
  <2> QED
    BY <2>1, <2>3, VectorOfMore
<1>6. Driven(d, n) = FlattenSeq(ss) \o Ascending(ports)
  BY DEF Driven
<1> HIDE DEF ss, ports
<1> QED
  BY <1>4, <1>5, <1>6

\* What is sorted is a netlist.
LEMMA GraphOfDesign ==
  ASSUME NEW d \in Designs
  PROVE  IsGraph(GraphOf(d))
<1> DEFINE Sinks(m) == [n \in DOMAIN d.nets |-> IF Drives(d, m, n) THEN Driven(d, n) ELSE <<>>]
<1>1. Len(d.nets) \in Nat /\ DOMAIN d.nets = 1..Len(d.nets)
  BY DesignAssumption
<1>2. ASSUME NEW m \in Node PROVE FlattenSeq(Sinks(m)) \in Seq(Node)
  <2> DEFINE ss == Sinks(m)
             size == [n \in DOMAIN d.nets |-> Len(ss[n])]
  <2>1. ss \in [DOMAIN d.nets -> Seq(Node)]
    <3>1. <<>> \in Seq(Node)
      OBVIOUS
    <3> QED
      BY <3>1, DrivenAreNodes
  <2>2. PICK len \in Nat : len = Len(d.nets) /\ DOMAIN d.nets = 1..len
    BY <1>1
  <2>3. \A n \in 1..len : size[n] = Len(ss[n])
    BY <2>2
  <2> HIDE DEF ss, size
  <2>4. ASSUME len # 0 PROVE FlattenSeq(ss) \in Seq(Node)
    <3>1. len \in Nat \ {0} /\ ss \in [1..len -> Seq(Node)]
      BY <2>1, <2>2, <2>4
    <3> QED
      BY <2>3, <3>1, FlattenLength
  <2>5. ASSUME len = 0 PROVE FlattenSeq(ss) \in Seq(Node)
    <3>1. Len(ss) = 0
      <4>1. ss \in [1..0 -> Seq(Node)]
        BY <2>1, <2>2, <2>5
      <4> QED
        BY <4>1, SeqOfFunction
    <3>2. FlattenSeq(ss) = <<>>
      BY <3>1 DEF FlattenSeq
    <3> QED
      BY <3>2
  <2>6. ss = Sinks(m)
    BY DEF ss
  <2> QED
    BY <2>4, <2>5, <2>6
<1> HIDE DEF Sinks
<1>3. /\ GraphOf(d).sinks = [m \in Node |-> FlattenSeq(Sinks(m))]
      /\ GraphOf(d).held = {}
  BY DEF GraphOf, Sinks
<1>4. GraphOf(d).sinks \in [Node -> Seq(Node)]
  BY <1>2, <1>3
<1> QED
  BY <1>3, <1>4 DEF IsGraph
-----------------------------------------------------------------------------
\* A histogram counts the instances measured by a value they have.
IsTally(h, S, key) ==
  /\ DOMAIN h = {key[i] : i \in S}
  /\ \A v \in DOMAIN h : h[v] = Cardinality(Having(S, key, {v}))

\* One more instance is counted once more.
LEMMA TallyMore ==
  ASSUME NEW S, IsFiniteSet(S), NEW i, i \notin S, NEW key, NEW h, IsTally(h, S, key)
  PROVE  IsTally(Plus(h, key[i], 1), S \cup {i}, key)
<1> DEFINE g == Plus(h, key[i], 1)
           T == S \cup {i}
<1>1. DOMAIN g = {key[k] : k \in T}
  BY DEF IsTally, Plus
<1>2. ASSUME NEW v \in DOMAIN g PROVE g[v] = Cardinality(Having(T, key, {v}))
  <2>1. /\ IsFiniteSet(Having(S, key, {v})) /\ i \notin Having(S, key, {v})
        /\ Cardinality(Having(S, key, {v})) \in Nat
    <3>1. Having(S, key, {v}) \in SUBSET S
      BY DEF Having
    <3> QED
      BY <3>1, FS_Subset, FS_CardinalityType
  <2>2. CASE v # key[i]
    <3>1. v \in DOMAIN h /\ g[v] = h[v]
      BY <2>2 DEF Plus
    <3>2. Having(T, key, {v}) = Having(S, key, {v})
      BY <2>2 DEF Having
    <3> QED
      BY <3>1, <3>2 DEF IsTally
  <2>3. CASE v = key[i]
    <3>1. g[v] = Count(h, v) + 1
      BY <2>3 DEF Plus
    <3>2. Count(h, v) = Cardinality(Having(S, key, {v}))
      <4>1. CASE v \in DOMAIN h
        BY <4>1 DEF Count, IsTally
      <4>2. CASE v \notin DOMAIN h
        <5>1. Having(S, key, {v}) = {}
          BY <4>2 DEF IsTally, Having
        <5> QED
          BY <4>2, <5>1, FS_EmptySet DEF Count
      <4> QED
        BY <4>1, <4>2
    <3>3. Having(T, key, {v}) = Having(S, key, {v}) \cup {i}
      BY <2>3 DEF Having
    <3>4. Cardinality(Having(S, key, {v}) \cup {i}) = Cardinality(Having(S, key, {v})) + 1
      BY <2>1, FS_AddElement
    <3> QED
      BY <3>1, <3>2, <3>3, <3>4
  <2> QED
    BY <2>2, <2>3
<1> QED
  BY <1>1, <1>2 DEF IsTally

\* The lines up to a number are the instances with a value up to it.
LEMMA LinesOfTally ==
  ASSUME NEW S, IsFiniteSet(S), NEW key, NEW h, IsTally(h, S, key), NEW max \in Nat
  PROVE  LinesSum(h, max) = Cardinality(Having(S, key, 0..max))
<1> DEFINE c == [v \in 0..max |-> Count(h, v)]
<1>1. ASSUME NEW v \in 0..max PROVE c[v] = Cardinality(Having(S, key, {v}))
  <2>1. CASE v \in DOMAIN h
    BY <2>1 DEF Count, IsTally
  <2>2. CASE v \notin DOMAIN h
    <3>1. Having(S, key, {v}) = {}
      BY <2>2 DEF IsTally, Having
    <3> QED
      BY <2>2, <3>1, FS_EmptySet DEF Count
  <2> QED
    BY <2>1, <2>2
<1>2. LinesSum(h, max) = SumFunctionOnSet(c, 0..max)
  BY DEF LinesSum, SumFunction
<1>3. IsFiniteSet(0..max)
  BY FS_Interval
<1> HIDE DEF c
<1> QED
  BY <1>1, <1>2, <1>3, SumOfCounts

\* Each value as often as it was counted makes the values of all instances.
LEMMA WeightOfTally ==
  ASSUME NEW S, IsFiniteSet(S), NEW key, \A i \in S : key[i] \in Int,
         NEW h, IsTally(h, S, key)
  PROVE  SumFunction([v \in DOMAIN h |-> v * h[v]]) = SumFunctionOnSet(key, S)
<1> DEFINE values == {key[i] : i \in S}
           weight == [v \in values |-> v * h[v]]
<1>1. DOMAIN h = values
  BY DEF IsTally
<1>2. IsFiniteSet(values)
  <2> DEFINE f == [i \in S |-> key[i]]
  <2>1. f \in Surjection(S, values)
    BY DEF Surjection
  <2> HIDE DEF f, values
  <2> QED
    BY <2>1, FS_Surjection
<1>3. ASSUME NEW v \in values PROVE weight[v] = SumFunctionOnSet(key, Having(S, key, {v}))
  <2> DEFINE H == Having(S, key, {v})
  <2>1. v \in Int /\ h[v] = Cardinality(H) /\ weight[v] = v * h[v]
    BY <1>1 DEF IsTally
  <2>2. IsFiniteSet(H) /\ \A i \in H : key[i] = v
    <3>1. H \in SUBSET S
      BY DEF Having
    <3>2. IsFiniteSet(H)
      BY <3>1, FS_Subset
    <3> QED
      BY <3>2 DEF Having
  <2> HIDE DEF H
  <2>3. SumFunctionOnSet(key, H) = v * Cardinality(H)
    BY <2>1, <2>2, SumOfConstant
  <2> QED
    BY <2>1, <2>3 DEF H
<1>4. \A i \in S : key[i] \in values
  OBVIOUS
<1>5. SumFunction([v \in DOMAIN h |-> v * h[v]]) = SumFunctionOnSet(weight, values)
  BY <1>1 DEF SumFunction
<1> HIDE DEF values, weight
<1>6. SumFunctionOnSet(weight, values) = SumFunctionOnSet(key, S)
  <2>1. IsByKey(weight, values, key, S, key)
    BY <1>3, <1>4 DEF IsByKey
  <2> QED
    BY <1>2, <2>1, SumByKey
<1> QED
  BY <1>5, <1>6

\* A sum over a larger set, of numbers that are 0 there
LEMMA TotalOnMore ==
  ASSUME NEW h, NEW K, IsFiniteSet(K), DOMAIN h \subseteq K, \A v \in DOMAIN h : h[v] \in Int
  PROVE  SumFunctionOnSet([v \in K |-> Count(h, v)], K) = Total(h)
<1> DEFINE c == [v \in K |-> Count(h, v)]
<1>1. /\ \A v \in K : c[v] \in Int
      /\ \A v \in K \ DOMAIN h : c[v] = 0
      /\ \A v \in DOMAIN h : c[v] \in Int /\ c[v] = h[v]
  BY DEF Count
<1>2. IsFiniteSet(DOMAIN h)
  BY FS_Subset
<1> HIDE DEF c
<1>3. SumFunctionOnSet(c, K) = SumFunctionOnSet(c, DOMAIN h)
  BY <1>1, SumOfParts
<1>4. SumFunctionOnSet(c, DOMAIN h) = SumFunctionOnSet(h, DOMAIN h)
  BY <1>1, <1>2, SumSame
<1> QED
  BY <1>3, <1>4 DEF c, Total, SumFunction
-----------------------------------------------------------------------------
FaninOf == [i \in Inst |-> numFanins(i)]
FanoutOf == [i \in Inst |-> numFanouts(i)]
BoxOf == [i \in Inst |-> bboxSize(i)]

\* What is counted in a design are numbers.
LEMMA CountsAreNumbers ==
  ASSUME design \in Designs
  PROVE  /\ IsFiniteSet(Nets)
         /\ \A n \in Nets, j \in Inst : design.nets[n].ins[j] \in Nat /\ Terms(n, j) \in Nat
         /\ \A i \in Inst : IsFiniteSet(DrivenBy(i)) /\ DrivenBy(i) \subseteq Nets
         /\ \A i \in Inst : FaninOf[i] \in 0..MaxInSigCnt
         /\ \A i, j \in Inst : EdgesTo(i, j) \in Nat
         /\ \A i \in Inst : FanoutOf[i] = SumFunctionOnSet([j \in Inst |-> EdgesTo(i, j)], Inst)
<1>1. IsFiniteSet(Nets)
  <2>1. PICK len \in Nat : len = Len(design.nets) /\ Nets = 1..len
    BY DesignAssumption DEF Nets
  <2> QED
    BY <2>1, FS_Interval
<1>2. \A n \in Nets, j \in Inst : design.nets[n].ins[j] \in Nat /\ Terms(n, j) \in Nat
  BY DesignAssumption DEF Nets, Terms
<1>3. \A i \in Inst : IsFiniteSet(DrivenBy(i)) /\ DrivenBy(i) \subseteq Nets
  <2>1. \A i \in Inst : DrivenBy(i) \in SUBSET Nets
    BY DEF DrivenBy
  <2> QED
    BY <1>1, <2>1, FS_Subset
<1>4. ASSUME NEW i \in Inst PROVE FaninOf[i] \in 0..MaxInSigCnt
  <2> DEFINE f == [n \in Nets |-> design.nets[n].ins[i]]
  <2>1. FaninOf[i] = SumFunctionOnSet(f, Nets) /\ FaninOf[i] <= MaxInSigCnt
    BY DesignAssumption DEF FaninOf, numFanins, SumFunction, Nets
  <2>2. \A n \in Nets : f[n] \in Nat
    BY <1>2
  <2> HIDE DEF f
  <2>3. SumFunctionOnSet(f, Nets) \in Nat
    BY <1>1, <2>2, SumOfNats
  <2> QED
    BY <2>1, <2>3, DesignAssumption
<1>5. ASSUME NEW i \in Inst, NEW j \in Inst PROVE EdgesTo(i, j) \in Nat
  <2> DEFINE f == [n \in Nets |-> Terms(n, j)]
  <2>1. \A n \in DrivenBy(i) : f[n] \in Nat
    BY <1>2, <1>3
  <2>2. EdgesTo(i, j) = SumFunctionOnSet(f, DrivenBy(i))
    BY DEF EdgesTo
  <2> HIDE DEF f
  <2> QED
    BY <1>3, <2>1, <2>2, SumOfNats
<1>6. \A i \in Inst : FanoutOf[i] = SumFunctionOnSet([j \in Inst |-> EdgesTo(i, j)], Inst)
  BY DEF FanoutOf, numFanouts, SumFunction
<1> QED
  BY <1>1, <1>2, <1>3, <1>4, <1>5, <1>6

\* So are the sums over all loads.
LEMMA FanoutsAreInts ==
  ASSUME design \in Designs, NEW i \in Inst
  PROVE  FanoutOf[i] \in Int
<1> DEFINE edges == [j \in Inst |-> EdgesTo(i, j)]
<1>1. \A j \in Inst : edges[j] \in Int
  BY CountsAreNumbers
<1>2. FanoutOf[i] = SumFunctionOnSet(edges, Inst)
  BY CountsAreNumbers
<1> HIDE DEF edges
<1> QED
  BY <1>1, <1>2, InstancesCounted, SumWithout

\* A histogram of lengths
AreLengths(h) ==
  /\ IsFiniteSet(DOMAIN h)
  /\ \A v \in DOMAIN h : /\ h[v] \in Nat
                          /\ \E i \in Inst : \E j \in Loads(i) : v = Length(i, j)

\* The edges of one more instance are as many as it has fanouts.
LEMMA EdgesMore ==
  ASSUME design \in Designs, NEW i \in Inst, NEW h, AreLengths(h)
  PROVE  AreLengths(EdgesOf(h, i)) /\ Total(EdgesOf(h, i)) = Total(h) + FanoutOf[i]
<1> DEFINE g == EdgesOf(h, i)
           edges == [j \in Inst |-> EdgesTo(i, j)]
           values == (DOMAIN h) \cup {Length(i, j) : j \in Loads(i)}
           old == [v \in values |-> Count(h, v)]
           new == [v \in values |-> SumFunctionOnSet(edges, LoadsAt(i, v))]
           lengths == [j \in Inst |-> Length(i, j)]
<1>1. Loads(i) \in SUBSET Inst /\ IsFiniteSet(Loads(i)) /\ IsFiniteSet(Inst)
  <2>1. Loads(i) \in SUBSET Inst
    BY DEF Loads
  <2> QED
    BY <2>1, InstancesCounted, FS_Subset
<1>2. /\ \A j \in Inst : edges[j] \in Nat /\ edges[j] \in Int
      /\ \A j \in Inst \ Loads(i) : edges[j] = 0
  BY CountsAreNumbers DEF Loads
<1>3. IsFiniteSet(values)
  <2> DEFINE T == {Length(i, j) : j \in Loads(i)}
             f == [j \in Loads(i) |-> Length(i, j)]
  <2>1. f \in Surjection(Loads(i), T)
    BY DEF Surjection
  <2> HIDE DEF f, T
  <2>2. IsFiniteSet(T)
    BY <1>1, <2>1, FS_Surjection
  <2>3. IsFiniteSet(DOMAIN h \cup T)
    BY <2>2, FS_Union DEF AreLengths
  <2> QED
    BY <2>3 DEF T
<1>4. \A v : LoadsAt(i, v) \in SUBSET Loads(i) /\ IsFiniteSet(LoadsAt(i, v))
  <2>1. \A v : LoadsAt(i, v) \in SUBSET Loads(i)
    BY DEF LoadsAt
  <2> QED
    BY <1>1, <2>1, FS_Subset
<1>5. ASSUME NEW v \in values PROVE new[v] \in Nat
  <2>1. \A j \in LoadsAt(i, v) : edges[j] \in Nat
    BY <1>1, <1>2, <1>4
  <2>2. new[v] = SumFunctionOnSet(edges, LoadsAt(i, v))
    OBVIOUS
  <2> HIDE DEF edges, new, values
  <2> QED
    BY <1>4, <2>1, <2>2, SumOfNats
<1>6. \A v \in values : old[v] \in Nat
  BY DEF AreLengths, Count
<1>7. DOMAIN g = values /\ \A v \in values : g[v] = old[v] + new[v]
  BY DEF EdgesOf
<1>8. \A v \in values : \E k \in Inst : \E j \in Loads(k) : v = Length(k, j)
  BY DEF AreLengths
<1>9. SumFunctionOnSet(old, values) = Total(h)
  BY <1>3, TotalOnMore DEF AreLengths
<1>10. SumFunctionOnSet(new, values) = SumFunctionOnSet(edges, Loads(i))
  <2>1. \A v \in values : Having(Loads(i), lengths, {v}) = LoadsAt(i, v)
    BY <1>1 DEF Having, LoadsAt
  <2>2. \A j \in Loads(i) : edges[j] \in Int /\ lengths[j] \in values
    BY <1>1, <1>2
  <2>3. IsByKey(new, values, edges, Loads(i), lengths)
    BY <2>1, <2>2 DEF IsByKey
  <2> HIDE DEF new, values, edges, lengths
  <2> QED
    BY <1>1, <1>3, <2>3, SumByKey
<1>11. SumFunctionOnSet(edges, Loads(i)) = FanoutOf[i]
  <2>1. FanoutOf[i] = SumFunctionOnSet(edges, Inst)
    BY CountsAreNumbers
  <2> HIDE DEF edges
  <2> QED
    BY <1>1, <1>2, <2>1, SumOfParts
<1> HIDE DEF g, edges, values, old, new, lengths
<1>12. SumFunctionOnSet(g, values) = SumFunctionOnSet(old, values) + SumFunctionOnSet(new, values)
  <2>1. \A v \in values : old[v] \in Int /\ new[v] \in Int /\ g[v] = old[v] + new[v]
    BY <1>5, <1>6, <1>7
  <2> QED
    BY <1>3, <2>1, SumPlus
<1>13. Total(g) = SumFunctionOnSet(g, values)
  BY <1>7 DEF Total, SumFunction
<1>14. \A v \in values : g[v] \in Nat
  BY <1>5, <1>6, <1>7
<1>15. AreLengths(g)
  BY <1>3, <1>7, <1>8, <1>14 DEF AreLengths
<1> QED
  BY <1>9, <1>10, <1>11, <1>12, <1>13, <1>15 DEF g
-----------------------------------------------------------------------------
\* There is a smallest square that holds a number.
LEMMA CeilSqrtHolds ==
  ASSUME NEW n \in Nat
  PROVE  CeilSqrt(n) \in 0..n
<1> DEFINE S == {k \in 0..n : k * k >= n}
<1>1. n * n >= n
  OBVIOUS
<1>2. S \in SUBSET Nat /\ n \in S
  BY <1>1
<1>3. PICK k \in S : \A j \in S : k <= j
  <2> HIDE DEF S
  <2> QED
    BY <1>2, NatLeast
<1>4. k \in 0..n /\ k * k >= n
  OBVIOUS
<1>5. ASSUME NEW j \in 0..(k - 1) PROVE j * j < n
  <2>1. j \in 0..n /\ j \notin S
    BY <1>3, <1>4
  <2>2. j \in Int /\ j * j \in Int
    OBVIOUS
  <2> QED
    BY <2>1, <2>2
<1> QED
  BY <1>4, <1>5 DEF CeilSqrt

\* The layout has a side, so that maxLength is one.
LEMMA DimSumHolds ==
  ASSUME NEW cnt \in Nat
  PROVE  DimSum(cnt) \in Nat \ {0}
<1> DEFINE Bins(t) == ((t + 1) \div 2) * (t \div 2)
           q == CeilSqrt(cnt)
           S == {s \in 2..(cnt + 2) : Bins(s) >= q}
<1>1. q \in 0..cnt
  BY CeilSqrtHolds
<1>2. cnt + 2 \in S
  <2>1. PICK a \in Int, b \in Int : a = (cnt + 3) \div 2 /\ b = (cnt + 2) \div 2
    OBVIOUS
  <2>2. a >= 1 /\ b >= 1 /\ a + b = cnt + 2
    BY <2>1
  <2>3. (a - 1) * (b - 1) >= 0
    BY <2>2
  <2>4. a * b = (a - 1) * (b - 1) + a + b - 1
    OBVIOUS
  <2>5. a * b \in Int /\ (a - 1) * (b - 1) \in Int
    OBVIOUS
  <2>6. a * b >= cnt
    BY <2>2, <2>3, <2>4, <2>5
  <2>7. Bins(cnt + 2) = a * b
    BY <2>1
  <2> HIDE DEF Bins, q
  <2> QED
    BY <1>1, <2>5, <2>6, <2>7
<1>3. PICK s \in S : \A t \in S : s <= t
  <2>1. S \in SUBSET Nat /\ S # {}
    <3> HIDE DEF Bins, q
    <3> QED
      BY <1>2
  <2> HIDE DEF S
  <2> QED
    BY <2>1, NatLeast
<1>4. s \in 2..(cnt + 2) /\ Bins(s) >= q
  OBVIOUS
<1>5. ASSUME NEW t \in 2..(s - 1) PROVE Bins(t) < q
  <2>1. t \in 2..(cnt + 2) /\ t \notin S
    BY <1>3, <1>4
  <2>2. PICK b \in Int : b = Bins(t)
    OBVIOUS
  <2>3. ~ (b >= q)
    BY <2>1, <2>2
  <2> HIDE DEF Bins, q
  <2> QED
    BY <1>1, <2>2, <2>3
<1>6. DimSum(cnt) \in 2..(cnt + 2)
  <2>1. DimSum(cnt) = CHOOSE x \in 2..(cnt + 2) : Bins(x) >= q /\ \A t \in 2..(x - 1) : Bins(t) < q
    BY DEF DimSum
  <2> HIDE DEF Bins, q
  <2> QED
    BY <1>4, <1>5, <2>1
<1> QED
  BY <1>6

\* A distance of at most the half perimeter of the core has a line.
LEMMA LineOfDistance ==
  ASSUME NEW W \in Nat, NEW L \in Nat \ {0}, W % L < W \div L, NEW D \in 0..W
  PROVE  W \div L \in Nat \ {0} /\ D \div (W \div L) \in 0..L
<1>1. PICK b \in Int, r \in Int : b = W \div L /\ r = W % L
  OBVIOUS
<1>2. W = L * b + r /\ 0 <= r /\ r < b
  BY <1>1
<1>3. b \in Nat \ {0}
  BY <1>2
<1>4. PICK k \in Int : k = D \div b
  BY <1>3
<1>5. k \in Nat /\ k * b <= D
  BY <1>3, <1>4, QuotientBounds
<1>6. k <= L
  <2> SUFFICES ASSUME k >= L + 1 PROVE FALSE
    BY <1>4
  <2>1. (k - (L + 1)) * b >= 0
    BY <1>3
  <2>2. k * b = (k - (L + 1)) * b + L * b + b
    BY <1>3
  <2>3. k * b \in Int /\ (k - (L + 1)) * b \in Int /\ L * b \in Int
    BY <1>3
  <2> QED
    BY <1>2, <1>3, <1>5, <2>1, <2>2, <2>3
<1> QED
  BY <1>1, <1>3, <1>4, <1>5, <1>6

\* A set of coordinates of the core spans no more than the core.
LEMMA SpanBounds ==
  ASSUME NEW m \in Nat, NEW S \in SUBSET (0..m), S # {}
  PROVE  Max(S) - Min(S) \in 0..m
<1>1. IsFiniteSet(S) /\ S \in SUBSET Nat
  <2>1. IsFiniteSet(0..m)
    BY FS_Interval
  <2>2. IsFiniteSet(S)
    BY <2>1, FS_Subset
  <2> QED
    BY <2>2
<1>2. Max(S) \in S /\ \A i \in S : i <= Max(S)
  BY <1>1, MaxIsLargest
<1>3. Min(S) \in S
  BY <1>1, MinIsLeast
<1>4. Min(S) <= Max(S)
  BY <1>2, <1>3
<1>5. PICK a \in 0..m, b \in 0..m : a = Min(S) /\ b = Max(S)
  BY <1>2, <1>3
<1> QED
  BY <1>4, <1>5

RoomEnough == (design.width + design.height) % maxLength < (design.width + design.height) \div maxLength

\* The span of any coordinates is no negative number.
LEMMA SpanIsNumber ==
  ASSUME NEW S \in SUBSET Int, IsFiniteSet(S), S # {}
  PROVE  Max(S) - Min(S) \in Nat
<1> DEFINE up == [i \in S |-> i]
           down == [i \in S |-> -i]
<1>1. PICK a \in S : \A i \in S : i <= a
  <2>1. \A i \in S : up[i] \in Int
    OBVIOUS
  <2>2. \E m \in S : \A k \in S : up[k] <= up[m]
    <3> HIDE DEF up
    <3> QED
      BY <2>1, Largest
  <2> QED
    BY <2>2
<1>2. PICK b \in S : \A i \in S : b <= i
  <2>1. \A i \in S : down[i] \in Int
    OBVIOUS
  <2>2. \E m \in S : \A k \in S : down[k] <= down[m]
    <3> HIDE DEF down
    <3> QED
      BY <2>1, Largest
  <2> QED
    BY <2>2
<1>3. Max(S) \in S /\ \A i \in S : Max(S) >= i
  <2>1. \A i \in S : a >= i
    BY <1>1
  <2> QED
    BY <2>1 DEF Max
<1>4. Min(S) \in S
  BY <1>2 DEF Min
<1>5. PICK x \in Int, y \in Int : x = Max(S) /\ y = Min(S) /\ x >= y
  BY <1>3, <1>4
<1> QED
  BY <1>5

\* In a core that is large against the layout every length and box of instances
\* in the core has a line.
LEMMA ValuesHaveLines ==
  ASSUME design \in Designs, RoomEnough
  PROVE  /\ maxLength \in Nat
         /\ \A i, j \in Inst :
              /\ Length(i, j) \in Nat
              /\ ~ Outside(i) /\ ~ Outside(j) => Length(i, j) <= maxLength
         /\ \A i \in Inst :
              /\ BoxOf[i] \in Nat
              /\ (\A j \in Box(i) : ~ Outside(j)) => BoxOf[i] <= maxLength
<1>1. PICK w \in Nat, h \in Nat : w = design.width /\ h = design.height
  BY DesignAssumption
<1>2. PICK L \in Nat \ {0} : L = maxLength
  BY DimSumHolds, InstancesCounted DEF maxLength
<1>3. \A i \in Inst : /\ design.at[i][1] \in Int /\ design.at[i][2] \in Int
                      /\ ~ Outside(i) => design.at[i][1] \in 0..w /\ design.at[i][2] \in 0..h
  BY <1>1, DesignAssumption DEF Outside
<1>4. binSize = (w + h) \div L /\ (w + h) % L < (w + h) \div L
  BY <1>1, <1>2 DEF binSize, RoomEnough
<1>5. \A D \in Nat : D \div binSize \in Nat /\ (D <= w + h => D \div binSize <= L)
  <2>1. w + h \in Nat /\ 0 \in 0..(w + h)
    OBVIOUS
  <2>2. binSize \in Nat \ {0} /\ \A D \in 0..(w + h) : D \div binSize \in 0..L
    BY <1>4, <2>1, LineOfDistance
  <2>3. PICK b \in Nat \ {0} : b = binSize
    BY <2>2
  <2>4. \A D \in Nat : D \div b \in Nat
    BY QuotientBounds
  <2> QED
    BY <2>2, <2>3, <2>4
<1>6. ASSUME NEW i \in Inst, NEW j \in Inst
      PROVE  /\ Length(i, j) \in Nat
             /\ ~ Outside(i) /\ ~ Outside(j) => Length(i, j) <= L
  <2>1. PICK x \in Nat, y \in Nat :
          /\ x = Abs(design.at[i][1] - design.at[j][1])
          /\ y = Abs(design.at[i][2] - design.at[j][2])
    BY <1>3 DEF Abs
  <2>2. Length(i, j) = (x + y) \div binSize /\ x + y \in Nat
    BY <2>1 DEF Length
  <2>3. ~ Outside(i) /\ ~ Outside(j) => x <= w /\ y <= h
    BY <1>3, <2>1 DEF Abs
  <2>4. ~ Outside(i) /\ ~ Outside(j) => x + y <= w + h
    BY <2>3
  <2> QED
    BY <1>5, <2>2, <2>4
<1>7. ASSUME NEW i \in Inst
      PROVE  /\ BoxOf[i] \in Nat
             /\ (\A j \in Box(i) : ~ Outside(j)) => BoxOf[i] <= L
  <2> DEFINE At(c) == {design.at[j][c] : j \in Box(i)}
             Span(c) == Max(At(c)) - Min(At(c))
  <2>1. Box(i) \in SUBSET Inst /\ i \in Box(i) /\ IsFiniteSet(Box(i))
    <3>1. Box(i) \in SUBSET Inst /\ i \in Box(i)
      BY DesignAssumption DEF Box, OnNet, DrivenBy, Nets
    <3> QED
      BY <3>1, InstancesCounted, FS_Subset
  <2>2. ASSUME NEW c \in {1, 2}
        PROVE  At(c) \in SUBSET Int /\ At(c) # {} /\ IsFiniteSet(At(c))
    <3> DEFINE f == [j \in Box(i) |-> design.at[j][c]]
    <3>1. f \in Surjection(Box(i), At(c))
      BY DEF Surjection
    <3>2. At(c) \in SUBSET Int /\ At(c) # {}
      BY <1>3, <2>1
    <3> HIDE DEF f, At
    <3> QED
      BY <2>1, <3>1, <3>2, FS_Surjection
  <2>3. BoxOf[i] = (Span(1) + Span(2)) \div binSize
    BY DEF BoxOf, bboxSize
  <2>4. ASSUME NEW c \in {1, 2} PROVE Span(c) \in Nat
    <3>1. At(c) \in SUBSET Int /\ At(c) # {} /\ IsFiniteSet(At(c))
      BY <2>2
    <3> HIDE DEF At
    <3> QED
      BY <3>1, SpanIsNumber
  <2>5. ASSUME \A j \in Box(i) : ~ Outside(j) PROVE Span(1) <= w /\ Span(2) <= h
    <3>1. At(1) \in SUBSET (0..w) /\ At(1) # {} /\ At(2) \in SUBSET (0..h) /\ At(2) # {}
      BY <1>3, <2>1, <2>5
    <3> HIDE DEF At
    <3>2. Max(At(1)) - Min(At(1)) \in 0..w /\ Max(At(2)) - Min(At(2)) \in 0..h
      BY <3>1, SpanBounds
    <3> QED
      BY <3>2
  <2>6. PICK x \in Nat, y \in Nat : x = Span(1) /\ y = Span(2)
    BY <2>4
  <2> HIDE DEF Span
  <2>7. x + y \in Nat /\ BoxOf[i] = (x + y) \div binSize
    BY <2>3, <2>6
  <2>8. (\A j \in Box(i) : ~ Outside(j)) => x + y <= w + h
    BY <2>5, <2>6
  <2> QED
    BY <1>5, <2>7, <2>8
<1> QED
  BY <1>2, <1>6, <1>7
-----------------------------------------------------------------------------
\* The fanins of all instances are the signal inputs on all nets.
LEMMA FaninsAreSignals ==
  ASSUME design \in Designs
  PROVE  SumFunctionOnSet(FaninOf, Inst) =
           SumFunctionOnSet([n \in Nets |-> SumFunction(design.nets[n].ins)], Nets)
<1> DEFINE t == [i \in Inst |-> [n \in Nets |-> design.nets[n].ins[i]]]
           signals == [n \in Nets |-> SumFunction(design.nets[n].ins)]
<1>1. \A i \in Inst : \A n \in Nets : t[i][n] \in Int
  BY CountsAreNumbers
<1>2. \A i \in Inst : FaninOf[i] = SumFunctionOnSet(t[i], Nets)
  BY DEF FaninOf, numFanins, SumFunction
<1>3. ASSUME NEW n \in Nets
      PROVE  signals[n] = SumFunctionOnSet([i \in Inst |-> t[i][n]], Inst)
  <2>1. /\ design.nets[n].ins \in [Inst -> Nat]
        /\ [i \in Inst |-> t[i][n]] = [i \in Inst |-> design.nets[n].ins[i]]
    BY DesignAssumption DEF Nets
  <2>2. [i \in Inst |-> t[i][n]] = design.nets[n].ins /\ DOMAIN design.nets[n].ins = Inst
    BY <2>1
  <2>3. signals[n] = SumFunctionOnSet(design.nets[n].ins, Inst)
    BY <2>2 DEF SumFunction
  <2> QED
    BY <2>2, <2>3
<1> HIDE DEF t, signals
<1>4. SumFunctionOnSet(FaninOf, Inst) = SumFunctionOnSet(signals, Nets)
  <2>1. AreRowsAndColumns(FaninOf, Inst, signals, Nets, t)
    BY <1>1, <1>2, <1>3 DEF AreRowsAndColumns
  <2>2. IsFiniteSet(Inst) /\ IsFiniteSet(Nets)
    BY CountsAreNumbers, InstancesCounted
  <2> QED
    BY <2>1, <2>2, SumSwap
<1> QED
  BY <1>4 DEF signals

\* The input terms on a net are its signal inputs and its clocks and resets.
LEMMA TermsAreSignalsAndControls ==
  ASSUME design \in Designs, NEW n \in Nets
  PROVE  /\ SumFunction(design.nets[n].ins) \in Nat
         /\ SumFunction(design.nets[n].ctl) \in Nat
         /\ SumFunctionOnSet([j \in Inst |-> Terms(n, j)], Inst)
              = SumFunction(design.nets[n].ins) + SumFunction(design.nets[n].ctl)
<1> DEFINE ctl == design.nets[n].ctl
           ins == design.nets[n].ins
           terms == [j \in Inst |-> Terms(n, j)]
<1>1. IsFiniteSet(Inst)
  BY InstancesCounted
<1>2. ins \in [Inst -> Nat] /\ ctl \in [Inst -> Nat]
  BY DesignAssumption DEF Nets
<1>3. \A j \in Inst : /\ ins[j] \in Nat /\ ctl[j] \in Nat /\ ins[j] \in Int /\ ctl[j] \in Int
                      /\ terms[j] \in Int /\ terms[j] = ins[j] + ctl[j]
  BY <1>2 DEF Terms
<1>4. /\ SumFunction(ins) = SumFunctionOnSet(ins, Inst)
      /\ SumFunction(ctl) = SumFunctionOnSet(ctl, Inst)
  BY <1>2 DEF SumFunction
<1> HIDE DEF ctl, ins, terms
<1>5. SumFunctionOnSet(ins, Inst) \in Nat /\ SumFunctionOnSet(ctl, Inst) \in Nat
  BY <1>1, <1>3, SumOfNats
<1>6. SumFunctionOnSet(terms, Inst) = SumFunctionOnSet(ins, Inst) + SumFunctionOnSet(ctl, Inst)
  BY <1>1, <1>3, SumPlus
<1> QED
  BY <1>4, <1>5, <1>6 DEF ctl, ins, terms

\* The fanouts of all instances are the input terms on the nets they drive,
\* when no net has a second output term.
LEMMA FanoutsAreTerms ==
  ASSUME design \in Designs, \A i \in Inst : ~ SharedOutput(i)
  PROVE  SumFunctionOnSet(FanoutOf, Inst) =
           SumFunctionOnSet([n \in Nets |-> SumFunctionOnSet([j \in Inst |-> Terms(n, j)], Inst)],
                            {n \in Nets : design.nets[n].outs # {}})
<1> DEFINE row == [n \in Nets |-> [j \in Inst |-> Terms(n, j)]]
           terms == [n \in Nets |-> SumFunctionOnSet([j \in Inst |-> Terms(n, j)], Inst)]
           driven == {n \in Nets : design.nets[n].outs # {}}
           driver == [n \in Nets |-> CHOOSE i \in Inst : design.nets[n].outs = {i}]
<1>1. driven \subseteq Nets /\ IsFiniteSet(driven) /\ IsFiniteSet(Inst)
  <2>1. driven \in SUBSET Nets
    OBVIOUS
  <2> HIDE DEF driven
  <2> QED
    BY <2>1, CountsAreNumbers, InstancesCounted, FS_Subset
<1>2. \A n \in Nets : \A j \in Inst : row[n][j] \in Int
  BY CountsAreNumbers
<1>3. \A n \in Nets : terms[n] = SumFunctionOnSet(row[n], Inst)
  OBVIOUS
<1>4. \A n \in Nets : terms[n] \in Int
  <2> SUFFICES ASSUME NEW n \in Nets PROVE terms[n] \in Int
    OBVIOUS
  <2>1. \A j \in Inst : row[n][j] \in Int
    BY <1>2
  <2>2. terms[n] = SumFunctionOnSet(row[n], Inst)
    BY <1>3
  <2> HIDE DEF terms, row
  <2> QED
    BY <1>1, <2>1, <2>2, SumWithout
<1>5. \A n \in driven : driver[n] \in Inst /\ design.nets[n].outs = {driver[n]}
  <2> SUFFICES ASSUME NEW n \in driven PROVE driver[n] \in Inst /\ design.nets[n].outs = {driver[n]}
    OBVIOUS
  <2>1. PICK i \in Inst : i \in design.nets[n].outs
    BY DesignAssumption DEF Nets
  <2>2. design.nets[n].outs = {i}
    BY <2>1 DEF SharedOutput, DrivenBy
  <2> QED
    BY <2>2
<1>6. ASSUME NEW i \in Inst PROVE Having(driven, driver, {i}) = DrivenBy(i)
  BY <1>5 DEF Having, DrivenBy
<1>7. ASSUME NEW i \in Inst PROVE FanoutOf[i] = SumFunctionOnSet(terms, DrivenBy(i))
  <2> DEFINE edges == [j \in Inst |-> EdgesTo(i, j)]
  <2>1. FanoutOf[i] = SumFunctionOnSet(edges, Inst)
    BY CountsAreNumbers
  <2>2. DrivenBy(i) \subseteq Nets /\ IsFiniteSet(DrivenBy(i))
    BY CountsAreNumbers
  <2>3. \A j \in Inst : edges[j] = SumFunctionOnSet([n \in DrivenBy(i) |-> row[n][j]], DrivenBy(i))
    <3> SUFFICES ASSUME NEW j \in Inst
                 PROVE  edges[j] = SumFunctionOnSet([n \in DrivenBy(i) |-> row[n][j]], DrivenBy(i))
      OBVIOUS
    <3> DEFINE f == [n \in Nets |-> Terms(n, j)]
               g == [n \in DrivenBy(i) |-> row[n][j]]
    <3>1. edges[j] = SumFunctionOnSet(f, DrivenBy(i))
      BY DEF EdgesTo
    <3>2. \A n \in DrivenBy(i) : f[n] \in Int /\ f[n] = g[n]
      BY <1>2, <2>2
    <3> HIDE DEF f, g, edges
    <3>3. SumFunctionOnSet(f, DrivenBy(i)) = SumFunctionOnSet(g, DrivenBy(i))
      BY <2>2, <3>2, SumSame
    <3> QED
      BY <3>1, <3>3 DEF g
  <2>4. \A n \in DrivenBy(i) : terms[n] = SumFunctionOnSet(row[n], Inst)
    BY <1>3, <2>2
  <2>5. \A n \in DrivenBy(i) : \A j \in Inst : row[n][j] \in Int
    BY <1>2, <2>2
  <2> HIDE DEF row, terms, edges
  <2>6. SumFunctionOnSet(terms, DrivenBy(i)) = SumFunctionOnSet(edges, Inst)
    <3>1. AreRowsAndColumns(terms, DrivenBy(i), edges, Inst, row)
      BY <2>3, <2>4, <2>5 DEF AreRowsAndColumns
    <3> QED
      BY <1>1, <2>2, <3>1, SumSwap
  <2> QED
    BY <2>1, <2>6
<1>8. IsByKey(FanoutOf, Inst, terms, driven, driver)
  <2> HIDE DEF terms, driver
  <2>1. \A n \in driven : terms[n] \in Int /\ driver[n] \in Inst
    BY <1>1, <1>4, <1>5
  <2>2. \A i \in Inst : FanoutOf[i] = SumFunctionOnSet(terms, Having(driven, driver, {i}))
    BY <1>6, <1>7
  <2> HIDE DEF driven
  <2> QED
    BY <2>1, <2>2 DEF IsByKey
<1> HIDE DEF terms, driven, driver
<1>9. SumFunctionOnSet(FanoutOf, Inst) = SumFunctionOnSet(terms, driven)
  BY <1>1, <1>8, SumByKey
<1> QED
  BY <1>9 DEF terms, driven

\* Counted from the drivers and from the loads, the connections agree but for
\* the nets that no instance drives and the clock and reset inputs.
LEMMA SidesBalance ==
  ASSUME design \in Designs, \A i \in Inst : ~ SharedOutput(i)
  PROVE  LET Undriven == {n \in Nets : design.nets[n].outs = {}}
             signals == [n \in Nets |-> SumFunction(design.nets[n].ins)]
             controls == [n \in Nets |-> SumFunction(design.nets[n].ctl)]
         IN  SumFunctionOnSet(FanoutOf, Inst) + SumFunctionOnSet(signals, Undriven)
               = SumFunctionOnSet(FaninOf, Inst) + SumFunctionOnSet(controls, Nets \ Undriven)
<1> DEFINE Undriven == {n \in Nets : design.nets[n].outs = {}}
           signals == [n \in Nets |-> SumFunction(design.nets[n].ins)]
           controls == [n \in Nets |-> SumFunction(design.nets[n].ctl)]
           terms == [n \in Nets |-> SumFunctionOnSet([j \in Inst |-> Terms(n, j)], Inst)]
           driven == Nets \ Undriven
<1>1. \A n \in Nets : /\ signals[n] \in Int /\ controls[n] \in Int
                      /\ terms[n] = signals[n] + controls[n]
  BY TermsAreSignalsAndControls
<1>2. SumFunctionOnSet(FanoutOf, Inst) = SumFunctionOnSet(terms, driven)
  <2>1. {n \in Nets : design.nets[n].outs # {}} = driven
    OBVIOUS
  <2> QED
    BY <2>1, FanoutsAreTerms
<1>3. SumFunctionOnSet(FaninOf, Inst) = SumFunctionOnSet(signals, Nets)
  BY FaninsAreSignals
<1>4. Undriven \in SUBSET Nets /\ driven \in SUBSET Nets /\ driven = Nets \ Undriven
  OBVIOUS
<1> HIDE DEF Undriven, signals, controls, terms, driven
<1>5. IsFiniteSet(Nets) /\ IsFiniteSet(driven) /\ IsFiniteSet(Undriven)
  BY <1>4, CountsAreNumbers, FS_Subset
<1>6. SumFunctionOnSet(terms, driven)
        = SumFunctionOnSet(signals, driven) + SumFunctionOnSet(controls, driven)
  <2>1. \A n \in driven : signals[n] \in Int /\ controls[n] \in Int /\ terms[n] = signals[n] + controls[n]
    BY <1>1, <1>4
  <2> QED
    BY <1>5, <2>1, SumPlus
<1>7. SumFunctionOnSet(signals, Nets)
        = SumFunctionOnSet(signals, Undriven) + SumFunctionOnSet(signals, driven)
  <2>1. \A n \in Nets : signals[n] \in Int
    BY <1>1
  <2> QED
    BY <1>4, <1>5, <2>1, SumOfBoth
<1>8. /\ SumFunctionOnSet(signals, driven) \in Int
      /\ SumFunctionOnSet(signals, Undriven) \in Int
      /\ SumFunctionOnSet(controls, driven) \in Int
  <2>1. /\ \A n \in driven : signals[n] \in Int
        /\ \A n \in Undriven : signals[n] \in Int
        /\ \A n \in driven : controls[n] \in Int
    BY <1>1, <1>4
  <2> QED
    BY <1>5, <2>1, SumWithout
<1>9. SumFunctionOnSet(FanoutOf, Inst) + SumFunctionOnSet(signals, Undriven)
        = SumFunctionOnSet(FaninOf, Inst) + SumFunctionOnSet(controls, Nets \ Undriven)
  BY <1>2, <1>3, <1>4, <1>6, <1>7, <1>8
<1> QED
  BY <1>9 DEF Undriven, signals, controls
-----------------------------------------------------------------------------
Measured == 1..(next - 1)

\* The histograms stand for the instances measured.
HistsExact ==
  /\ IsTally(fanin, Measured, FaninOf)
  /\ IsTally(bbox, Measured, BoxOf)
  /\ AreLengths(edgelen) /\ Total(edgelen) = SumFunctionOnSet(FanoutOf, Measured)

MeasureInv ==
  /\ design \in Designs
  /\ next \in 1..(numInsts + 1)
  /\ HistsExact
  /\ \A i \in Measured : ~ SharedOutput(i)
  /\ phase \in {"measure", "sort", "read", "exit", "crash"}
  /\ phase \in {"sort", "read"} => next = numInsts + 1
  /\ phase = "read" => instanceCnt = LinesSum(fanin, maxFanins)

\* Nothing is measured to begin with.
LEMMA MeasureInitInv == MeasureInit => MeasureInv
<1> SUFFICES ASSUME MeasureInit PROVE MeasureInv
  OBVIOUS
<1>1. /\ design \in Designs /\ next = 1 /\ phase = "measure"
      /\ fanin = <<>> /\ bbox = <<>> /\ edgelen = <<>>
  BY DEF MeasureInit
<1>2. Measured = {} /\ DOMAIN fanin = {} /\ DOMAIN bbox = {} /\ DOMAIN edgelen = {}
  BY <1>1 DEF Measured
<1>3. HistsExact
  <2>1. AreLengths(edgelen)
    BY <1>2, FS_EmptySet DEF AreLengths
  <2>2. Total(edgelen) = 0 /\ SumFunctionOnSet(FanoutOf, Measured) = 0
    BY <1>2, SumOfNone DEF Total, SumFunction
  <2>3. IsTally(fanin, Measured, FaninOf) /\ IsTally(bbox, Measured, BoxOf)
    BY <1>2 DEF IsTally
  <2> QED
    BY <2>1, <2>2, <2>3 DEF HistsExact
<1>4. 1 \in 1..(numInsts + 1)
  BY InstancesCounted
<1> QED
  BY <1>1, <1>2, <1>3, <1>4 DEF MeasureInv

\* One instance more is counted in every histogram.
LEMMA MeasureInstInv ==
  ASSUME MeasureInv, Measure
  PROVE  MeasureInv'
<1>1. PICK m \in Nat \ {0} : m = next /\ m \in 1..numInsts /\ next' = m + 1
  BY InstancesCounted DEF MeasureInv, Measure
<1>2. /\ design \in Designs /\ design' = design /\ phase = "measure" /\ phase' = phase
      /\ m \in Inst /\ ~ SharedOutput(m) /\ HistsExact
      /\ fanin' = Plus(fanin, numFanins(m), 1) /\ bbox' = Plus(bbox, bboxSize(m), 1)
      /\ edgelen' = EdgesOf(edgelen, m)
      /\ \A i \in Measured : ~ SharedOutput(i)
  BY <1>1, InstancesCounted DEF MeasureInv, Measure
<1>3. PICK S : S = Measured /\ Measured' = S \cup {m} /\ m \notin S /\ IsFiniteSet(S)
               /\ S \cup {m} \subseteq Inst
  <2>1. Measured = 1..(m - 1) /\ Measured' = 1..m
    BY <1>1 DEF Measured
  <2>2. IsFiniteSet(1..(m - 1))
    BY FS_Interval
  <2>3. 1..m = (1..(m - 1)) \cup {m} /\ m \notin 1..(m - 1)
    OBVIOUS
  <2>4. 1..m \subseteq Inst
    BY <1>1, InstancesCounted
  <2> QED
    BY <2>1, <2>2, <2>3, <2>4
<1>4. PICK F, B, E : F = FaninOf /\ FaninOf' = F /\ B = BoxOf /\ BoxOf' = B
                     /\ E = FanoutOf /\ FanoutOf' = E
  <2>1. FaninOf' = FaninOf
    BY <1>2 DEF FaninOf, numFanins, Nets
  <2>2. BoxOf' = BoxOf
    <3>1. /\ binSize' = binSize
          /\ \A i : DrivenBy(i)' = DrivenBy(i)
          /\ \A n : OnNet(n)' = OnNet(n)
      BY <1>2 DEF OnNet, Terms, DrivenBy, Nets, binSize
    <3>2. \A i : bboxSize(i)' = bboxSize(i)
      BY <1>2, <3>1 DEF bboxSize, Box
    <3> QED
      BY <3>2 DEF BoxOf
  <2>3. FanoutOf' = FanoutOf
    BY <1>2 DEF FanoutOf, numFanouts, EdgesTo, Terms, DrivenBy, Nets
  <2> QED
    BY <2>1, <2>2, <2>3
<1>5. IsTally(fanin, S, F) /\ IsTally(bbox, S, B) /\ AreLengths(edgelen)
      /\ Total(edgelen) = SumFunctionOnSet(E, S)
  BY <1>2, <1>3, <1>4 DEF HistsExact
<1>6. IsTally(fanin', S \cup {m}, F)
  <2>1. fanin' = Plus(fanin, F[m], 1)
    BY <1>2, <1>4 DEF FaninOf
  <2> QED
    BY <1>3, <1>5, <2>1, TallyMore
<1>7. IsTally(bbox', S \cup {m}, B)
  <2>1. bbox' = Plus(bbox, B[m], 1)
    BY <1>2, <1>4 DEF BoxOf
  <2> QED
    BY <1>3, <1>5, <2>1, TallyMore
<1>8. AreLengths(edgelen') /\ Total(edgelen') = SumFunctionOnSet(E, S \cup {m})
  <2>1. AreLengths(EdgesOf(edgelen, m)) /\ Total(EdgesOf(edgelen, m)) = Total(edgelen) + E[m]
    BY <1>2, <1>4, <1>5, EdgesMore
  <2>2. SumFunctionOnSet(E, S \cup {m}) = E[m] + SumFunctionOnSet(E, S)
    <3>1. IsFiniteSet(S \cup {m}) /\ (S \cup {m}) \ {m} = S
      BY <1>3, FS_AddElement
    <3>2. \A i \in S \cup {m} : E[i] \in Int
      BY <1>2, <1>3, <1>4, FanoutsAreInts
    <3> QED
      BY <3>1, <3>2, SumWithout
  <2>3. E[m] \in Int /\ SumFunctionOnSet(E, S) \in Int
    <3>1. \A i \in S \cup {m} : E[i] \in Int
      BY <1>2, <1>3, <1>4, FanoutsAreInts
    <3> QED
      BY <1>3, <3>1, SumWithout
  <2>4. Total(edgelen') = SumFunctionOnSet(E, S \cup {m})
    BY <1>2, <1>5, <2>1, <2>2, <2>3
  <2>5. AreLengths(edgelen')
    BY <1>2, <2>1
  <2> QED
    BY <2>4, <2>5
<1>9. AreLengths(edgelen)' /\ Total(edgelen)' = Total(edgelen')
  <2>1. \A i, j : Length(i, j)' = Length(i, j)
    BY <1>2 DEF Length, binSize
  <2>2. \A i : Loads(i)' = Loads(i)
    BY <1>2 DEF Loads, EdgesTo, Terms, DrivenBy, Nets
  <2>3. AreLengths(edgelen)' <=> AreLengths(edgelen')
    BY <2>1, <2>2 DEF AreLengths
  <2> QED
    BY <1>8, <2>3 DEF Total
<1>10. HistsExact'
  BY <1>3, <1>4, <1>6, <1>7, <1>8, <1>9 DEF HistsExact
<1>11. \A i : SharedOutput(i)' <=> SharedOutput(i)
  BY <1>2 DEF SharedOutput, DrivenBy, Nets
<1>12. \A i \in Measured' : ~ SharedOutput(i)'
  BY <1>2, <1>3, <1>11
<1> QED
  BY <1>1, <1>2, <1>10, <1>12, InstancesCounted DEF MeasureInv

\* Once measured the histograms stay.
LEMMA MeasureEndInv ==
  ASSUME MeasureInv,
         InvalidOutput \/ NoBinSize \/ WriteLines \/ ReadSpec \/ UNCHANGED measureVars
  PROVE  MeasureInv'
<1>1. /\ design' = design /\ next' = next
      /\ fanin' = fanin /\ bbox' = bbox /\ edgelen' = edgelen
  BY DEF InvalidOutput, NoBinSize, WriteLines, ReadSpec, measureVars, hists
<1>2. Measured' = Measured /\ HistsExact' = HistsExact
  <2>1. Measured' = Measured
    BY <1>1 DEF Measured
  <2>2. FaninOf' = FaninOf /\ BoxOf' = BoxOf /\ FanoutOf' = FanoutOf
    BY <1>1 DEF FaninOf, numFanins, Nets, BoxOf, bboxSize, Box, OnNet, Terms, DrivenBy, binSize,
                FanoutOf, numFanouts, EdgesTo
  <2>3. AreLengths(edgelen)' = AreLengths(edgelen)
    BY <1>1 DEF AreLengths, Length, binSize, Loads, EdgesTo, Terms, DrivenBy, Nets
  <2>4. /\ IsTally(fanin, Measured, FaninOf)' = IsTally(fanin, Measured, FaninOf)
        /\ IsTally(bbox, Measured, BoxOf)' = IsTally(bbox, Measured, BoxOf)
        /\ Total(edgelen)' = Total(edgelen)
    BY <1>1, <2>1, <2>2 DEF IsTally, Total
  <2> QED
    BY <2>1, <2>2, <2>3, <2>4 DEF HistsExact
<1>3. \A i : SharedOutput(i)' <=> SharedOutput(i)
  BY <1>1 DEF SharedOutput, DrivenBy, Nets
<1>4. LinesSum(fanin, maxFanins)' = LinesSum(fanin, maxFanins)
  BY <1>1 DEF LinesSum, Count, maxFanins
<1>5. phase' \in {"sort", "read"} => next' = numInsts + 1
  <2>1. CASE WriteLines
    BY <1>1, <2>1, InstancesCounted DEF WriteLines, MeasureInv
  <2>2. CASE ReadSpec
    BY <1>1, <2>2 DEF ReadSpec, MeasureInv
  <2>3. CASE InvalidOutput \/ NoBinSize
    BY <2>3 DEF InvalidOutput, NoBinSize
  <2>4. CASE UNCHANGED measureVars
    BY <1>1, <2>4 DEF measureVars, MeasureInv
  <2> QED
    BY <2>1, <2>2, <2>3, <2>4
<1>6. phase' = "read" => instanceCnt' = LinesSum(fanin, maxFanins)'
  <2>1. CASE ReadSpec
    BY <1>4, <2>1 DEF ReadSpec
  <2>2. CASE InvalidOutput \/ NoBinSize \/ WriteLines
    BY <2>2 DEF InvalidOutput, NoBinSize, WriteLines
  <2>3. CASE UNCHANGED measureVars
    BY <1>4, <2>3 DEF measureVars, MeasureInv
  <2> QED
    BY <2>1, <2>2, <2>3
<1>7. phase' \in {"measure", "sort", "read", "exit", "crash"}
  BY DEF InvalidOutput, NoBinSize, WriteLines, ReadSpec, measureVars, MeasureInv
<1> QED
  BY <1>1, <1>2, <1>3, <1>5, <1>6, <1>7 DEF MeasureInv

WriteSpecInv == MeasureInv /\ IInv

\* write_spec begins with the graph of its design.
LEMMA InitInv == Init => WriteSpecInv
<1> SUFFICES ASSUME Init PROVE WriteSpecInv
  OBVIOUS
<1>1. MeasureInv /\ OrderInit(GraphOf(design))
  BY MeasureInitInv DEF Init
<1>2. IsGraph(GraphOf(design))
  BY <1>1, GraphOfDesign DEF MeasureInv
<1> QED
  BY <1>1, <1>2, OrderInitInv DEF WriteSpecInv

\* Measuring leaves the sort alone, and sorting the histograms.
LEMMA NextInv == WriteSpecInv /\ [Next]_vars => WriteSpecInv'
<1> SUFFICES ASSUME WriteSpecInv, [Next]_vars PROVE WriteSpecInv'
  OBVIOUS
<1>1. MeasureInv /\ IInv
  BY DEF WriteSpecInv
<1>2. MeasureInv'
  <2>1. \/ Measure
        \/ InvalidOutput \/ NoBinSize \/ WriteLines \/ ReadSpec \/ UNCHANGED measureVars
    BY DEF Next, MeasureNext, vars
  <2> QED
    BY <1>1, <2>1, MeasureInstInv, MeasureEndInv
<1>3. IInv'
  <2>1. [OrderNext]_orderVars
    BY DEF Next, vars
  <2> QED
    BY <1>1, <2>1, OrderNextInv
<1> QED
  BY <1>2, <1>3 DEF WriteSpecInv

\* Every state of write_spec meets the invariant.
LEMMA AlwaysWriteSpecInv == Spec => []WriteSpecInv
BY InitInv, NextInv, PTL DEF Spec
-----------------------------------------------------------------------------
\* The instances read back are those measured but for the ones without a line.
LEMMA InvInstancesKept == WriteSpecInv => InstancesKept
<1> SUFFICES ASSUME MeasureInv, phase = "read"
             PROVE  instanceCnt = numInsts - Cardinality({i \in Inst : numFanins(i) > FaninLimit})
  BY DEF WriteSpecInv, InstancesKept
<1> DEFINE kept == Having(Inst, FaninOf, 0..maxFanins)
           lost == {i \in Inst : numFanins(i) > FaninLimit}
<1>1. /\ design \in Designs /\ Measured = Inst
      /\ instanceCnt = LinesSum(fanin, maxFanins) /\ IsTally(fanin, Inst, FaninOf)
  BY InstancesCounted DEF MeasureInv, HistsExact, Measured
<1>2. maxFanins \in Nat /\ maxFanins = IF FaninLimit < MaxInSigCnt THEN FaninLimit ELSE MaxInSigCnt
  BY DesignAssumption DEF maxFanins, Smaller
<1>3. instanceCnt = Cardinality(kept)
  BY <1>1, <1>2, InstancesCounted, LinesOfTally
<1>4. ASSUME NEW i \in Inst PROVE i \in kept <=> i \notin lost
  <2>1. FaninOf[i] \in 0..MaxInSigCnt /\ FaninOf[i] = numFanins(i)
    BY <1>1, CountsAreNumbers DEF FaninOf
  <2>2. i \in kept <=> FaninOf[i] <= maxFanins
    BY <1>2, <2>1, DesignAssumption DEF Having
  <2>3. i \in lost <=> ~ (FaninOf[i] <= FaninLimit)
    BY <2>1, DesignAssumption
  <2> QED
    BY <1>2, <2>1, <2>2, <2>3, DesignAssumption
<1>5. kept = Inst \ lost /\ lost \in SUBSET Inst
  BY <1>4 DEF Having
<1> HIDE DEF kept, lost
<1>6. Cardinality(Inst \ lost) = Cardinality(Inst) - Cardinality(lost)
  <2>1. IsFiniteSet(Inst) /\ Inst \cap lost = lost
    BY <1>5, InstancesCounted
  <2> QED
    BY <2>1, FS_Difference
<1> QED
  BY <1>3, <1>5, <1>6 DEF numInsts, lost

\* Both histograms are complete when the file is read.
LEMMA InvEdgesBalance == WriteSpecInv => EdgesBalance
<1> SUFFICES ASSUME MeasureInv PROVE EdgesBalance
  BY DEF WriteSpecInv
<1> DEFINE Undriven == {n \in Nets : design.nets[n].outs = {}}
           signals == [n \in Nets |-> SumFunction(design.nets[n].ins)]
           controls == [n \in Nets |-> SumFunction(design.nets[n].ctl)]
<1>1. ASSUME phase = "read"
      PROVE  Total(edgelen) + SumFunctionOnSet(signals, Undriven)
               = SumFunction([v \in DOMAIN fanin |-> v * fanin[v]])
                   + SumFunctionOnSet(controls, Nets \ Undriven)
  <2>1. /\ design \in Designs /\ IsTally(fanin, Inst, FaninOf)
        /\ Total(edgelen) = SumFunctionOnSet(FanoutOf, Inst)
        /\ \A i \in Inst : ~ SharedOutput(i)
    BY <1>1, InstancesCounted DEF MeasureInv, HistsExact, Measured
  <2>2. \A i \in Inst : FaninOf[i] \in Int
    BY <2>1, CountsAreNumbers
  <2>3. SumFunction([v \in DOMAIN fanin |-> v * fanin[v]]) = SumFunctionOnSet(FaninOf, Inst)
    BY <2>1, <2>2, InstancesCounted, WeightOfTally
  <2> QED
    BY <2>1, <2>3, SidesBalance
<1> QED
  BY <1>1 DEF EdgesBalance

\* A value of instances in the core is not larger than the last line.
LEMMA InvLengthsWritten == WriteSpecInv => LengthsWritten
<1> DEFINE FarEdge == \E i \in Inst : \E j \in Loads(i) :
                        Length(i, j) > maxLength /\ (Outside(i) \/ Outside(j))
           FarBox == \E i \in Inst : bboxSize(i) > maxLength /\ \E j \in Box(i) : Outside(j)
<1> SUFFICES ASSUME MeasureInv, phase = "read", RoomEnough
             PROVE  /\ ~ FarEdge => LinesSum(edgelen, maxLength) = Total(edgelen)
                    /\ ~ FarBox => LinesSum(bbox, maxLength) = numInsts
  BY DEF WriteSpecInv, LengthsWritten, RoomEnough
<1>1. /\ design \in Designs /\ AreLengths(edgelen) /\ IsTally(bbox, Inst, BoxOf)
  BY InstancesCounted DEF MeasureInv, HistsExact, Measured
<1>2. /\ maxLength \in Nat
      /\ \A i, j \in Inst :
           /\ Length(i, j) \in Nat
           /\ ~ Outside(i) /\ ~ Outside(j) => Length(i, j) <= maxLength
      /\ \A i \in Inst :
           /\ BoxOf[i] \in Nat
           /\ (\A j \in Box(i) : ~ Outside(j)) => BoxOf[i] <= maxLength
  BY <1>1, ValuesHaveLines
<1>3. ASSUME ~ FarEdge PROVE LinesSum(edgelen, maxLength) = Total(edgelen)
  <2>1. ASSUME NEW i \in Inst, NEW j \in Loads(i) PROVE Length(i, j) \in 0..maxLength
    <3>1. j \in Inst
      BY DEF Loads
    <3> QED
      BY <1>2, <1>3, <3>1
  <2>2. /\ IsFiniteSet(0..maxLength) /\ DOMAIN edgelen \subseteq 0..maxLength
        /\ \A v \in DOMAIN edgelen : edgelen[v] \in Int
    <3>1. IsFiniteSet(0..maxLength)
      BY <1>2, FS_Interval
    <3> QED
      BY <1>1, <2>1, <3>1 DEF AreLengths
  <2>3. SumFunctionOnSet([v \in 0..maxLength |-> Count(edgelen, v)], 0..maxLength) = Total(edgelen)
    BY <2>2, TotalOnMore
  <2> QED
    BY <2>3 DEF LinesSum, SumFunction
<1>4. ASSUME ~ FarBox PROVE LinesSum(bbox, maxLength) = numInsts
  <2>1. ASSUME NEW i \in Inst PROVE BoxOf[i] \in 0..maxLength
    <3>1. BoxOf[i] = bboxSize(i)
      BY DEF BoxOf
    <3> QED
      BY <1>2, <1>4, <3>1
  <2>2. LinesSum(bbox, maxLength) = Cardinality(Having(Inst, BoxOf, 0..maxLength))
    BY <1>1, <1>2, InstancesCounted, LinesOfTally
  <2>3. Having(Inst, BoxOf, 0..maxLength) = Inst
    BY <2>1 DEF Having
  <2> QED
    BY <2>2, <2>3 DEF numInsts
<1> QED
  BY <1>3, <1>4

\* Whatever design write_spec measures, readSpec makes of the file as many
\* instances as have at most FANIN_LIMIT inputs: the others are lost.
THEOREM AlwaysInstancesKept == Spec => []InstancesKept
BY AlwaysWriteSpecInv, InvInstancesKept, PTL

\* The EDGE_LENGTH and the FANIN histograms of a file count the same connections,
\* from the two ends of each net, but for nets that no instance drives and the
\* clock and reset inputs.
THEOREM AlwaysEdgesBalance == Spec => []EdgesBalance
BY AlwaysWriteSpecInv, InvEdgesBalance, PTL

\* In a core that is large against the layout a length or a box falls behind the
\* last line of the file only for an instance outside the core, although bins
\* are rounded down.
THEOREM AlwaysLengthsWritten == Spec => []LengthsWritten
BY AlwaysWriteSpecInv, InvLengthsWritten, PTL

\* analyzeTopologicalOrder finds the depth of every node of the graph that it
\* builds of the design, whatever the histograms are measured to be meanwhile.
THEOREM AlwaysOrderExact == Spec => []OrderExact
<1>1. WriteSpecInv => OrderExact
  BY InvOrderExact DEF WriteSpecInv
<1> QED
  BY <1>1, AlwaysWriteSpecInv, PTL
=============================================================================
