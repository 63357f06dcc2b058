------------------------ MODULE GainMatching_proofs -------------------------
(***************************************************************************)
(* Proofs about matching, for every netlist, layout and target.            *)
(*                                                                         *)
(* The first part is about EdgeMatching.  Its inductive invariant is type  *)
(* correctness together with Mirrored, DegreesBounded and EdgesAhead:      *)
(* every edge leads ahead, from a node that may be a source to a node that *)
(* may be a sink.  Acyclic follows from EdgesAhead alone, by choosing in a *)
(* set of nodes one that is first in layout order and, there, first in     *)
(* address order.                                                          *)
(*                                                                         *)
(* The second part proves that distMatching, in all its detail, draws only *)
(* edges that EdgeMatching allows.  A round reads the lists of the bins    *)
(* instead of the degrees, so the inductive invariant adds that lists and  *)
(* boxes follow the graph.  What the gains prefer does not matter for it:  *)
(* a winner is one of the candidates, and those are Connectable.           *)
(*                                                                         *)
(* The third part is about the counts of the distributions, which          *)
(* distMatching keeps by hand while the gains are computed from them: they *)
(* are the histograms of the netlist after every round.  The fourth is     *)
(* about the gains: the reward for a first driver or load outweighs them.  *)
(***************************************************************************)
EXTENDS GainMatching, Common_proofs

\* Every edge drawn so far satisfies the part of Connectable that does not
\* depend on the state.
EdgesAhead ==
  \A u, v \in Node :
    HasConnection(u, v) =>
      Ahead(u, v) /\ Type[u] # "PrimaryOut" /\ Type[v] # "PrimaryIn"

IInv == TypeOK /\ Mirrored /\ DegreesBounded /\ EdgesAhead
-----------------------------------------------------------------------------
\* Appending adds one element to the range of a vector.
LEMMA RangeOfAppend ==
  ASSUME NEW S, NEW s \in Seq(S), NEW e
  PROVE  Range(Append(s, e)) = Range(s) \cup {e}
<1>1. DOMAIN Append(s, e) = DOMAIN s \cup {Len(s) + 1}
  OBVIOUS
<1>2. \A i \in DOMAIN s : Append(s, e)[i] = s[i]
  OBVIOUS
<1>3. Append(s, e)[Len(s) + 1] = e
  OBVIOUS
<1> QED
  BY <1>1, <1>2, <1>3 DEF Range

\* Appending a new element keeps a vector free of repetitions.
LEMMA AppendInjectiveSeq ==
  ASSUME NEW S, NEW s \in Seq(S), NEW e, IsInjective(s), e \notin Range(s)
  PROVE  IsInjective(Append(s, e))
<1>1. \A i \in DOMAIN s : Append(s, e)[i] = s[i] /\ s[i] # e
  BY DEF Range
<1>2. Append(s, e)[Len(s) + 1] = e
  OBVIOUS
<1>3. DOMAIN Append(s, e) = DOMAIN s \cup {Len(s) + 1}
  OBVIOUS
<1> QED
  BY <1>1, <1>2, <1>3 DEF IsInjective

\* What one Connect does to the adjacency of every pair of nodes.
LEMMA ConnectRanges ==
  ASSUME TypeOK, NEW u \in Node, NEW v \in Node, Link(u, v), NEW n \in Node
  PROVE  /\ Range(sinks'[n]) =
              IF n = u THEN Range(sinks[n]) \cup {v} ELSE Range(sinks[n])
         /\ Range(sources'[n]) =
              IF n = v THEN Range(sources[n]) \cup {u} ELSE Range(sources[n])
<1>1. sinks[n] \in Seq(Node) /\ sources[n] \in Seq(Node)
  BY DEF TypeOK
<1>2. sinks'[n] = IF n = u THEN Append(sinks[n], v) ELSE sinks[n]
  BY DEF TypeOK, Link
<1>3. sources'[n] = IF n = v THEN Append(sources[n], u) ELSE sources[n]
  BY DEF TypeOK, Link
<1> QED
  BY <1>1, <1>2, <1>3, RangeOfAppend
-----------------------------------------------------------------------------
\* The empty netlist satisfies the invariant.
LEMMA InitInv == Init => IInv
<1> SUFFICES ASSUME Init PROVE IInv
  OBVIOUS
<1>1. \A n \in Node : sources[n] = <<>> /\ sinks[n] = <<>>
  BY DEF Init
<1>2. \A n \in Node : Range(sources[n]) = {} /\ Range(sinks[n]) = {}
  BY <1>1 DEF Range
<1>3. TypeOK
  BY DEF Init, TypeOK
<1>4. Mirrored
  <2>1. IsInjective(<<>>)
    BY DEF IsInjective
  <2> QED
    BY <1>1, <1>2, <2>1 DEF Mirrored
<1>5. DegreesBounded
  BY <1>1, DegreeAssumption DEF DegreesBounded
<1>6. EdgesAhead
  BY <1>2 DEF EdgesAhead, HasConnection
<1> QED
  BY <1>3, <1>4, <1>5, <1>6 DEF IInv

\* Drawing one edge preserves the invariant.
LEMMA ConnectInv ==
  ASSUME IInv, NEW u \in Node, NEW v \in Node, Connect(u, v)
  PROVE  IInv'
<1> USE DEF IInv
<1>1. Connectable(u, v) /\ Link(u, v)
  BY DEF Connect
<1>2. TypeOK'
  BY <1>1 DEF TypeOK, Link
<1>3. ASSUME NEW n \in Node
      PROVE  /\ Range(sinks'[n]) =
                  IF n = u THEN Range(sinks[n]) \cup {v} ELSE Range(sinks[n])
             /\ Range(sources'[n]) =
                  IF n = v THEN Range(sources[n]) \cup {u} ELSE Range(sources[n])
  <2>1. TypeOK /\ Link(u, v)
    BY <1>1
  <2> QED
    BY <2>1, ConnectRanges
<1>4. u \notin Range(sources[v]) /\ v \notin Range(sinks[u])
  BY <1>1 DEF Connectable, HasConnection, Mirrored
<1>5. Mirrored'
  <2>1. \A m, n \in Node : n \in Range(sinks'[m]) <=> m \in Range(sources'[n])
    <3>1. ASSUME NEW m \in Node, NEW n \in Node
          PROVE  n \in Range(sinks'[m]) <=> m \in Range(sources'[n])
      <4>1. Range(sinks'[m]) =
              IF m = u THEN Range(sinks[m]) \cup {v} ELSE Range(sinks[m])
        BY <1>3
      <4>2. Range(sources'[n]) =
              IF n = v THEN Range(sources[n]) \cup {u} ELSE Range(sources[n])
        BY <1>3
      <4>3. n \in Range(sinks[m]) <=> m \in Range(sources[n])
        BY DEF Mirrored
      <4> QED
        BY <4>1, <4>2, <4>3
    <3> QED
      BY <3>1
  <2>2. ASSUME NEW n \in Node PROVE IsInjective(sinks'[n])
    <3>1. CASE n = u
      <4>1. sinks'[n] = Append(sinks[u], v) /\ sinks[u] \in Seq(Node)
        BY <1>1, <3>1 DEF Link, TypeOK
      <4> QED
        BY <4>1, <1>4, AppendInjectiveSeq DEF Mirrored
    <3>2. CASE n # u
      BY <1>1, <3>2 DEF Link, TypeOK, Mirrored
    <3> QED
      BY <3>1, <3>2
  <2>3. ASSUME NEW n \in Node PROVE IsInjective(sources'[n])
    <3>1. CASE n = v
      <4>1. sources'[n] = Append(sources[v], u) /\ sources[v] \in Seq(Node)
        BY <1>1, <3>1 DEF Link, TypeOK
      <4> QED
        BY <4>1, <1>4, AppendInjectiveSeq DEF Mirrored
    <3>2. CASE n # v
      BY <1>1, <3>2 DEF Link, TypeOK, Mirrored
    <3> QED
      BY <3>1, <3>2
  <2> QED
    BY <2>1, <2>2, <2>3 DEF Mirrored
<1>6. DegreesBounded'
  <2> SUFFICES ASSUME NEW n \in Node
               PROVE /\ Len(sources'[n]) <= MaxFanin
                     /\ Len(sinks'[n]) <= MaxFanout
                     /\ Type[n] = "PrimaryIn" => sources'[n] = <<>>
                     /\ Type[n] = "PrimaryOut" =>
                          Len(sources'[n]) <= 1 /\ sinks'[n] = <<>>
    BY DEF DegreesBounded
  <2>1. sinks[n] \in Seq(Node) /\ sources[n] \in Seq(Node)
    BY DEF TypeOK
  <2>2. \/ n = v /\ sources'[n] = Append(sources[n], u)
        \/ n # v /\ sources'[n] = sources[n]
    BY <1>1 DEF Link, TypeOK
  <2>3. \/ n = u /\ sinks'[n] = Append(sinks[n], v)
        \/ n # u /\ sinks'[n] = sinks[n]
    BY <1>1 DEF Link, TypeOK
  <2>4. n = v => /\ Type[n] # "PrimaryIn"
                 /\ Type[n] = "PrimaryOut" => Len(sources[n]) = 0
                 /\ Len(sources[n]) < MaxFanin
    BY <1>1 DEF Connectable, SinkOpen
  <2>5. n = u => Type[n] # "PrimaryOut" /\ Len(sinks[n]) < MaxFanout
    BY <1>1 DEF Connectable, SourceOpen
  <2> QED
    BY <2>1, <2>2, <2>3, <2>4, <2>5, DegreeAssumption DEF DegreesBounded
<1>7. EdgesAhead'
  <2>1. Ahead(u, v) /\ Type[u] # "PrimaryOut" /\ Type[v] # "PrimaryIn"
    BY <1>1 DEF Connectable, SourceOpen, SinkOpen
  <2>2. ASSUME NEW m \in Node, NEW n \in Node, n \in Range(sinks'[m])
        PROVE  Ahead(m, n) /\ Type[m] # "PrimaryOut" /\ Type[n] # "PrimaryIn"
    <3>1. n \in Range(sinks[m]) \/ (m = u /\ n = v)
      BY <1>3, <2>2
    <3> QED
      BY <2>1, <3>1 DEF EdgesAhead, HasConnection
  <2> QED
    BY <2>2 DEF EdgesAhead, HasConnection, Ahead, SameBin
<1> QED
  BY <1>2, <1>5, <1>6, <1>7

\* The invariant is inductive.
LEMMA NextInv == IInv /\ [Next]_vars => IInv'
<1> SUFFICES ASSUME IInv, [Next]_vars PROVE IInv'
  OBVIOUS
<1>1. CASE Next
  BY <1>1, ConnectInv DEF Next
<1>2. CASE UNCHANGED vars
  <2>1. sources' = sources /\ sinks' = sinks
    BY <1>2 DEF vars
  <2>2. TypeOK' /\ Mirrored'
    BY <2>1 DEF IInv, TypeOK, Mirrored
  <2>3. DegreesBounded' /\ EdgesAhead'
    BY <2>1 DEF IInv, DegreesBounded, EdgesAhead, HasConnection, Ahead, SameBin
  <2> QED
    BY <2>2, <2>3 DEF IInv
<1> QED
  BY <1>1, <1>2
-----------------------------------------------------------------------------
\* A non-empty set has a member at which a function into the naturals is least.
LEMMA LeastValue ==
  ASSUME NEW S, S # {}, NEW f, \A n \in S : f[n] \in Nat
  PROVE  \E n \in S : \A m \in S : f[n] <= f[m]
<1> DEFINE V == {f[n] : n \in S}
<1>1. V \in SUBSET Nat /\ V # {}
  OBVIOUS
<1> DEFINE Less == {p \in Nat \X Nat : p[1] < p[2]}
<1>2. IsWellFoundedOn(Less, Nat)
  BY NatLessThanWellFounded DEF OpToRel
<1>3. PICK x \in V : \A y \in V : <<y, x>> \notin Less
  <2> HIDE DEF V, Less
  <2> QED
    BY <1>1, <1>2, WFMin
<1>4. ASSUME NEW y \in V PROVE x <= y
  <2>1. <<y, x>> \notin Less
    BY <1>3
  <2> QED
    BY <1>1, <2>1
<1> QED
  BY <1>4

\* Edges that lead ahead close no loop.
LEMMA AheadAcyclic == TypeOK /\ Mirrored /\ EdgesAhead => Acyclic
<1> SUFFICES ASSUME TypeOK, Mirrored, EdgesAhead,
                    NEW S \in SUBSET Node, S # {}
             PROVE  \E n \in S : \A m \in S : m \notin Range(sources[n])
  BY DEF Acyclic
<1>1. \A m \in Node, n \in Node :
        m \in Range(sources[n]) => Ahead(m, n) /\ Type[m] # "PrimaryOut"
  BY DEF Mirrored, EdgesAhead, HasConnection
<1> DEFINE D == {n \in S : Type[n] # "PrimaryOut"}
<1>2. CASE D = {}
  BY <1>1, <1>2
<1>3. CASE D # {}
  <2> DEFINE rank == [n \in Node |-> X[n] + Y[n]]
  <2>1. PICK a \in D : \A m \in D : rank[a] <= rank[m]
    <3>1. \A n \in D : rank[n] \in Nat
      BY PlaceAssumption
    <3> HIDE DEF D, rank
    <3> QED
      BY <1>3, <3>1, LeastValue
  <2> DEFINE E == {n \in D : SameBin(n, a)}
  <2>2. PICK b \in E : \A m \in E : Addr[b] <= Addr[m]
    <3>1. \A n \in E : Addr[n] \in Nat
      BY PlaceAssumption
    <3>2. E # {}
      BY DEF SameBin
    <3> HIDE DEF E
    <3> QED
      BY <3>1, <3>2, LeastValue
  <2>3. ASSUME NEW m \in S, m \in Range(sources[b]) PROVE FALSE
    <3>1. Ahead(m, b) /\ m \in D
      BY <1>1, <2>3
    <3>2. X[m] + Y[m] >= X[b] + Y[b]
      BY <2>1, <3>1, PlaceAssumption DEF SameBin
    <3>3. SameBin(m, b)
      BY <3>1, <3>2, PlaceAssumption DEF Ahead, SameBin
    <3>4. m \in E
      BY <3>1, <3>3 DEF SameBin
    <3>5. Addr[m] < Addr[b]
      BY <3>1, <3>3 DEF Ahead
    <3> QED
      BY <2>2, <3>4, <3>5, PlaceAssumption
  <2> QED
    BY <2>3
<1> QED
  BY <1>2, <1>3
-----------------------------------------------------------------------------
\* In every run of the matching loop the source and sink vectors hold nodes.
THEOREM TypeCorrect == Spec => []TypeOK
<1>1. IInv => TypeOK
  BY DEF IInv
<1> QED
  BY <1>1, InitInv, NextInv, PTL DEF Spec

\* The two vectors of the nodes store the same graph, each edge once.
THEOREM AlwaysMirrored == Spec => []Mirrored
<1>1. IInv => Mirrored
  BY DEF IInv
<1> QED
  BY <1>1, InitInv, NextInv, PTL DEF Spec

\* Degrees stay inside the ranges of the distributions and of the pin rules.
THEOREM AlwaysBounded == Spec => []DegreesBounded
<1>1. IInv => DegreesBounded
  BY DEF IInv
<1> QED
  BY <1>1, InitInv, NextInv, PTL DEF Spec

\* Matching never draws a loop, for any placement, typing and address order.
THEOREM AlwaysAcyclic == Spec => []Acyclic
<1>1. IInv => Acyclic
  BY AheadAcyclic DEF IInv
<1> QED
  BY <1>1, InitInv, NextInv, PTL DEF Spec
-----------------------------------------------------------------------------
\* The lists of the bins follow the degrees.
ListsExact ==
  /\ fanin \in [Node -> Nat] /\ fanout \in [Node -> Nat]
  /\ \A n \in Node : fanin[n] = Len(sources[n]) /\ fanout[n] = Len(sinks[n])

\* The nodes a net reaches, its driver among them
Reached(n) == {n} \cup Range(sinks[n])

\* A lower and an upper edge of a box, each touched by a node of the net
Bounds(lo, hi, At, nodes) ==
  /\ lo \in {At[m] : m \in nodes} /\ hi \in {At[m] : m \in nodes}
  /\ \A m \in nodes : lo <= At[m] /\ At[m] <= hi

BoxesTight ==
  /\ box \in [Node -> [lx : Nat, ly : Nat, ux : Nat, uy : Nat]]
  /\ \A n \in Node : /\ Bounds(box[n].lx, box[n].ux, X, Reached(n))
                     /\ Bounds(box[n].ly, box[n].uy, Y, Reached(n))

GainInv == IInv /\ ListsExact /\ BoxesTight
-----------------------------------------------------------------------------
\* A pair that wins a round comes from a source of a bin and one of the sinks
\* that survive the `continue's for it, len bins ahead.
LEMMA WinnerIsCandidate ==
  ASSUME NEW len, NEW p \in Winners(len)
  PROVE  \E b \in Bins : \E s \in SinkBins(b, len) : \E fo \in 0..(MaxFanout - 1) :
           p.src \in SourcesWith(b, fo) /\ p.sink \in SinksFor(p.src, s)
<1>1. PICK b \in Bins, s \in Bins : s \in SinkBins(b, len) /\ p \in MaxGain(b, s)
  BY DEF Winners
<1>2. PICK fo \in 0..(MaxFanout - 1) : \E u \in BestSources(b, s, fo) : p \in BestPairs(u, s)
  BY <1>1 DEF MaxGain
<1>3. PICK u \in BestSources(b, s, fo) : p \in BestPairs(u, s)
  BY <1>2
<1>4. u \in SourcesWith(b, fo)
  BY <1>3 DEF BestSources
<1>5. p.src = u /\ p.sink \in SinksFor(u, s)
  BY <1>3 DEF BestPairs
<1> QED
  BY <1>1, <1>2, <1>4, <1>5

\* What the lists and the mirrored edges say of a candidate makes it Connectable.
LEMMA WinnerConnectable ==
  ASSUME GainInv, NEW len \in Lengths, NEW p \in Winners(len)
  PROVE  p.src \in Node /\ p.sink \in Node /\ Connectable(p.src, p.sink)
<1>1. PICK b \in Bins, fo \in 0..(MaxFanout - 1) : \E s \in SinkBins(b, len) :
        p.src \in SourcesWith(b, fo) /\ p.sink \in SinksFor(p.src, s)
  BY WinnerIsCandidate
<1>2. PICK s \in SinkBins(b, len) :
        p.src \in SourcesWith(b, fo) /\ p.sink \in SinksFor(p.src, s)
  BY <1>1
<1> DEFINE u == p.src
           v == p.sink
<1>3. /\ u \in Node /\ b = BinOf(u) /\ fanout[u] = fo /\ Type[u] # "PrimaryOut"
      /\ v \in Node /\ s = BinOf(v) /\ fanin[v] < MaxFanin /\ Type[v] # "PrimaryIn"
  BY <1>2 DEF SourcesWith, SinksFor
<1>4. IF Type[v] = "PrimaryOut" THEN Len(sources[v]) = 0
      ELSE (BinOf(u) = s => Addr[u] < Addr[v]) /\ ~ HasConnection(u, v)
  BY <1>2 DEF SinksFor
<1> HIDE DEF u, v
<1>5. SourceOpen(u)
  <2>1. fo < MaxFanout
    BY DegreeAssumption
  <2> QED
    BY <1>3, <2>1 DEF SourceOpen, GainInv, ListsExact
<1>6. SinkOpen(v)
  BY <1>3, <1>4 DEF SinkOpen, GainInv, ListsExact
<1>7. Ahead(u, v)
  <2>1. X[u] <= X[v] /\ Y[u] <= Y[v]
    BY <1>2, <1>3, PlaceAssumption DEF SinkBins, BinOf
  <2>2. SameBin(u, v) => BinOf(u) = s
    BY <1>3 DEF SameBin, BinOf
  <2> QED
    BY <1>4, <2>1, <2>2 DEF Ahead
<1>8. ~ HasConnection(u, v)
  <2>1. CASE Type[v] = "PrimaryOut"
    <3>1. sources[v] = <<>>
      BY <1>3, <1>4, <2>1 DEF GainInv, IInv, TypeOK
    <3>2. Range(sources[v]) = {}
      BY <3>1 DEF Range
    <3> QED
      BY <1>3, <3>2 DEF GainInv, IInv, Mirrored, HasConnection
  <2>2. CASE Type[v] # "PrimaryOut"
    BY <1>4, <2>2
  <2> QED
    BY <2>1, <2>2
<1> QED
  BY <1>3, <1>5, <1>6, <1>7, <1>8 DEF Connectable, u, v
-----------------------------------------------------------------------------
\* A net reaches nodes.
LEMMA ReachedNodes == TypeOK => \A n \in Node : Reached(n) \subseteq Node
<1> SUFFICES ASSUME TypeOK, NEW n \in Node PROVE Reached(n) \subseteq Node
  OBVIOUS
<1>1. sinks[n] \in Seq(Node)
  BY DEF TypeOK
<1>2. \A i \in DOMAIN sinks[n] : sinks[n][i] \in Node
  BY <1>1
<1> QED
  BY <1>2 DEF Reached, Range

\* A box grown by a bin is bounded by the old net with the node in that bin.
LEMMA GrownBounds ==
  ASSUME NEW At, NEW nodes, NEW v, NEW lo \in Nat, NEW hi \in Nat,
         At[v] \in Nat, \A m \in nodes : At[m] \in Nat,
         Bounds(lo, hi, At, nodes)
  PROVE  Bounds(Least(lo, At[v]), Greatest(hi, At[v]), At, nodes \cup {v})
<1>1. Least(lo, At[v]) \in {lo, At[v]} /\ Greatest(hi, At[v]) \in {hi, At[v]}
  BY DEF Least, Greatest
<1>2. /\ Least(lo, At[v]) <= lo /\ Least(lo, At[v]) <= At[v]
      /\ hi <= Greatest(hi, At[v]) /\ At[v] <= Greatest(hi, At[v])
  BY DEF Least, Greatest
<1>3. Least(lo, At[v]) \in Nat /\ Greatest(hi, At[v]) \in Nat
  BY <1>1
<1>4. ASSUME NEW m \in nodes \cup {v}
      PROVE  Least(lo, At[v]) <= At[m] /\ At[m] <= Greatest(hi, At[v])
  <2>1. CASE m \in nodes
    <3>1. At[m] \in Nat /\ lo <= At[m] /\ At[m] <= hi
      BY <2>1 DEF Bounds
    <3> QED
      BY <1>2, <1>3, <3>1
  <2>2. CASE m = v
    BY <1>2, <2>2
  <2> QED
    BY <2>1, <2>2
<1> QED
  BY <1>1, <1>4 DEF Bounds

\* Connecting two nodes keeps the lists and boxes in step with the graph.
LEMMA ConnectNodesKeeps ==
  ASSUME GainInv, NEW u \in Node, NEW v \in Node, ConnectNodes(u, v)
  PROVE  ListsExact' /\ BoxesTight'
<1>1. Link(u, v) /\ UpdateBins(u, v)
  BY DEF ConnectNodes
<1>2. box' = [box EXCEPT ![u] = Grown(box[u], BinOf(v))]
  BY DEF ConnectNodes
<1>3. TypeOK /\ TypeOK'
  BY <1>1 DEF GainInv, IInv, TypeOK, Link
<1>4. ListsExact'
  <2>1. \A n \in Node : Len(sources'[n]) \in Nat /\ Len(sinks'[n]) \in Nat
    BY <1>3 DEF TypeOK
  <2>2. \A n \in Node : /\ n # v => sources'[n] = sources[n]
                        /\ n # u => sinks'[n] = sinks[n]
    BY <1>1, <1>3 DEF Link, TypeOK
  <2>3. /\ fanin' = [fanin EXCEPT ![v] = Len(sources'[v])]
        /\ fanout' = [fanout EXCEPT ![u] = Len(sinks'[u])]
    BY <1>1 DEF UpdateBins
  <2>4. /\ fanin \in [Node -> Nat] /\ fanout \in [Node -> Nat]
        /\ \A n \in Node : fanin[n] = Len(sources[n]) /\ fanout[n] = Len(sinks[n])
    BY DEF GainInv, ListsExact
  <2>5. fanin' \in [Node -> Nat] /\ fanout' \in [Node -> Nat]
    BY <2>1, <2>3, <2>4
  <2>6. ASSUME NEW n \in Node PROVE fanin'[n] = Len(sources'[n])
    <3>1. CASE n = v
      BY <2>3, <2>4, <3>1
    <3>2. CASE n # v
      <4>1. fanin'[n] = fanin[n]
        BY <2>3, <2>4, <3>2
      <4>2. sources'[n] = sources[n]
        BY <2>2, <3>2
      <4> QED
        BY <2>4, <4>1, <4>2
    <3> QED
      BY <3>1, <3>2
  <2>7. ASSUME NEW n \in Node PROVE fanout'[n] = Len(sinks'[n])
    <3>1. CASE n = u
      BY <2>3, <2>4, <3>1
    <3>2. CASE n # u
      <4>1. fanout'[n] = fanout[n]
        BY <2>3, <2>4, <3>2
      <4>2. sinks'[n] = sinks[n]
        BY <2>2, <3>2
      <4> QED
        BY <2>4, <4>1, <4>2
    <3> QED
      BY <3>1, <3>2
  <2> QED
    BY <2>5, <2>6, <2>7 DEF ListsExact
<1>5. BoxesTight'
  <2>1. ASSUME NEW n \in Node
        PROVE  Reached(n)' = IF n = u THEN Reached(n) \cup {v} ELSE Reached(n)
    <3>1. Range(sinks'[n]) = IF n = u THEN Range(sinks[n]) \cup {v} ELSE Range(sinks[n])
      BY <1>1, <1>3, ConnectRanges
    <3> QED
      BY <3>1 DEF Reached
  <2>2. \A n \in Node : X[n] \in Nat /\ Y[n] \in Nat /\ Reached(n) \subseteq Node
    BY <1>3, PlaceAssumption, ReachedNodes
  <2>3. box[u] \in [lx : Nat, ly : Nat, ux : Nat, uy : Nat]
    BY DEF GainInv, BoxesTight
  <2> DEFINE grown == Grown(box[u], BinOf(v))
  <2>4. /\ grown.lx = Least(box[u].lx, X[v]) /\ grown.ux = Greatest(box[u].ux, X[v])
        /\ grown.ly = Least(box[u].ly, Y[v]) /\ grown.uy = Greatest(box[u].uy, Y[v])
    BY DEF Grown, BinOf
  <2>5. grown \in [lx : Nat, ly : Nat, ux : Nat, uy : Nat]
    BY <2>2, <2>3 DEF Grown, BinOf, Least, Greatest
  <2>6. /\ Bounds(grown.lx, grown.ux, X, Reached(u) \cup {v})
        /\ Bounds(grown.ly, grown.uy, Y, Reached(u) \cup {v})
    <3>1. /\ Bounds(box[u].lx, box[u].ux, X, Reached(u))
          /\ Bounds(box[u].ly, box[u].uy, Y, Reached(u))
      BY DEF GainInv, BoxesTight
    <3>2. /\ box[u].lx \in Nat /\ box[u].ux \in Nat
          /\ box[u].ly \in Nat /\ box[u].uy \in Nat
      BY <2>3
    <3>3. /\ \A m \in Reached(u) : X[m] \in Nat /\ Y[m] \in Nat
          /\ X[v] \in Nat /\ Y[v] \in Nat
      BY <2>2
    <3>4. Bounds(Least(box[u].lx, X[v]), Greatest(box[u].ux, X[v]), X, Reached(u) \cup {v})
      BY <3>1, <3>2, <3>3, GrownBounds
    <3>5. Bounds(Least(box[u].ly, Y[v]), Greatest(box[u].uy, Y[v]), Y, Reached(u) \cup {v})
      BY <3>1, <3>2, <3>3, GrownBounds
    <3> QED
      BY <2>4, <3>4, <3>5
  <2>7. /\ box \in [Node -> [lx : Nat, ly : Nat, ux : Nat, uy : Nat]]
        /\ box' = [box EXCEPT ![u] = grown]
    BY <1>2 DEF GainInv, BoxesTight
  <2> HIDE DEF grown
  <2>8. ASSUME NEW n \in Node
        PROVE  /\ Bounds(box'[n].lx, box'[n].ux, X, Reached(n)')
               /\ Bounds(box'[n].ly, box'[n].uy, Y, Reached(n)')
    <3>1. CASE n = u
      BY <2>1, <2>6, <2>7, <3>1
    <3>2. CASE n # u
      <4>1. /\ Bounds(box[n].lx, box[n].ux, X, Reached(n))
            /\ Bounds(box[n].ly, box[n].uy, Y, Reached(n))
        BY DEF GainInv, BoxesTight
      <4>2. box'[n] = box[n] /\ Reached(n)' = Reached(n)
        BY <2>1, <2>7, <3>2
      <4> QED
        BY <4>1, <4>2
    <3> QED
      BY <3>1, <3>2
  <2>9. box' \in [Node -> [lx : Nat, ly : Nat, ux : Nat, uy : Nat]]
    BY <2>5, <2>7
  <2> QED
    BY <2>8, <2>9 DEF BoxesTight, Bounds
<1> QED
  BY <1>4, <1>5
-----------------------------------------------------------------------------
\* A round is a step of EdgeMatching.
LEMMA RoundConnects ==
  ASSUME GainInv, NEW len \in Lengths, Round(len)
  PROVE  Next /\ GainInv'
<1>1. PICK p \in Winners(len) : ConnectNodes(p.src, p.sink)
  BY DEF Round
<1>2. p.src \in Node /\ p.sink \in Node /\ Connectable(p.src, p.sink)
  BY WinnerConnectable
<1>3. Connect(p.src, p.sink)
  BY <1>1, <1>2 DEF Connect, ConnectNodes
<1>4. ListsExact' /\ BoxesTight'
  BY <1>1, <1>2, ConnectNodesKeeps
<1>5. IInv'
  BY <1>2, <1>3, ConnectInv DEF GainInv
<1> QED
  BY <1>2, <1>3, <1>4, <1>5 DEF Next, GainInv

\* Before the first edge all lists are those of degree 0 and all boxes points.
LEMMA GainInitInv == GainInit => Init /\ GainInv
<1> SUFFICES ASSUME GainInit PROVE Init /\ GainInv
  OBVIOUS
<1>1. Init
  BY DEF GainInit
<1>2. \A n \in Node : sources[n] = <<>> /\ sinks[n] = <<>>
  BY <1>1 DEF Init
<1>3. ListsExact
  BY <1>2 DEF GainInit, ListsExact
<1>4. BoxesTight
  <2>1. box = [n \in Node |-> [lx |-> X[n], ly |-> Y[n], ux |-> X[n], uy |-> Y[n]]]
    BY DEF GainInit
  <2>2. \A n \in Node : X[n] \in Nat /\ Y[n] \in Nat
    BY PlaceAssumption
  <2>3. \A n \in Node : Reached(n) = {n}
    BY <1>2 DEF Reached, Range
  <2>4. ASSUME NEW n \in Node
        PROVE  /\ Bounds(box[n].lx, box[n].ux, X, Reached(n))
               /\ Bounds(box[n].ly, box[n].uy, Y, Reached(n))
    BY <2>1, <2>2, <2>3 DEF Bounds
  <2> QED
    BY <2>1, <2>2, <2>4 DEF BoxesTight
<1> QED
  BY <1>1, <1>3, <1>4, InitInv DEF GainInv

\* Every step of distMatching is a step of EdgeMatching or leaves the graph alone.
LEMMA GainNextInv == GainInv /\ [GainNext]_allVars => [Next]_vars /\ GainInv'
<1> SUFFICES ASSUME GainInv, [GainNext]_allVars PROVE [Next]_vars /\ GainInv'
  OBVIOUS
<1>1. CASE GainNext
  BY <1>1, RoundConnects DEF GainNext
<1>2. CASE UNCHANGED allVars
  <2>1. UNCHANGED vars /\ UNCHANGED <<fanin, fanout, box>>
    BY <1>2 DEF allVars, vars, tables
  <2>2. IInv'
    BY <2>1, NextInv DEF GainInv
  <2>3. ListsExact' /\ BoxesTight'
    BY <2>1 DEF GainInv, ListsExact, BoxesTight, Bounds, Reached, vars
  <2> QED
    BY <2>1, <2>2, <2>3 DEF GainInv
<1> QED
  BY <1>1, <1>2

\* A bound that a value of the set touches is its least or greatest.
LEMMA BoundsAreExtremes ==
  ASSUME NEW At, NEW nodes, NEW lo, NEW hi,
         \A m \in nodes : At[m] \in Nat, Bounds(lo, hi, At, nodes)
  PROVE  lo = Min({At[m] : m \in nodes}) /\ hi = Max({At[m] : m \in nodes})
<1> DEFINE V == {At[m] : m \in nodes}
<1>1. V \subseteq Nat /\ lo \in V /\ hi \in V /\ \A y \in V : lo <= y /\ y <= hi
  BY DEF Bounds
<1> HIDE DEF V
<1>2. Min(V) \in V /\ \A y \in V : Min(V) <= y
  BY <1>1 DEF Min
<1>3. Max(V) \in V /\ \A y \in V : Max(V) >= y
  BY <1>1 DEF Max
<1>4. lo \in Nat /\ hi \in Nat /\ Min(V) \in Nat /\ Max(V) \in Nat
  BY <1>1, <1>2, <1>3
<1>5. lo = Min(V)
  BY <1>1, <1>2, <1>4
<1>6. hi = Max(V)
  BY <1>1, <1>3, <1>4
<1> QED
  BY <1>5, <1>6 DEF V

\* The invariant says what CachesExact says.
LEMMA InvCaches == GainInv => CachesExact
<1> SUFFICES ASSUME GainInv, NEW n \in Node
             PROVE  /\ fanin[n] = Len(sources[n]) /\ fanout[n] = Len(sinks[n])
                    /\ box[n] = [lx |-> Min({X[m] : m \in Reached(n)}),
                                 ly |-> Min({Y[m] : m \in Reached(n)}),
                                 ux |-> Max({X[m] : m \in Reached(n)}),
                                 uy |-> Max({Y[m] : m \in Reached(n)})]
  BY DEF CachesExact, Reached
<1>1. \A m \in Reached(n) : X[m] \in Nat /\ Y[m] \in Nat
  BY PlaceAssumption, ReachedNodes DEF GainInv, IInv
<1>2. /\ Bounds(box[n].lx, box[n].ux, X, Reached(n))
      /\ Bounds(box[n].ly, box[n].uy, Y, Reached(n))
      /\ box[n] \in [lx : Nat, ly : Nat, ux : Nat, uy : Nat]
  BY DEF GainInv, BoxesTight
<1>3. /\ box[n].lx = Min({X[m] : m \in Reached(n)})
      /\ box[n].ux = Max({X[m] : m \in Reached(n)})
  BY <1>1, <1>2, BoundsAreExtremes
<1>4. /\ box[n].ly = Min({Y[m] : m \in Reached(n)})
      /\ box[n].uy = Max({Y[m] : m \in Reached(n)})
  BY <1>1, <1>2, BoundsAreExtremes
<1>5. box[n] = [lx |-> box[n].lx, ly |-> box[n].ly, ux |-> box[n].ux, uy |-> box[n].uy]
  BY <1>2
<1> QED
  BY <1>3, <1>4, <1>5 DEF GainInv, ListsExact
-----------------------------------------------------------------------------
\* distMatching implements EdgeMatching: what it draws, EdgeMatching allows.
THEOREM MatchingRefined == GainSpec => ImplementsMatching
BY GainInitInv, GainNextInv, PTL DEF GainSpec, ImplementsMatching, Spec

\* Bins and boxes follow the graph, so getMaxGain never looks at a stale degree.
THEOREM AlwaysCachesExact == GainSpec => []CachesExact
BY GainInitInv, GainNextInv, InvCaches, PTL DEF GainSpec

\* The netlist distMatching leaves has no loop, whatever the gains preferred.
THEOREM GainMatchingAcyclic == GainSpec => []Acyclic
BY MatchingRefined, AlwaysAcyclic, PTL DEF ImplementsMatching
-----------------------------------------------------------------------------
\* How many nodes have each value, for a table indexed by values
Counts(count, f) == \A i \in DOMAIN count : count[i] = Cardinality({n \in Node : f[n] = i})

FaninOf == [n \in Node |-> Len(sources[n])]
FanoutOf == [n \in Node |-> Len(sinks[n])]
PerimeterOf == [n \in Node |-> HalfPerimeter(box[n])]

\* Every value is one its table has an entry for.
InRange ==
  /\ FaninOf \in [Node -> 0..MaxFanin] /\ FanoutOf \in [Node -> 0..MaxFanout]
  /\ PerimeterOf \in [Node -> Lengths]

CountsTyped ==
  /\ faninCount \in [0..MaxFanin -> Int] /\ fanoutCount \in [0..MaxFanout -> Int]
  /\ bboxCount \in [Lengths -> Int] /\ edgeCount \in [Lengths -> Int]

NodesCounted ==
  /\ Counts(faninCount, FaninOf)
  /\ Counts(fanoutCount, FanoutOf)
  /\ Counts(bboxCount, PerimeterOf)

EdgesCounted ==
  \A i \in Lengths : edgeCount[i] = Cardinality(EdgesOfLength(i))
                                      + IF i = 0 THEN TarEdgeCnt ELSE 0

CountsInv == GainInv /\ CountsTyped /\ NodesCounted /\ EdgesCounted
-----------------------------------------------------------------------------
\* Moving one node from a value to another moves the counts of the two.
LEMMA MoveCount ==
  ASSUME NEW D, NEW count \in [D -> Int], NEW f \in [Node -> D], NEW g \in [Node -> D],
         NEW v \in Node, \A n \in Node \ {v} : g[n] = f[n], Counts(count, f)
  PROVE  Move(count, f[v], g[v]) \in [D -> Int] /\ Counts(Move(count, f[v], g[v]), g)
<1> DEFINE a == f[v]
           b == g[v]
           moved == Move(count, a, b)
           With(h, i) == {n \in Node : h[n] = i}
<1>1. a \in D /\ b \in D
  OBVIOUS
<1>2. /\ moved \in [D -> Int]
      /\ \A i \in D : moved[i] = IF a = b THEN count[i]
                                 ELSE IF i = a THEN count[i] - 1
                                 ELSE IF i = b THEN count[i] + 1 ELSE count[i]
  <2> HIDE DEF a, b
  <2> QED
    BY <1>1 DEF Move
<1>3. \A i \in D : IsFiniteSet(With(f, i))
  BY NodeAssumption, FS_Subset
<1>4. \A i \in D : count[i] = Cardinality(With(f, i))
  BY DEF Counts
<1>5. ASSUME NEW i \in D
      PROVE  moved[i] = Cardinality(With(g, i))
  <2>1. CASE a = b \/ (i # a /\ i # b)
    <3>1. With(g, i) = With(f, i)
      BY <2>1
    <3>2. moved[i] = count[i]
      BY <1>2, <2>1
    <3> QED
      BY <1>4, <3>1, <3>2
  <2>2. CASE a # b /\ i = a
    <3>1. With(g, i) = With(f, i) \ {v} /\ v \in With(f, i)
      BY <2>2
    <3>2. Cardinality(With(g, i)) = Cardinality(With(f, i)) - 1
      <4>1. PICK S : S = With(f, i)
        OBVIOUS
      <4>2. IsFiniteSet(S) /\ v \in S
        BY <1>3, <3>1, <4>1
      <4>3. Cardinality(S \ {v}) = Cardinality(S) - 1
        BY <4>2, FS_RemoveElement
      <4> HIDE DEF With
      <4> QED
        BY <3>1, <4>1, <4>3
    <3>3. moved[i] = count[i] - 1
      BY <1>2, <2>2
    <3> QED
      BY <1>4, <3>2, <3>3
  <2>3. CASE a # b /\ i = b
    <3>1. With(g, i) = With(f, i) \cup {v} /\ v \notin With(f, i)
      BY <2>3
    <3>2. Cardinality(With(g, i)) = Cardinality(With(f, i)) + 1
      BY <1>3, <3>1, FS_AddElement
    <3>3. moved[i] = count[i] + 1
      BY <1>2, <2>3
    <3> QED
      BY <1>4, <3>2, <3>3
  <2> QED
    BY <2>1, <2>2, <2>3
<1> QED
  BY <1>2, <1>5 DEF Counts

\* A box has a half perimeter the histogram has an entry for.
LEMMA PerimeterInRange ==
  ASSUME GainInv, NEW n \in Node
  PROVE  HalfPerimeter(box[n]) \in Lengths
<1>1. /\ Bounds(box[n].lx, box[n].ux, X, Reached(n))
      /\ Bounds(box[n].ly, box[n].uy, Y, Reached(n))
      /\ box[n] \in [lx : Nat, ly : Nat, ux : Nat, uy : Nat]
  BY DEF GainInv, BoxesTight
<1>2. Reached(n) \subseteq Node
  BY ReachedNodes DEF GainInv, IInv
<1>3. n \in Reached(n)
  BY DEF Reached
<1>4. box[n].lx <= X[n] /\ X[n] <= box[n].ux /\ box[n].ly <= Y[n] /\ Y[n] <= box[n].uy
  BY <1>1, <1>3 DEF Bounds
<1>5. box[n].ux < DimX /\ box[n].uy < DimY
  BY <1>1, <1>2, LayoutAssumption DEF Bounds
<1>6. /\ box[n].lx \in Nat /\ box[n].ux \in Nat /\ box[n].ly \in Nat /\ box[n].uy \in Nat
      /\ X[n] \in Nat /\ Y[n] \in Nat /\ DimX \in Nat /\ DimY \in Nat
  BY <1>1, PlaceAssumption, LayoutAssumption
<1> QED
  BY <1>4, <1>5, <1>6 DEF HalfPerimeter, Lengths

\* An edge has a length the histogram has an entry for.
LEMMA LengthInRange ==
  ASSUME NEW u \in Node, NEW v \in Node
  PROVE  Magnitude(X[u] - X[v]) + Magnitude(Y[u] - Y[v]) \in Lengths
<1>1. /\ X[u] \in Nat /\ X[v] \in Nat /\ Y[u] \in Nat /\ Y[v] \in Nat
      /\ DimX \in Nat /\ DimY \in Nat
      /\ X[u] < DimX /\ X[v] < DimX /\ Y[u] < DimY /\ Y[v] < DimY
  BY PlaceAssumption, LayoutAssumption
<1>2. Magnitude(X[u] - X[v]) \in 0..DimX /\ Magnitude(Y[u] - Y[v]) \in 0..DimY
  BY <1>1 DEF Magnitude
<1> QED
  BY <1>1, <1>2 DEF Lengths

\* The degrees and perimeters are values the tables are indexed by.
LEMMA ValuesInRange == GainInv => InRange
<1> SUFFICES ASSUME GainInv PROVE InRange
  OBVIOUS
<1>1. \A n \in Node : Len(sources[n]) \in Nat /\ Len(sinks[n]) \in Nat
  BY DEF GainInv, IInv, TypeOK
<1>2. \A n \in Node : Len(sources[n]) <= MaxFanin /\ Len(sinks[n]) <= MaxFanout
  BY DEF GainInv, IInv, DegreesBounded
<1> QED
  BY <1>1, <1>2, DegreeAssumption, PerimeterInRange DEF InRange, FaninOf, FanoutOf, PerimeterOf

\* A new edge is counted at its length and nowhere else.
LEMMA EdgeCounted ==
  ASSUME CountsInv, NEW u \in Node, NEW v \in Node, ~ HasConnection(u, v), ConnectNodes(u, v)
  PROVE  edgeCount' \in [Lengths -> Int] /\ EdgesCounted'
<1> DEFINE length == Magnitude(X[u] - X[v]) + Magnitude(Y[u] - Y[v])
<1>1. length \in Lengths
  BY LengthInRange
<1>2. edgeCount \in [Lengths -> Int] /\ edgeCount' = [edgeCount EXCEPT ![length] = @ + 1]
  BY DEF CountsInv, CountsTyped, ConnectNodes
<1>3. Link(u, v) /\ TypeOK
  BY DEF ConnectNodes, CountsInv, GainInv, IInv
<1>4. ASSUME NEW i \in Lengths
      PROVE  /\ IsFiniteSet(EdgesOfLength(i))
             /\ EdgesOfLength(i)' = IF i = length THEN EdgesOfLength(i) \cup {<<u, v>>}
                                    ELSE EdgesOfLength(i)
             /\ <<u, v>> \notin EdgesOfLength(i)
  <2>1. IsFiniteSet(Node \X Node)
    BY NodeAssumption, FS_Product
  <2>2. EdgesOfLength(i) \subseteq Node \X Node
    BY DEF EdgesOfLength
  <2>3. \A n \in Node : Range(sinks'[n]) = IF n = u THEN Range(sinks[n]) \cup {v}
                                           ELSE Range(sinks[n])
    BY <1>3, ConnectRanges
  <2>4. ASSUME NEW m \in Node, NEW n \in Node
        PROVE  <<m, n>> \in EdgesOfLength(i)'
                 <=> <<m, n>> \in EdgesOfLength(i) \/ (i = length /\ m = u /\ n = v)
    <3>1. n \in Range(sinks'[m]) <=> n \in Range(sinks[m]) \/ (m = u /\ n = v)
      BY <2>3
    <3> QED
      BY <3>1 DEF EdgesOfLength
  <2>5. EdgesOfLength(i)' \subseteq Node \X Node
    BY DEF EdgesOfLength
  <2>6. EdgesOfLength(i)' = IF i = length THEN EdgesOfLength(i) \cup {<<u, v>>}
                            ELSE EdgesOfLength(i)
    <3> DEFINE new == EdgesOfLength(i)'
               old == EdgesOfLength(i)
    <3>1. new \subseteq Node \X Node /\ old \subseteq Node \X Node
      BY <2>2, <2>5
    <3>2. \A m, n \in Node : <<m, n>> \in new
                                <=> <<m, n>> \in old \/ (i = length /\ m = u /\ n = v)
      BY <2>4
    <3> HIDE DEF new, old, length
    <3>3. new = IF i = length THEN old \cup {<<u, v>>} ELSE old
      BY <3>1, <3>2
    <3> QED
      BY <3>3 DEF new, old
  <2>7. <<u, v>> \notin EdgesOfLength(i)
    BY DEF EdgesOfLength, HasConnection
  <2> QED
    BY <2>1, <2>2, <2>6, <2>7, FS_Subset
<1>5. \A i \in Lengths : Cardinality(EdgesOfLength(i)') =
        IF i = length THEN Cardinality(EdgesOfLength(i)) + 1 ELSE Cardinality(EdgesOfLength(i))
  BY <1>4, FS_AddElement
<1>6. \A i \in Lengths : Cardinality(EdgesOfLength(i)) \in Nat
  BY <1>4, FS_CardinalityType
<1> HIDE DEF length
<1>7. ASSUME NEW i \in Lengths
      PROVE  edgeCount'[i] = Cardinality(EdgesOfLength(i)') + IF i = 0 THEN TarEdgeCnt ELSE 0
  <2>1. edgeCount[i] = Cardinality(EdgesOfLength(i)) + IF i = 0 THEN TarEdgeCnt ELSE 0
    BY DEF CountsInv, EdgesCounted
  <2>2. edgeCount'[i] = IF i = length THEN edgeCount[i] + 1 ELSE edgeCount[i]
    BY <1>1, <1>2
  <2> DEFINE before == Cardinality(EdgesOfLength(i))
             after == Cardinality(EdgesOfLength(i)')
  <2>3. before \in Nat /\ after = IF i = length THEN before + 1 ELSE before
    BY <1>5, <1>6
  <2>4. edgeCount[i] = before + IF i = 0 THEN TarEdgeCnt ELSE 0
    BY <2>1
  <2> HIDE DEF before, after
  <2>5. edgeCount'[i] = after + IF i = 0 THEN TarEdgeCnt ELSE 0
    BY <2>2, <2>3, <2>4, TargetAssumption
  <2> QED
    BY <2>5 DEF after
<1> QED
  BY <1>1, <1>2, <1>7 DEF EdgesCounted

\* A new edge moves its ends by one degree and its driver by the growth of its box.
LEMMA NodesMoved ==
  ASSUME CountsInv, GainInv', NEW u \in Node, NEW v \in Node, ConnectNodes(u, v)
  PROVE  /\ faninCount' \in [0..MaxFanin -> Int] /\ fanoutCount' \in [0..MaxFanout -> Int]
         /\ bboxCount' \in [Lengths -> Int] /\ NodesCounted'
<1>1. /\ FaninOf \in [Node -> 0..MaxFanin] /\ FanoutOf \in [Node -> 0..MaxFanout]
      /\ PerimeterOf \in [Node -> Lengths]
  BY ValuesInRange DEF CountsInv, InRange
<1>2. /\ FaninOf' \in [Node -> 0..MaxFanin] /\ FanoutOf' \in [Node -> 0..MaxFanout]
      /\ PerimeterOf' \in [Node -> Lengths]
  <2>1. InRange'
    BY ValuesInRange, PTL
  <2> QED
    BY <2>1 DEF InRange
<1>3. Link(u, v) /\ TypeOK
  BY DEF ConnectNodes, CountsInv, GainInv, IInv
<1>4. /\ FaninOf[v] = Len(sources[v]) /\ FaninOf'[v] = Len(sources[v]) + 1
      /\ \A n \in Node \ {v} : FaninOf'[n] = FaninOf[n]
  BY <1>3 DEF FaninOf, Link, TypeOK
<1>5. /\ FanoutOf[u] = Len(sinks[u]) /\ FanoutOf'[u] = Len(sinks[u]) + 1
      /\ \A n \in Node \ {u} : FanoutOf'[n] = FanoutOf[n]
  BY <1>3 DEF FanoutOf, Link, TypeOK
<1>6. /\ PerimeterOf[u] = HalfPerimeter(box[u])
      /\ PerimeterOf'[u] = HalfPerimeter(Grown(box[u], BinOf(v)))
      /\ \A n \in Node \ {u} : PerimeterOf'[n] = PerimeterOf[n]
  <2>1. box' = [box EXCEPT ![u] = Grown(box[u], BinOf(v))] /\ DOMAIN box = Node
    BY DEF ConnectNodes, CountsInv, GainInv, BoxesTight
  <2> QED
    BY <2>1 DEF PerimeterOf
<1>7. /\ faninCount' = Move(faninCount, FaninOf[v], FaninOf'[v])
      /\ fanoutCount' = Move(fanoutCount, FanoutOf[u], FanoutOf'[u])
      /\ bboxCount' = Move(bboxCount, PerimeterOf[u], PerimeterOf'[u])
  BY <1>4, <1>5, <1>6 DEF ConnectNodes
<1>8. /\ faninCount \in [0..MaxFanin -> Int] /\ fanoutCount \in [0..MaxFanout -> Int]
      /\ bboxCount \in [Lengths -> Int]
      /\ Counts(faninCount, FaninOf) /\ Counts(fanoutCount, FanoutOf)
      /\ Counts(bboxCount, PerimeterOf)
  BY DEF CountsInv, CountsTyped, NodesCounted
<1>9. faninCount' \in [0..MaxFanin -> Int] /\ Counts(faninCount', FaninOf')
  BY <1>1, <1>2, <1>4, <1>7, <1>8, MoveCount
<1>10. fanoutCount' \in [0..MaxFanout -> Int] /\ Counts(fanoutCount', FanoutOf')
  BY <1>1, <1>2, <1>5, <1>7, <1>8, MoveCount
<1>11. bboxCount' \in [Lengths -> Int] /\ Counts(bboxCount', PerimeterOf')
  BY <1>1, <1>2, <1>6, <1>7, <1>8, MoveCount
<1> QED
  BY <1>9, <1>10, <1>11 DEF NodesCounted, Counts

\* Distribution::init: all nodes at degree 0, all boxes points, no edge drawn.
LEMMA CountsInitInv == GainInit => CountsInv
<1> SUFFICES ASSUME GainInit PROVE CountsInv
  OBVIOUS
<1>1. GainInv
  BY GainInitInv
<1>2. \A n \in Node : sources[n] = <<>> /\ sinks[n] = <<>>
  BY DEF GainInit, Init
<1>3. Cardinality(Node) \in Nat /\ TarEdgeCnt \in Nat
  BY NodeAssumption, FS_CardinalityType, TargetAssumption
<1>4. CountsTyped
  BY <1>3 DEF CountsTyped, GainInit, InitCount, Lengths
<1>5. /\ FaninOf = [n \in Node |-> 0] /\ FanoutOf = [n \in Node |-> 0]
      /\ PerimeterOf = [n \in Node |-> 0]
  <2>1. \A n \in Node : HalfPerimeter(box[n]) = 0
    BY PlaceAssumption DEF GainInit, HalfPerimeter
  <2> QED
    BY <1>2, <2>1 DEF FaninOf, FanoutOf, PerimeterOf
<1>6. ASSUME NEW D PROVE Counts(InitCount(D, Cardinality(Node)), [n \in Node |-> 0])
  <2>1. {n \in Node : [k \in Node |-> 0][n] = 0} = Node
    OBVIOUS
  <2>2. \A i \in D : i # 0 => {n \in Node : [k \in Node |-> 0][n] = i} = {}
    OBVIOUS
  <2> QED
    BY <2>1, <2>2, FS_EmptySet DEF Counts, InitCount
<1>7. NodesCounted
  BY <1>5, <1>6 DEF NodesCounted, GainInit
<1>8. EdgesCounted
  <2>1. \A i \in Lengths : EdgesOfLength(i) = {}
    BY <1>2 DEF EdgesOfLength, Range
  <2>2. edgeCount = InitCount(Lengths, TarEdgeCnt)
    BY DEF GainInit
  <2> QED
    BY <1>3, <2>1, <2>2, FS_EmptySet DEF EdgesCounted, InitCount
<1> QED
  BY <1>1, <1>4, <1>7, <1>8 DEF CountsInv

\* A round keeps the counts, whichever pair it connects.
LEMMA CountsNextInv == CountsInv /\ [GainNext]_allVars => CountsInv'
<1> SUFFICES ASSUME CountsInv, [GainNext]_allVars PROVE CountsInv'
  OBVIOUS
<1>1. GainInv /\ GainInv'
  BY GainNextInv DEF CountsInv
<1>2. CASE GainNext
  <2>1. PICK len \in Lengths : Round(len)
    BY <1>2 DEF GainNext
  <2>2. PICK p \in Winners(len) : ConnectNodes(p.src, p.sink)
    BY <2>1 DEF Round
  <2>3. p.src \in Node /\ p.sink \in Node /\ ~ HasConnection(p.src, p.sink)
    BY <1>1, WinnerConnectable DEF Connectable
  <2>4. edgeCount' \in [Lengths -> Int] /\ EdgesCounted'
    BY <2>2, <2>3, EdgeCounted
  <2>5. /\ faninCount' \in [0..MaxFanin -> Int] /\ fanoutCount' \in [0..MaxFanout -> Int]
        /\ bboxCount' \in [Lengths -> Int] /\ NodesCounted'
    BY <1>1, <2>2, <2>3, NodesMoved
  <2> QED
    BY <1>1, <2>4, <2>5 DEF CountsInv, CountsTyped
<1>3. CASE UNCHANGED allVars
  <2> USE <1>3 DEF allVars, tables
  <2>1. CountsTyped'
    BY DEF CountsInv, CountsTyped
  <2>2. FaninOf' = FaninOf /\ FanoutOf' = FanoutOf /\ PerimeterOf' = PerimeterOf
    BY DEF FaninOf, FanoutOf, PerimeterOf
  <2>3. NodesCounted'
    BY <2>2 DEF CountsInv, NodesCounted, Counts
  <2>4. \A i \in Lengths : EdgesOfLength(i)' = EdgesOfLength(i)
    BY DEF EdgesOfLength
  <2>5. EdgesCounted'
    BY <2>4 DEF CountsInv, EdgesCounted
  <2> QED
    BY <1>1, <2>1, <2>3, <2>5 DEF CountsInv
<1> QED
  BY <1>2, <1>3

\* The invariant says what HistogramsExact says.
LEMMA InvHistograms == CountsInv => HistogramsExact
<1> SUFFICES ASSUME CountsInv PROVE HistogramsExact
  OBVIOUS
<1>1. ASSUME NEW i
      PROVE  /\ {n \in Node : FaninOf[n] = i} = {n \in Node : Len(sources[n]) = i}
             /\ {n \in Node : FanoutOf[n] = i} = {n \in Node : Len(sinks[n]) = i}
             /\ {n \in Node : PerimeterOf[n] = i} = {n \in Node : HalfPerimeter(box[n]) = i}
  BY DEF FaninOf, FanoutOf, PerimeterOf
<1>2. /\ DOMAIN faninCount = 0..MaxFanin /\ DOMAIN fanoutCount = 0..MaxFanout
      /\ DOMAIN bboxCount = Lengths
  BY DEF CountsInv, CountsTyped
<1>3. \A i \in 0..MaxFanin :
        faninCount[i] = Cardinality({n \in Node : Len(sources[n]) = i})
  BY <1>1, <1>2 DEF CountsInv, NodesCounted, Counts
<1>4. \A i \in 0..MaxFanout :
        fanoutCount[i] = Cardinality({n \in Node : Len(sinks[n]) = i})
  BY <1>1, <1>2 DEF CountsInv, NodesCounted, Counts
<1>5. \A i \in Lengths :
        bboxCount[i] = Cardinality({n \in Node : HalfPerimeter(box[n]) = i})
  BY <1>1, <1>2 DEF CountsInv, NodesCounted, Counts
<1> QED
  BY <1>3, <1>4, <1>5 DEF HistogramsExact, CountsInv, EdgesCounted
-----------------------------------------------------------------------------
\* The counts getMaxGain computes with are the histograms of the netlist as it
\* stands, for every layout and all targets: connect counts down what it
\* counts up.
THEOREM AlwaysHistogramsExact == GainSpec => []HistogramsExact
BY CountsInitInv, CountsNextInv, InvHistograms, PTL DEF GainSpec
-----------------------------------------------------------------------------
\* One error changes by one when a node leaves a value and by one when it comes
\* to another.
LEMMA ImprovementSmall ==
  ASSUME NEW count, NEW target, NEW a, NEW b,
         count[a] \in Int, count[b] \in Int, target[a] \in Int, target[b] \in Int
  PROVE  Improvement(count, target, a, b) \in -2..2
<1> DEFINE d == count[a] - target[a]
           e == count[b] - target[b]
<1>1. d \in Int /\ e \in Int
  OBVIOUS
<1>2. Improvement(count, target, a, b) =
        Magnitude(d) + Magnitude(e) - Magnitude(d - 1) - Magnitude(e + 1)
  BY DEF Improvement
<1> HIDE DEF d, e
<1>3. /\ Magnitude(d) \in Int /\ Magnitude(d - 1) \in Int
      /\ Magnitude(d) - Magnitude(d - 1) \in -1..1
  BY <1>1 DEF Magnitude
<1>4. /\ Magnitude(e) \in Int /\ Magnitude(e + 1) \in Int
      /\ Magnitude(e) - Magnitude(e + 1) \in -1..1
  BY <1>1 DEF Magnitude
<1> QED
  BY <1>2, <1>3, <1>4

\* The box of a node and of a node added to it stays inside the layout.
LEMMA GrownInRange ==
  ASSUME GainInv, NEW n \in Node, NEW bin \in Bins
  PROVE  HalfPerimeter(Grown(box[n], bin)) \in Lengths
<1> DEFINE b == box[n]
<1>1. /\ Bounds(b.lx, b.ux, X, Reached(n)) /\ Bounds(b.ly, b.uy, Y, Reached(n))
      /\ b.lx \in Nat /\ b.ly \in Nat /\ b.ux \in Nat /\ b.uy \in Nat
  BY DEF GainInv, BoxesTight
<1>2. Reached(n) \subseteq Node /\ n \in Reached(n)
  BY ReachedNodes DEF GainInv, IInv, Reached
<1>3. b.lx <= X[n] /\ X[n] <= b.ux /\ b.ly <= Y[n] /\ Y[n] <= b.uy
  BY <1>1, <1>2 DEF Bounds
<1>4. b.ux < DimX /\ b.uy < DimY
  BY <1>1, <1>2, LayoutAssumption DEF Bounds
<1>5. PICK x \in 0..(DimX - 1), y \in 0..(DimY - 1) : bin = <<x, y>>
  BY DEF Bins
<1>6. X[n] \in Nat /\ Y[n] \in Nat /\ DimX \in Nat /\ DimY \in Nat
  BY PlaceAssumption, LayoutAssumption
<1>7. HalfPerimeter(Grown(b, bin)) =
        Greatest(b.ux, x) - Least(b.lx, x) + Greatest(b.uy, y) - Least(b.ly, y)
  BY <1>5 DEF HalfPerimeter, Grown
<1> HIDE DEF b
<1>8. Greatest(b.ux, x) - Least(b.lx, x) \in 0..DimX
  BY <1>1, <1>3, <1>4, <1>5, <1>6 DEF Greatest, Least
<1>9. /\ Greatest(b.uy, y) - Least(b.ly, y) \in 0..DimY
      /\ Greatest(b.uy, y) \in Int /\ Least(b.ly, y) \in Int
  BY <1>1, <1>3, <1>4, <1>5, <1>6 DEF Greatest, Least
<1> QED
  BY <1>6, <1>7, <1>8, <1>9 DEF Lengths, b

LEMMA BoxGainSmall ==
  ASSUME CountsInv, NEW u \in Node, NEW s \in Bins
  PROVE  BboxGain(u, s) \in -2..2
<1> DEFINE before == HalfPerimeter(box[u])
           after == HalfPerimeter(Grown(box[u], s))
<1>1. before \in Lengths /\ after \in Lengths
  BY PerimeterInRange, GrownInRange DEF CountsInv
<1> HIDE DEF before, after
<1>2. Improvement(bboxCount, BboxTarget, before, after) \in -2..2
  BY <1>1, ImprovementSmall, TargetAssumption DEF CountsInv, CountsTyped
<1> QED
  BY <1>2 DEF BboxGain, before, after

\* The three distributions together are worth less than half a reward.
LEMMA GainBounds ==
  ASSUME CountsInv, NEW u \in Node, NEW v \in Node, NEW s \in Bins,
         fanin[v] < MaxFanin, fanout[u] < MaxFanout
  PROVE  /\ PairGain(u, v, s) \in Int /\ PairGain(u, v, s) >= -6 /\ PairGain(u, v, s) <= 38
         /\ fanin[v] = 0 => PairGain(u, v, s) >= 10
         /\ fanin[v] # 0 /\ fanout[u] # 0 => PairGain(u, v, s) <= 6
<1>1. /\ fanin[v] \in 0..MaxFanin /\ fanin[v] + 1 \in 0..MaxFanin
      /\ fanout[u] \in 0..MaxFanout /\ fanout[u] + 1 \in 0..MaxFanout
  BY DegreeAssumption DEF CountsInv, GainInv, ListsExact
<1>2. Improvement(faninCount, FaninTarget, fanin[v], fanin[v] + 1) \in -2..2
  <2> DEFINE a == fanin[v]
             b == fanin[v] + 1
  <2>1. a \in 0..MaxFanin /\ b \in 0..MaxFanin
    BY <1>1
  <2> HIDE DEF a, b
  <2>2. faninCount \in [0..MaxFanin -> Int] /\ FaninTarget \in [0..MaxFanin -> Nat]
    BY TargetAssumption DEF CountsInv, CountsTyped
  <2>3. /\ faninCount[a] \in Int /\ faninCount[b] \in Int
        /\ FaninTarget[a] \in Int /\ FaninTarget[b] \in Int
    BY <2>1, <2>2
  <2>4. Improvement(faninCount, FaninTarget, a, b) \in -2..2
    BY <2>3, ImprovementSmall
  <2> QED
    BY <2>4 DEF a, b
<1>3. Improvement(fanoutCount, FanoutTarget, fanout[u], fanout[u] + 1) \in -2..2
  <2> DEFINE a == fanout[u]
             b == fanout[u] + 1
  <2>1. a \in 0..MaxFanout /\ b \in 0..MaxFanout
    BY <1>1
  <2> HIDE DEF a, b
  <2>2. fanoutCount \in [0..MaxFanout -> Int] /\ FanoutTarget \in [0..MaxFanout -> Nat]
    BY TargetAssumption DEF CountsInv, CountsTyped
  <2>3. /\ fanoutCount[a] \in Int /\ fanoutCount[b] \in Int
        /\ FanoutTarget[a] \in Int /\ FanoutTarget[b] \in Int
    BY <2>1, <2>2
  <2>4. Improvement(fanoutCount, FanoutTarget, a, b) \in -2..2
    BY <2>3, ImprovementSmall
  <2> QED
    BY <2>4 DEF a, b
<1>4. BboxGain(u, s) \in -2..2
  BY BoxGainSmall
<1> DEFINE fi == Improvement(faninCount, FaninTarget, fanin[v], fanin[v] + 1)
           fo == Improvement(fanoutCount, FanoutTarget, fanout[u], fanout[u] + 1)
           bb == BboxGain(u, s)
<1>5. PairGain(u, v, s) = fi + Reward(fanin[v]) + (fo + Reward(fanout[u])) + bb
  BY DEF PairGain, FaninGain, FanoutGain
<1>6. fi \in -2..2 /\ fo \in -2..2 /\ bb \in -2..2
  BY <1>2, <1>3, <1>4
<1> HIDE DEF fi, fo, bb
<1>7. /\ Reward(fanin[v]) = IF fanin[v] = 0 THEN 16 ELSE 0
      /\ Reward(fanout[u]) = IF fanout[u] = 0 THEN 16 ELSE 0
  BY DEF Reward
<1> QED
  BY <1>5, <1>6, <1>7

\* A source with a sink to take has a best pair.
LEMMA BestPairExists ==
  ASSUME CountsInv, NEW u \in Node, NEW s \in Bins, fanout[u] < MaxFanout,
         SinksFor(u, s) # {}
  PROVE  BestPairs(u, s) # {}
<1> DEFINE S == SinksFor(u, s)
           gain == [v \in S |-> PairGain(u, v, s)]
           up == [v \in S |-> PairGain(u, v, s) + 6]
<1>1. S \subseteq Node /\ IsFiniteSet(S) /\ \A v \in S : fanin[v] < MaxFanin
  BY NodeAssumption, FS_Subset DEF SinksFor
<1>2. \A v \in S : PairGain(u, v, s) \in Int /\ PairGain(u, v, s) >= -6 /\ fanin[v] \in Nat
  BY <1>1, GainBounds DEF CountsInv, GainInv, ListsExact
<1>3. PICK best \in S : \A v \in S : up[v] <= up[best]
  <2>1. \A v \in S : up[v] \in Nat
    BY <1>2
  <2> HIDE DEF up, S
  <2> QED
    BY <1>1, <2>1, Largest DEF S
<1>4. \A v \in S : gain[v] <= gain[best]
  BY <1>2, <1>3
<1> DEFINE T == {v \in S : gain[v] = gain[best]}
           F == {fanin[v] : v \in T}
<1>5. F \in SUBSET Nat /\ F # {}
  BY <1>2
<1>6. PICK v \in T : \A w \in T : fanin[v] <= fanin[w]
  <2>1. PICK i \in F : \A j \in F : i <= j
    BY <1>5, NatLeast
  <2> QED
    BY <2>1
<1> DEFINE p == [src |-> u, sink |-> v, gain |-> PairGain(u, v, s)]
<1>7. \A w \in S : \/ PairGain(u, w, s) < p.gain
                   \/ PairGain(u, w, s) = p.gain /\ fanin[p.sink] <= fanin[w]
  <2> SUFFICES ASSUME NEW w \in S
               PROVE  \/ PairGain(u, w, s) < PairGain(u, v, s)
                      \/ PairGain(u, w, s) = PairGain(u, v, s) /\ fanin[v] <= fanin[w]
    OBVIOUS
  <2>1. /\ gain[w] <= gain[best] /\ gain[v] = gain[best] /\ v \in S
        /\ gain[w] = PairGain(u, w, s) /\ gain[v] = PairGain(u, v, s)
        /\ gain[w] \in Int /\ gain[best] \in Int
    BY <1>2, <1>4
  <2>2. gain[w] = gain[best] => fanin[v] <= fanin[w]
    BY <1>6
  <2> HIDE DEF gain
  <2> QED
    BY <2>1, <2>2
<1>8. p \in BestPairs(u, s)
  BY <1>7 DEF BestPairs
<1> QED
  BY <1>8

\* Between two bins with an open source in one and a node without driver in the
\* other, getMaxGain finds a pair and its gain holds a reward.
LEMMA ServesUndriven ==
  ASSUME CountsInv, NEW len \in Nat \ {0}, NEW u \in Node, NEW v \in Node,
         SourceOpen(u), Undriven(v), BinOf(v) \in SinkBins(BinOf(u), len)
  PROVE  /\ ~ MayFindNothing(BinOf(u), BinOf(v))
         /\ \A q \in MaxGain(BinOf(u), BinOf(v)) : q.gain \in Int /\ q.gain >= 10
<1> DEFINE b == BinOf(u)
           s == BinOf(v)
           f0 == fanout[u]
<1>1. b \in Bins /\ s \in Bins
  BY PlaceAssumption, LayoutAssumption DEF Bins, BinOf
<1>2. f0 \in 0..(MaxFanout - 1) /\ f0 < MaxFanout /\ u \in SourcesWith(b, f0)
  BY DegreeAssumption DEF SourceOpen, CountsInv, GainInv, ListsExact, SourcesWith
<1>3. b # s
  BY PlaceAssumption DEF SinkBins, BinOf
<1>4. ASSUME NEW w \in Node, BinOf(w) = b
      PROVE  v \in SinksFor(w, s)
  <2>1. sources[v] = <<>>
    BY DEF Undriven, CountsInv, GainInv, IInv, TypeOK
  <2>2. ~ HasConnection(w, v)
    BY <2>1 DEF HasConnection, CountsInv, GainInv, IInv, Mirrored, Range
  <2>3. fanin[v] < MaxFanin
    BY <2>1, DegreeAssumption DEF CountsInv, GainInv, ListsExact
  <2> QED
    BY <1>3, <1>4, <2>2, <2>3 DEF SinksFor, Undriven
<1>5. \A w \in BestSources(b, s, f0) : w \in Node /\ BinOf(w) = b /\ fanout[w] = f0
  BY DEF BestSources, SourcesWith
<1>6. fanin[v] = 0
  BY DEF Undriven, CountsInv, GainInv, ListsExact
<1> HIDE DEF b, s, f0
<1>7. ~ MayFindNothing(b, s)
  BY <1>2, <1>4, <1>5 DEF MayFindNothing
<1>8. ASSUME NEW w \in BestSources(b, s, f0), NEW q \in BestPairs(w, s)
      PROVE  q.gain >= 10
  <2>1. v \in SinksFor(w, s) /\ w \in Node /\ fanout[w] < MaxFanout
    BY <1>2, <1>4, <1>5
  <2>2. PairGain(w, v, s) \in Int /\ PairGain(w, v, s) >= 10
    BY <1>1, <1>6, <2>1, GainBounds DEF SinksFor
  <2>3. PICK o \in SinksFor(w, s) : q.gain = PairGain(w, o, s)
    BY DEF BestPairs
  <2>4. PairGain(w, o, s) \in Int
    BY <1>1, <2>1, GainBounds DEF SinksFor
  <2>5. PairGain(w, v, s) <= q.gain
    <3> DEFINE r == [src |-> w, sink |-> v, gain |-> PairGain(w, v, s)]
    <3>1. r.gain < q.gain \/ r.gain = q.gain
      BY <2>1 DEF BestPairs
    <3> QED
      BY <2>2, <2>3, <2>4, <3>1
  <2> QED
    BY <2>2, <2>3, <2>4, <2>5
<1>9. ASSUME NEW q \in MaxGain(b, s)
      PROVE  q.gain \in Int /\ q.gain >= 10
  <2> DEFINE Entry(fo) == [fo |-> fo, pairs |-> {BestPairs(w, s) : w \in BestSources(b, s, fo)}]
             Fos == {f \in 0..(MaxFanout - 1) : SourcesWith(b, f) # {}}
             Yields(p, e, f) ==
               \E pairs \in f.pairs : \A r \in pairs :
                 r.gain < p.gain \/ (r.gain = p.gain /\ e.fo < f.fo)
  <2>1. PICK fo \in Fos :
          /\ q \in UNION Entry(fo).pairs
          /\ \A g \in Fos : Entry(g) # Entry(fo) => Yields(q, Entry(fo), Entry(g))
    <3> DEFINE entries == {Entry(fo) : fo \in Fos}
    <3>1. MaxGain(b, s) =
            UNION {{p \in UNION e.pairs : \A f \in entries \ {e} : Yields(p, e, f)} :
                     e \in entries}
      BY DEF MaxGain
    <3> HIDE DEF Yields, Entry, Fos
    <3>2. PICK e \in entries :
            q \in {p \in UNION e.pairs : \A f \in entries \ {e} : Yields(p, e, f)}
      BY <3>1
    <3>3. q \in UNION e.pairs /\ \A f \in entries \ {e} : Yields(q, e, f)
      BY <3>2
    <3>4. PICK fo \in Fos : e = Entry(fo)
      OBVIOUS
    <3> QED
      BY <3>3, <3>4
  <2>2. PICK w \in BestSources(b, s, fo) : q \in BestPairs(w, s)
    BY <2>1
  <2>3. /\ w \in Node /\ fanout[w] = fo /\ fo < MaxFanout
    BY <2>2, DegreeAssumption DEF BestSources, SourcesWith
  <2>4. q.gain \in Int
    <3>1. PICK o \in SinksFor(w, s) : q.gain = PairGain(w, o, s)
      BY <2>2 DEF BestPairs
    <3> QED
      BY <1>1, <2>3, <3>1, GainBounds DEF SinksFor
  <2>5. CASE fo = f0
    BY <1>8, <2>2, <2>4, <2>5
  <2>6. CASE fo # f0
    <3>1. f0 \in Fos /\ Entry(f0) # Entry(fo)
      BY <1>2, <2>6
    <3>2. Yields(q, Entry(fo), Entry(f0))
      BY <2>1, <3>1
    <3>3. PICK x \in BestSources(b, s, f0) : \A r \in BestPairs(x, s) :
            r.gain < q.gain \/ r.gain = q.gain
      BY <3>2
    <3>4. SinksFor(x, s) # {} /\ x \in Node /\ fanout[x] < MaxFanout
      BY <1>2, <1>4, <1>5
    <3>5. PICK r \in BestPairs(x, s) : TRUE
      BY <1>1, <3>4, BestPairExists
    <3>6. r.gain >= 10 /\ r.gain \in Int
      <4>1. PICK o \in SinksFor(x, s) : r.gain = PairGain(x, o, s)
        BY <3>5 DEF BestPairs
      <4> QED
        BY <1>1, <1>8, <3>4, <3>5, <4>1, GainBounds DEF SinksFor
    <3> QED
      BY <2>4, <3>3, <3>5, <3>6
  <2> QED
    BY <2>5, <2>6
<1> QED
  BY <1>7, <1>9 DEF b, s

\* A round with a node to serve connects a pair whose gain holds a reward.
LEMMA RoundServes ==
  ASSUME CountsInv, NEW len \in Lengths, NEW p \in Winners(len), len > 0, Unserved(len)
  PROVE  Len(sources[p.sink]) = 0 \/ Len(sinks[p.src]) = 0
<1>1. PICK u \in Node, v \in Node :
        SourceOpen(u) /\ Undriven(v) /\ BinOf(v) \in SinkBins(BinOf(u), len)
  BY DEF Unserved
<1> DEFINE calls == {c \in Bins \X Bins : c[2] \in SinkBins(c[1], len)}
           Result(c) == [call |-> c, pairs |-> MaxGain(c[1], c[2]),
                         nothing |-> MayFindNothing(c[1], c[2])]
           c0 == <<BinOf(u), BinOf(v)>>
<1>2. len \in Nat \ {0}
  BY LayoutAssumption DEF Lengths
<1>3. /\ ~ MayFindNothing(BinOf(u), BinOf(v))
      /\ \A q \in MaxGain(BinOf(u), BinOf(v)) : q.gain \in Int /\ q.gain >= 10
  BY <1>1, <1>2, ServesUndriven
<1>4. c0 \in calls
  BY <1>1, PlaceAssumption, LayoutAssumption DEF Bins, BinOf
<1>5. PICK c \in calls :
        /\ p \in MaxGain(c[1], c[2])
        /\ \A o \in calls : Result(o) # Result(c) =>
             Result(o).nothing \/ \E q \in Result(o).pairs : q.gain <= p.gain
  BY DEF Winners
<1>6. \E q \in MaxGain(BinOf(u), BinOf(v)) : q.gain <= p.gain
  <2>1. CASE Result(c0) = Result(c)
    <3>1. MaxGain(BinOf(u), BinOf(v)) = MaxGain(c[1], c[2])
      BY <2>1
    <3>2. p \in MaxGain(BinOf(u), BinOf(v)) /\ p.gain \in Int
      BY <1>3, <1>5, <3>1
    <3> QED
      BY <3>2
  <2>2. CASE Result(c0) # Result(c)
    <3>1. Result(c0).nothing = MayFindNothing(BinOf(u), BinOf(v))
      OBVIOUS
    <3>2. Result(c0).pairs = MaxGain(BinOf(u), BinOf(v))
      OBVIOUS
    <3> QED
      BY <1>3, <1>4, <1>5, <2>2, <3>1, <3>2
  <2> QED
    BY <2>1, <2>2
<1>7. /\ p.src \in Node /\ p.sink \in Node
      /\ fanin[p.sink] < MaxFanin /\ fanout[p.src] < MaxFanout
      /\ \E s \in Bins : p.gain = PairGain(p.src, p.sink, s)
  <2>1. PICK fo \in 0..(MaxFanout - 1) :
          \E w \in BestSources(c[1], c[2], fo) : p \in BestPairs(w, c[2])
    BY <1>5 DEF MaxGain
  <2>2. PICK w \in BestSources(c[1], c[2], fo) : p \in BestPairs(w, c[2])
    BY <2>1
  <2>3. w \in Node /\ fanout[w] = fo /\ c[2] \in Bins
    BY <2>2 DEF BestSources, SourcesWith
  <2>4. /\ p.src = w /\ p.sink \in SinksFor(w, c[2])
        /\ p.gain = PairGain(w, p.sink, c[2])
    BY <2>2 DEF BestPairs
  <2>5. fo < MaxFanout
    BY DegreeAssumption
  <2> QED
    BY <2>3, <2>4, <2>5 DEF SinksFor
<1>8. PICK s \in Bins : p.gain = PairGain(p.src, p.sink, s)
  BY <1>7
<1>9. p.gain \in Int /\ p.gain >= 10
  BY <1>3, <1>6, <1>7, <1>8, GainBounds
<1>10. fanin[p.sink] = 0 \/ fanout[p.src] = 0
  BY <1>7, <1>8, <1>9, GainBounds
<1> QED
  BY <1>7, <1>10 DEF CountsInv, GainInv, ListsExact

\* Every new edge is that of a round.
LEMMA NextServes ==
  ASSUME CountsInv, [GainNext]_allVars, NEW u \in Node, NEW v \in Node,
         v \in Range(sinks'[u]) \ Range(sinks[u]),
         NEW len, len = X[v] - X[u] + Y[v] - Y[u], len > 0, Unserved(len)
  PROVE  Len(sources[v]) = 0 \/ Len(sinks[u]) = 0
<1>1. CASE GainNext
  <2>1. PICK l \in Lengths : Round(l)
    BY <1>1 DEF GainNext
  <2>2. PICK p \in Winners(l) : ConnectNodes(p.src, p.sink)
    BY <2>1 DEF Round
  <2>3. p.src \in Node /\ p.sink \in Node /\ Link(p.src, p.sink) /\ TypeOK
    BY <2>2, WinnerConnectable DEF CountsInv, GainInv, IInv, ConnectNodes
  <2>4. u = p.src /\ v = p.sink
    <3>1. Range(sinks'[u]) = IF u = p.src THEN Range(sinks[u]) \cup {p.sink}
                             ELSE Range(sinks[u])
      BY <2>3, ConnectRanges
    <3> QED
      BY <3>1
  <2>5. l = len
    <3>1. PICK b \in Bins, fo \in 0..(MaxFanout - 1) : \E s \in SinkBins(b, l) :
            p.src \in SourcesWith(b, fo) /\ p.sink \in SinksFor(p.src, s)
      BY WinnerIsCandidate
    <3>2. b = BinOf(u) /\ BinOf(v) \in SinkBins(b, l)
      BY <2>4, <3>1 DEF SourcesWith, SinksFor
    <3>3. X[v] - X[u] + Y[v] - Y[u] = l
      BY <3>2, PlaceAssumption DEF SinkBins, BinOf
    <3> QED
      BY <3>3
  <2> QED
    BY <2>2, <2>4, <2>5, RoundServes
<1>2. CASE UNCHANGED allVars
  BY <1>2 DEF allVars
<1> QED
  BY <1>1, <1>2

\* While a length leads from a source that may drive more to a node without driver
\* in another bin, the round that draws it connects a node without driver or one
\* without load, for every layout and all targets: a reward of 16 exceeds what the
\* three distributions can weigh.
THEOREM AlwaysUnservedFirst == GainSpec => UnservedFirst
<1>1. CountsInv /\ [GainNext]_allVars =>
        [\A u, v \in Node :
           LET len == X[v] - X[u] + Y[v] - Y[u]
           IN  v \in Range(sinks'[u]) \ Range(sinks[u]) /\ len > 0 /\ Unserved(len)
                 => Len(sources[v]) = 0 \/ Len(sinks[u]) = 0]_allVars
  BY NextServes
<1> QED
  BY <1>1, CountsInitInv, CountsNextInv, PTL DEF GainSpec, UnservedFirst
-----------------------------------------------------------------------------
\* Of numbers that do not exceed a bound one is the largest.
LEMMA BoundedLargest ==
  ASSUME NEW S \in SUBSET Int, S # {}, NEW top \in Int, \A i \in S : i <= top
  PROVE  \E i \in S : \A j \in S : j <= i
<1> DEFINE D == {top - i : i \in S}
<1>1. D \in SUBSET Nat /\ D # {}
  <2>1. ASSUME NEW i \in S PROVE top - i \in Nat
    <3>1. i \in Int /\ i <= top
      OBVIOUS
    <3> QED
      BY <3>1
  <2>2. PICK i \in S : TRUE
    OBVIOUS
  <2>3. top - i \in D
    OBVIOUS
  <2>4. \A d \in D : d \in Nat
    BY <2>1
  <2> HIDE DEF D
  <2> QED
    BY <2>3, <2>4
<1>2. PICK d \in D : \A e \in D : d <= e
  <2> HIDE DEF D
  <2> QED
    BY <1>1, NatLeast
<1>3. PICK i \in S : d = top - i
  BY <1>2
<1>4. \A j \in S : j <= i
  <2> SUFFICES ASSUME NEW j \in S PROVE j <= i
    OBVIOUS
  <2>1. top - j \in D
    OBVIOUS
  <2>2. top - i <= top - j
    BY <1>2, <1>3, <2>1
  <2> QED
    BY <2>2
<1> QED
  BY <1>4

\* Of the sources of a fanout one has the best box gain.
LEMMA BestSourceExists ==
  ASSUME CountsInv, NEW b, NEW s \in Bins, NEW fo, SourcesWith(b, fo) # {}
  PROVE  BestSources(b, s, fo) # {}
<1> DEFINE S == SourcesWith(b, fo)
           gains == {BboxGain(w, s) : w \in S}
<1>1. S \subseteq Node
  BY DEF SourcesWith
<1>2. gains \in SUBSET Int /\ gains # {} /\ \A g \in gains : g <= 2
  <2>1. \A w \in S : BboxGain(w, s) \in -2..2
    BY <1>1, BoxGainSmall
  <2> HIDE DEF S
  <2> QED
    BY <2>1 DEF S
<1>3. PICK g \in gains : \A h \in gains : h <= g
  <2> HIDE DEF gains
  <2> QED
    BY <1>2, BoundedLargest
<1>4. PICK u \in S : g = BboxGain(u, s)
  OBVIOUS
<1> QED
  BY <1>3, <1>4 DEF BestSources

\* The pairs getMaxGain comes back with have a gain.
LEMMA PairsHaveGains ==
  ASSUME CountsInv, NEW b \in Bins, NEW s \in Bins, NEW fo \in 0..(MaxFanout - 1),
         NEW w \in BestSources(b, s, fo), NEW q \in BestPairs(w, s)
  PROVE  q.gain \in Int /\ q.gain <= 38
<1>1. w \in Node /\ fanout[w] < MaxFanout
  BY DegreeAssumption DEF BestSources, SourcesWith
<1>2. PICK o \in SinksFor(w, s) : q.gain = PairGain(w, o, s)
  BY DEF BestPairs
<1> QED
  BY <1>1, <1>2, GainBounds DEF SinksFor

\* getMaxGain may come back with a pair, unless it has to come back with none.
LEMMA MaxGainExists ==
  ASSUME CountsInv, NEW b \in Bins, NEW s \in Bins, ~ MayFindNothing(b, s)
  PROVE  MaxGain(b, s) # {}
<1> DEFINE Pairs(fo) == {BestPairs(w, s) : w \in BestSources(b, s, fo)}
           Fos == {f \in 0..(MaxFanout - 1) : SourcesWith(b, f) # {}}
           gains == {i \in Int : \E fo \in Fos : \E q \in UNION Pairs(fo) : i = q.gain}
<1>1. PICK f0 \in Fos : \A u \in BestSources(b, s, f0) : SinksFor(u, s) # {}
  BY DEF MayFindNothing
<1>2. \A fo \in Fos : fo \in 0..(MaxFanout - 1) /\ fo \in Nat /\ BestSources(b, s, fo) # {}
  BY BestSourceExists
<1>3. \A fo \in Fos : \A q \in UNION Pairs(fo) : q.gain \in Int /\ q.gain <= 38
  BY <1>2, PairsHaveGains
<1>4. \E q \in UNION Pairs(f0) : TRUE
  <2>1. PICK u \in BestSources(b, s, f0) : TRUE
    BY <1>2
  <2>2. u \in Node /\ fanout[u] < MaxFanout
    BY <1>2, DegreeAssumption DEF BestSources, SourcesWith
  <2>3. BestPairs(u, s) # {}
    BY <1>1, <2>2, BestPairExists
  <2> QED
    BY <2>3
<1> HIDE DEF Pairs, Fos
<1>5. PICK top \in gains : \A i \in gains : i <= top
  <2>1. gains \in SUBSET Int /\ gains # {} /\ \A i \in gains : i <= 38
    BY <1>3, <1>4
  <2> HIDE DEF gains
  <2> QED
    BY <2>1, BoundedLargest
<1>6. PICK fo \in Fos : /\ \E q \in UNION Pairs(fo) : q.gain = top
                        /\ \A g \in Fos : (\E q \in UNION Pairs(g) : q.gain = top) => fo <= g
  <2> DEFINE tops == {f \in Fos : \E q \in UNION Pairs(f) : q.gain = top}
  <2>1. tops \in SUBSET Nat /\ tops # {}
    BY <1>2, <1>5
  <2>2. PICK f \in tops : \A g \in tops : f <= g
    <3> HIDE DEF tops
    <3> QED
      BY <2>1, NatLeast
  <2> QED
    BY <2>2
<1>7. PICK p \in UNION Pairs(fo) : p.gain = top
  BY <1>6
<1>8. ASSUME NEW g \in Fos, g # fo, NEW q \in UNION Pairs(g)
      PROVE  q.gain < p.gain \/ (q.gain = p.gain /\ fo < g)
  <2>1. q.gain \in Int /\ q.gain <= top
    BY <1>3, <1>5, <1>8
  <2>2. q.gain = top => fo < g
    BY <1>2, <1>6, <1>8
  <2> QED
    BY <1>5, <1>7, <2>1, <2>2
<1>9. \A g \in Fos : Pairs(g) # {}
  BY <1>2 DEF Pairs
<1> DEFINE Entry(f) == [fo |-> f, pairs |-> Pairs(f)]
           entries == {Entry(f) : f \in Fos}
           Yields(r, e, f) ==
             \E pairs \in f.pairs : \A q \in pairs :
               q.gain < r.gain \/ (q.gain = r.gain /\ e.fo < f.fo)
<1>10. MaxGain(b, s) =
         UNION {{r \in UNION e.pairs : \A f \in entries \ {e} : Yields(r, e, f)} :
                  e \in entries}
  BY DEF MaxGain, Pairs, Fos
<1>11. ASSUME NEW f \in entries \ {Entry(fo)} PROVE Yields(p, Entry(fo), f)
  <2>1. PICK g \in Fos : f = Entry(g)
    OBVIOUS
  <2>2. g # fo
    BY <1>11, <2>1
  <2>3. PICK pairs \in Pairs(g) : TRUE
    BY <1>9
  <2>4. \A q \in pairs : q.gain < p.gain \/ (q.gain = p.gain /\ fo < g)
    BY <1>8, <2>2, <2>3
  <2> QED
    BY <2>1, <2>3, <2>4
<1>12. Entry(fo) \in entries /\ p \in UNION Entry(fo).pairs
  OBVIOUS
<1> HIDE DEF Yields, entries, Entry
<1> QED
  BY <1>10, <1>11, <1>12

\* The pairs of two bins have a gain.
LEMMA MaxGainValue ==
  ASSUME CountsInv, NEW b \in Bins, NEW s \in Bins, NEW q \in MaxGain(b, s)
  PROVE  q.gain \in Int /\ q.gain <= 38
<1>1. PICK fo \in 0..(MaxFanout - 1) : \E w \in BestSources(b, s, fo) : q \in BestPairs(w, s)
  BY DEF MaxGain
<1> QED
  BY <1>1, PairsHaveGains

\* Where getMaxGain finds a pair between some two bins, one of the pairs it finds is
\* the best of the round.
LEMMA WinnerExists ==
  ASSUME CountsInv, NEW len, NEW c0 \in Bins \X Bins,
         c0[2] \in SinkBins(c0[1], len), ~ MayFindNothing(c0[1], c0[2])
  PROVE  Winners(len) # {}
<1> DEFINE calls == {c \in Bins \X Bins : c[2] \in SinkBins(c[1], len)}
           gains == {i \in Int : \E c \in calls : \E q \in MaxGain(c[1], c[2]) : i = q.gain}
           Result(c) == [call |-> c, pairs |-> MaxGain(c[1], c[2]),
                         nothing |-> MayFindNothing(c[1], c[2])]
           results == {Result(c) : c \in calls}
<1>1. c0 \in calls /\ \A c \in calls : c[1] \in Bins /\ c[2] \in Bins
  OBVIOUS
<1> HIDE DEF calls
<1>2. \A c \in calls : \A q \in MaxGain(c[1], c[2]) : q.gain \in Int /\ q.gain <= 38
  BY <1>1, MaxGainValue
<1>3. PICK top \in gains : \A i \in gains : i <= top
  <2>1. MaxGain(c0[1], c0[2]) # {}
    BY <1>1, MaxGainExists
  <2>2. gains \in SUBSET Int /\ gains # {} /\ \A i \in gains : i <= 38
    BY <1>1, <1>2, <2>1
  <2> HIDE DEF gains
  <2>3. 38 \in Int /\ gains \in SUBSET Int /\ gains # {}
    BY <2>2
  <2>4. \A i \in gains : i <= 38
    BY <2>2
  <2> QED
    BY <2>3, <2>4, BoundedLargest
<1>4. PICK c \in calls : \E q \in MaxGain(c[1], c[2]) : top = q.gain
  BY <1>3
<1>5. PICK p \in MaxGain(c[1], c[2]) : top = p.gain
  BY <1>4
<1>6. ASSUME NEW o \in calls
      PROVE  MayFindNothing(o[1], o[2]) \/ \E q \in MaxGain(o[1], o[2]) : q.gain <= p.gain
  <2> SUFFICES ASSUME ~ MayFindNothing(o[1], o[2])
               PROVE  \E q \in MaxGain(o[1], o[2]) : q.gain <= p.gain
    OBVIOUS
  <2>1. PICK q \in MaxGain(o[1], o[2]) : TRUE
    BY <1>1, MaxGainExists
  <2>2. q.gain \in gains
    BY <1>2
  <2> QED
    BY <1>3, <1>5, <2>2
<1>7. Winners(len) =
        UNION {{r \in s.pairs : \A o \in results \ {s} :
                  o.nothing \/ \E q \in o.pairs : q.gain <= r.gain} : s \in results}
  BY DEF Winners, calls
<1>8. ASSUME NEW o \in results
      PROVE  o.nothing \/ \E q \in o.pairs : q.gain <= p.gain
  BY <1>6
<1>9. Result(c) \in results /\ p \in Result(c).pairs
  OBVIOUS
<1> HIDE DEF results, Result
<1> QED
  BY <1>7, <1>8, <1>9

\* Where a drawn length leads to an undriven node, the turn has a pair to connect.
Servable == \A len \in Lengths \ {0} : Unserved(len) => Winners(len) # {}

\* What UndrivenServed rests on: as long as a node without driver lies ahead of a source
\* with fanout to spare, a turn of the loop that draws their distance never comes back
\* with nothing, whatever the ties of sort and shuffle hide from getMaxGain. Together
\* with AlwaysUnservedFirst: it connects a node without driver or one without load.
THEOREM AlwaysServable == GainSpec => []Servable
<1>1. CountsInv => Servable
  <2> SUFFICES ASSUME CountsInv, NEW len \in Lengths \ {0}, Unserved(len)
               PROVE  Winners(len) # {}
    BY DEF Servable
  <2>1. PICK u \in Node, v \in Node :
          SourceOpen(u) /\ Undriven(v) /\ BinOf(v) \in SinkBins(BinOf(u), len)
    BY DEF Unserved
  <2>2. len \in Nat \ {0}
    BY LayoutAssumption DEF Lengths
  <2>3. ~ MayFindNothing(BinOf(u), BinOf(v))
    BY <2>1, <2>2, ServesUndriven
  <2> DEFINE c0 == <<BinOf(u), BinOf(v)>>
  <2>4. c0 \in Bins \X Bins /\ c0[1] = BinOf(u) /\ c0[2] = BinOf(v)
    BY PlaceAssumption, LayoutAssumption DEF Bins, BinOf
  <2> HIDE DEF c0
  <2> QED
    BY <2>1, <2>3, <2>4, WinnerExists
<1> QED
  BY <1>1, CountsInitInv, CountsNextInv, PTL DEF GainSpec
=============================================================================
