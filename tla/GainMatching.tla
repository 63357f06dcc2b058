---------------------------- MODULE GainMatching ----------------------------
(***************************************************************************)
(* Netlist::distMatching in detail.  A round draws an edge length from the *)
(* sampling vector of the edge distribution, asks getMaxGain for the best  *)
(* pair of every two bins that far apart, and connects the best of those.  *)
(* The state adds to the graph of EdgeMatching what the choice reads: the  *)
(* counts of the distributions, the lists of the bins and the net boxes.   *)
(*                                                                         *)
(* Every random_shuffle in the code makes a tie a free choice.  All terms  *)
(* of a gain are integers, so the doubles they are kept in are exact.      *)
(***************************************************************************)
EXTENDS EdgeMatching, FiniteSets, FiniteSetsExt

CONSTANTS
  DimX, DimY,    \* layoutDimX_, layoutDimY_
  FaninTarget,   \* fiDist_: degree |-> target, likewise below
  FanoutTarget,
  BboxTarget,
  EdgeTarget,
  TarEdgeCnt     \* edgeDist_.totalCnt()

ASSUME NodeAssumption == IsFiniteSet(Node)

ASSUME LayoutAssumption ==
  /\ DimX \in Nat \ {0} /\ DimY \in Nat \ {0}
  /\ \A n \in Node : X[n] < DimX /\ Y[n] < DimY

\* Distribution::init fills one entry for every value up to the maximum.
Lengths == 0..(DimX + DimY)

ASSUME TargetAssumption ==
  /\ FaninTarget \in [0..MaxFanin -> Nat]
  /\ FanoutTarget \in [0..MaxFanout -> Nat]
  /\ BboxTarget \in [Lengths -> Nat]
  /\ EdgeTarget \in [Lengths -> Nat]
  /\ TarEdgeCnt \in Nat
  /\ \E len \in Lengths : EdgeTarget[len] > 0  \* the sampling vector is not empty

VARIABLES
  fanin, fanout,                     \* Bin::fi_, Bin::fo_: the list a node is in
  box,                               \* Node::lx_, ly_, ux_, uy_
  faninCount, fanoutCount,           \* count_ of fiDist_ and foDist_
  bboxCount, edgeCount,              \* count_ of bboxDist_ and edgeDist_
  curEdgeCnt                         \* edges created so far

tables == <<fanin, fanout, box, faninCount, fanoutCount, bboxCount, edgeCount,
            curEdgeCnt>>
allVars == <<sources, sinks, tables>>
-----------------------------------------------------------------------------
Bins == (0..(DimX - 1)) \X (0..(DimY - 1))
BinOf(n) == <<X[n], Y[n]>>

\* getSinkBins: the bins len steps away, to the right and upwards
SinkBins(bin, len) ==
  {b \in Bins : /\ b[1] >= bin[1]
                /\ b[2] >= bin[2]
                /\ b[1] - bin[1] + b[2] - bin[2] = len}

Magnitude(i) == IF i < 0 THEN -i ELSE i

Least(i, j) == IF i < j THEN i ELSE j
Greatest(i, j) == IF i < j THEN j ELSE i

\* How much closer the counts come to the targets when one member moves from
\* value a to value b: currErr - nextErr of the three gain functions
Improvement(count, target, a, b) ==
  LET delta(i) == count[i] - target[i]
  IN  Magnitude(delta(a)) + Magnitude(delta(b))
        - Magnitude(delta(a) - 1) - Magnitude(delta(b) + 1)

\* Mutant: no reward
RewardNothing(degree) == 0

\* What a first driver or a first load counts
Reward(degree) == IF degree = 0 THEN 16 ELSE 0

FanoutGain(fo) == Improvement(fanoutCount, FanoutTarget, fo, fo + 1) + Reward(fo)
FaninGain(fi) == Improvement(faninCount, FaninTarget, fi, fi + 1) + Reward(fi)

HalfPerimeter(b) == b.ux - b.lx + b.uy - b.ly

\* Mutant: the upper edge follows the latest sink.
GrownToLatest(b, bin) == [lx |-> Least(b.lx, bin[1]), ly |-> Least(b.ly, bin[2]),
                          ux |-> bin[1], uy |-> bin[2]]

\* The box of a node after addSink of a node in the bin
Grown(b, bin) == [lx |-> Least(b.lx, bin[1]), ly |-> Least(b.ly, bin[2]),
                  ux |-> Greatest(b.ux, bin[1]), uy |-> Greatest(b.uy, bin[2])]

\* A box that does not grow counts for nothing, whatever its size's delta is.
BboxGain(u, bin) ==
  LET before == HalfPerimeter(box[u])
      after == HalfPerimeter(Grown(box[u], bin))
  IN  IF before < after
      THEN Improvement(bboxCount, BboxTarget, before, after) ELSE 0
-----------------------------------------------------------------------------
\* fo2Nodes(fo) without the primary outputs
SourcesWith(bin, fo) ==
  {u \in Node : BinOf(u) = bin /\ fanout[u] = fo /\ Type[u] # "PrimaryOut"}

\* localMaxSrcNode is one of the sources with the best box gain; whether that
\* one has a sink left to take is not looked at.
BestSources(bin, sinkBin, fo) ==
  LET candidates == SourcesWith(bin, fo)
  IN  {u \in candidates :
         \A w \in candidates : BboxGain(w, sinkBin) <= BboxGain(u, sinkBin)}

\* Mutants: connected sinks are offered again; the fanins are counted from 1;
\* outputs are offered again; the address is not compared.
SinksForRepeated(u, sinkBin) ==
  {v \in Node :
     /\ BinOf(v) = sinkBin /\ fanin[v] < MaxFanin /\ Type[v] # "PrimaryIn"
     /\ IF Type[v] = "PrimaryOut" THEN Len(sources[v]) = 0
        ELSE BinOf(u) = sinkBin => Addr[u] < Addr[v]}
SinksForDriven(u, sinkBin) == {v \in SinksForRepeated(u, sinkBin) :
                                 fanin[v] > 0 /\ ~ HasConnection(u, v)}
SinksForDrivenOutput(u, sinkBin) ==
  {v \in Node :
     /\ BinOf(v) = sinkBin /\ fanin[v] < MaxFanin /\ Type[v] # "PrimaryIn"
     /\ ~ HasConnection(u, v)
     /\ Type[v] # "PrimaryOut" /\ BinOf(u) = sinkBin => Addr[u] < Addr[v]}
SinksForAnyAddress(u, sinkBin) ==
  {v \in Node :
     /\ BinOf(v) = sinkBin /\ fanin[v] < MaxFanin /\ Type[v] # "PrimaryIn"
     /\ ~ HasConnection(u, v)
     /\ Type[v] = "PrimaryOut" => Len(sources[v]) = 0}

\* The candiSinks of every fanin that survive the `continue's
SinksFor(u, sinkBin) ==
  {v \in Node :
     /\ BinOf(v) = sinkBin
     /\ fanin[v] < MaxFanin
     /\ Type[v] # "PrimaryIn"
     /\ IF Type[v] = "PrimaryOut"
        THEN Len(sources[v]) = 0
        ELSE /\ BinOf(u) = sinkBin => Addr[u] < Addr[v]
             /\ ~ HasConnection(u, v)}

PairGain(u, v, sinkBin) ==
  FaninGain(fanin[v]) + FanoutGain(fanout[u]) + BboxGain(u, sinkBin)

\* `totG > maxG' is strict, so among sinks of equal gain the lowest fanin stays;
\* within one fanin the last of the shuffled sinks does.
BestPairs(u, sinkBin) ==
  LET pairs == {[src |-> u, sink |-> v, gain |-> PairGain(u, v, sinkBin)] :
                  v \in SinksFor(u, sinkBin)}
  IN  {p \in pairs : \A q \in pairs :
         \/ q.gain < p.gain
         \/ q.gain = p.gain /\ fanin[p.sink] <= fanin[q.sink]}

\* Each fanout contributes the pairs of one of its best sources, maybe none.
\* A pair wins over the other fanouts if each may contribute nothing better,
\* and, as the comparison is strict, no lower fanout anything as good.
MaxGain(bin, sinkBin) ==
  LET entries ==
        {[fo |-> fo, pairs |-> {BestPairs(u, sinkBin) :
                                  u \in BestSources(bin, sinkBin, fo)}] :
           fo \in {f \in 0..(MaxFanout - 1) : SourcesWith(bin, f) # {}}}
      Yields(p, e, f) ==
        \E pairs \in f.pairs : \A q \in pairs :
          q.gain < p.gain \/ (q.gain = p.gain /\ e.fo < f.fo)
  IN  UNION {{p \in UNION e.pairs : \A f \in entries \ {e} : Yields(p, e, f)} :
               e \in entries}

\* getMaxGain may also come back with nothing, maxG = -INT_MAX.
MayFindNothing(bin, sinkBin) ==
  \A fo \in 0..(MaxFanout - 1) :
    SourcesWith(bin, fo) # {} =>
      \E u \in BestSources(bin, sinkBin, fo) : SinksFor(u, sinkBin) = {}

\* The pairs a round may connect: one call's pair, if each of the other calls
\* may return nothing better.
Winners(len) ==
  LET calls == {c \in Bins \X Bins : c[2] \in SinkBins(c[1], len)}
      results == {[call |-> c, pairs |-> MaxGain(c[1], c[2]),
                   nothing |-> MayFindNothing(c[1], c[2])] : c \in calls}
  IN  UNION {{p \in r.pairs :
                \A o \in results \ {r} :
                  o.nothing \/ \E q \in o.pairs : q.gain <= p.gain} :
               r \in results}

\* Mutant: the value left behind is not counted down.
MoveUp(count, a, b) == [count EXCEPT ![b] = @ + 1]

\* decr of one value and incr of another
Move(count, a, b) == [[count EXCEPT ![a] = @ - 1] EXCEPT ![b] = @ + 1]

\* Bin::update of both ends of a new edge
UpdateBins(u, v) ==
  /\ fanin' = [fanin EXCEPT ![v] = Len(sources'[v])]
  /\ fanout' = [fanout EXCEPT ![u] = Len(sinks'[u])]

\* Netlist::connect with Bin::update of the two nodes
ConnectNodes(u, v) ==
  LET grown == Grown(box[u], BinOf(v))
      length == Magnitude(X[u] - X[v]) + Magnitude(Y[u] - Y[v])
  IN  /\ Link(u, v)
      /\ faninCount' = Move(faninCount, Len(sources[v]), Len(sources[v]) + 1)
      /\ fanoutCount' = Move(fanoutCount, Len(sinks[u]), Len(sinks[u]) + 1)
      /\ bboxCount' = Move(bboxCount, HalfPerimeter(box[u]), HalfPerimeter(grown))
      /\ edgeCount' = [edgeCount EXCEPT ![length] = @ + 1]
      /\ box' = [box EXCEPT ![u] = grown]
      /\ UpdateBins(u, v)

\* One turn of the while loop that finds a pair; a turn that finds none
\* changes nothing and the loop draws again.
Round(len) ==
  /\ curEdgeCnt < TarEdgeCnt
  /\ EdgeTarget[len] > 0
  /\ \E p \in Winners(len) : ConnectNodes(p.src, p.sink)
  /\ curEdgeCnt' = curEdgeCnt + 1

\* Distribution::init leaves the whole count on value 0, for the nodes it
\* describes as well as for the edges, of which there are none yet.
InitCount(dom, total) == [i \in dom |-> IF i = 0 THEN total ELSE 0]

GainInit ==
  /\ Init
  /\ fanin = [n \in Node |-> 0]
  /\ fanout = [n \in Node |-> 0]
  /\ box = [n \in Node |-> [lx |-> X[n], ly |-> Y[n], ux |-> X[n], uy |-> Y[n]]]
  /\ faninCount = InitCount(0..MaxFanin, Cardinality(Node))
  /\ fanoutCount = InitCount(0..MaxFanout, Cardinality(Node))
  /\ bboxCount = InitCount(Lengths, Cardinality(Node))
  /\ edgeCount = InitCount(Lengths, TarEdgeCnt)
  /\ curEdgeCnt = 0

GainNext == \E len \in Lengths : Round(len)

\* rand() goes on drawing lengths: a length that can be served is drawn.
GainSpec == GainInit /\ [][GainNext]_allVars /\ WF_allVars(GainNext)
-----------------------------------------------------------------------------
Finished == curEdgeCnt = TarEdgeCnt

\* The sinks reached over edges of a given length
EdgesOfLength(len) ==
  {e \in Node \X Node : /\ e[2] \in Range(sinks[e[1]])
                        /\ Magnitude(X[e[1]] - X[e[2]])
                             + Magnitude(Y[e[1]] - Y[e[2]]) = len}

\* The counts the gains are computed from are the histograms of the netlist as
\* it stands; the edges' histogram keeps the total it was filled with on
\* length 0, where Distribution::init put it.
HistogramsExact ==
  /\ \A i \in 0..MaxFanin :
       faninCount[i] = Cardinality({n \in Node : Len(sources[n]) = i})
  /\ \A i \in 0..MaxFanout :
       fanoutCount[i] = Cardinality({n \in Node : Len(sinks[n]) = i})
  /\ \A i \in Lengths :
       bboxCount[i] = Cardinality({n \in Node : HalfPerimeter(box[n]) = i})
  /\ \A i \in Lengths :
       edgeCount[i] = Cardinality(EdgesOfLength(i))
                        + IF i = 0 THEN TarEdgeCnt ELSE 0

\* What getMaxGain looks at instead of the graph is the graph as it stands: a
\* node is in the list of its bin that carries its degree (a stale list hides a
\* node or offers a full one), and lx_..uy_ is the smallest box around a driver
\* and all its sinks.
CachesExact ==
  \A n \in Node :
    LET net == {n} \cup Range(sinks[n])
    IN  /\ fanin[n] = Len(sources[n]) /\ fanout[n] = Len(sinks[n])
        /\ box[n] = [lx |-> Min({X[m] : m \in net}), ly |-> Min({Y[m] : m \in net}),
                     ux |-> Max({X[m] : m \in net}), uy |-> Max({Y[m] : m \in net})]

\* distMatching draws only edges that EdgeMatching allows, so its netlist is
\* free of loops, of repeated edges and of nodes beyond their degree limits.
ImplementsMatching == Spec

Undriven(v) == Type[v] # "PrimaryIn" /\ Len(sources[v]) = 0

\* An undriven node len bins ahead of a source with fanout to spare
Unserved(len) ==
  \E u, v \in Node :
    SourceOpen(u) /\ Undriven(v) /\ BinOf(v) \in SinkBins(BinOf(u), len)

\* The reward of 16 outweighs the distributions: while a round's length leads
\* from an open source to an undriven node in another bin, the round connects
\* a sink without driver or a source without load.
UnservedFirst ==
  [][\A u, v \in Node :
       LET len == X[v] - X[u] + Y[v] - Y[u]
       IN  v \in Range(sinks'[u]) \ Range(sinks[u]) /\ len > 0 /\ Unserved(len)
             => Len(sources[v]) = 0 \/ Len(sinks[u]) = 0]_allVars

\* No node is left without driver while the loop spins on: it gets one, or
\* matching ends, or no sampled length leads to it from a source with fanout
\* to spare.  (The sources of its own bin may all lie behind it.)
UndrivenServed ==
  \A v \in Node :
    Undriven(v) ~>
      \/ ~ Undriven(v)
      \/ Finished
      \/ \A len \in Lengths \ {0}, u \in Node :
           EdgeTarget[len] > 0 /\ SourceOpen(u)
             => BinOf(v) \notin SinkBins(BinOf(u), len)
=============================================================================
