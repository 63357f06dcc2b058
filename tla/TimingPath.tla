----------------------------- MODULE TimingPath -----------------------------
(***************************************************************************)
(* Netlist::timingPathConstruction_v1.  Nodes at the target depth become   *)
(* registers, pass after pass, until no path is too deep.  If that leaves  *)
(* too many registers, pairs of them are merged into one, first in front   *)
(* of the pair and then behind it.  At last every register whose fanin no  *)
(* sequential master has is split into logic and a one-input register.     *)
(*                                                                         *)
(* A node is its position in nodes_, so a new node is the next number.     *)
(* Net boxes and the lists of the bins are not read after matching and are *)
(* left out; the degrees that index those lists stay in range, see         *)
(* DegreesInRange.                                                         *)
(***************************************************************************)
EXTENDS Integers, Sequences, FiniteSets, Functions, SequencesExt, Common

CONSTANTS
  MatchedCnt,          \* nodes left by distMatching: 1..MatchedCnt
  MaxNode,             \* bound on nodes_: room for every merge and split
  DimX, DimY,          \* layoutDimX_, layoutDimY_
  MatchedBin,          \* matched node |-> index of its bin
  MatchedType,         \* matched node |-> NodeType
  MatchedEdges,        \* the sets of edges matching may have drawn
  MaxFanin, MaxFanout, \* fiDist_.xMax(), foDist_.xMax()
  TopoOrder,           \* ceil(avgTopoOrder)
  CombRatio,           \* percentage of logic asked for
  SequFanins           \* fanins for which there is a sequential master

Bins == 0..(DimX * DimY - 1)
NodeType == {"PrimaryIn", "PrimaryOut", "Combinational", "Sequential"}

ASSUME SizeAssumption ==
  /\ MatchedCnt \in Nat /\ MaxNode \in Nat /\ MatchedCnt <= MaxNode
  /\ DimX \in Nat \ {0} /\ DimY \in Nat \ {0}
  /\ MatchedBin \in [1..MatchedCnt -> Bins]
  /\ MatchedType \in [1..MatchedCnt -> NodeType \ {"Sequential"}]

\* The specification file sets the limits, and nothing asks more than 0 of them.
ASSUME DegreeAssumption ==
  /\ MaxFanin \in Nat /\ MaxFanout \in Nat
  /\ TopoOrder \in Nat
  /\ CombRatio \in 0..100
  /\ SequFanins \subseteq 0..MaxFanin

\* What distMatching leaves: edges between matched nodes, within the degrees
\* asked for, that obey the pins and close no loop (module EdgeMatching).
ASSUME EdgeAssumption ==
  \A E \in MatchedEdges :
    /\ E \subseteq (1..MatchedCnt) \X (1..MatchedCnt)
    /\ \A n \in 1..MatchedCnt :
         /\ Cardinality({m \in 1..MatchedCnt : <<m, n>> \in E}) <= MaxFanin
         /\ Cardinality({m \in 1..MatchedCnt : <<n, m>> \in E}) <= MaxFanout
         /\ MatchedType[n] = "PrimaryOut" =>
              Cardinality({m \in 1..MatchedCnt : <<m, n>> \in E}) <= 1
    /\ \A e \in E : /\ MatchedType[e[1]] # "PrimaryOut"
                    /\ MatchedType[e[2]] # "PrimaryIn"
    /\ \A S \in SUBSET (1..MatchedCnt) :
         S # {} => \E n \in S : \A m \in S : <<m, n>> \notin E

VARIABLES
  nodeCnt,             \* nodes_.size()
  bin, type,           \* bin_ and type_ of a node
  sources, sinks,      \* sources_ and sinks_ of a node
  targets,             \* targets: the registers of each bin
  numComb, numSequ,    \* numCombNodes, numSequNodes
  ratio,               \* currentRatio, a numerator and a denominator
  edgeLength, todo,    \* loop over lengths, bins of `idx' still to visit
  cur,                 \* loop index of the splitting loop
  pc                   \* "mark", "front", "back", "split", "done", or undefined

netlist == <<nodeCnt, bin, type, sources, sinks>>
merging == <<targets, numComb, numSequ, ratio, edgeLength, todo>>
vars == <<netlist, merging, cur, pc>>

\* A merge in one of the two loops indexed past the end of a table.
Undefined == {"frontUndefined", "backUndefined"}

Node == 1..MaxNode
nodes == 1..nodeCnt
OfType(t) == {n \in nodes : type[n] = t}

-----------------------------------------------------------------------------
\* The order topologicalSort gives to a node: paths start at registers, at
\* primary inputs and at nodes without driver.
order ==
  LET depth[n \in nodes] ==
        IF type[n] \in {"Sequential", "PrimaryIn"} \/ sources[n] = <<>> THEN 0
        ELSE LET above == {depth[m] : m \in Range(sources[n])}
             IN  1 + CHOOSE d \in above : \A e \in above : e <= d
  IN  depth

targetMaxOrder == TopoOrder + 2

TooDeep == {n \in OfType("Combinational") : order[n] = targetMaxOrder}

\* One pass of the marking loop
MarkPass ==
  /\ pc = "mark"
  /\ TooDeep # {}
  /\ type' = [n \in Node |-> IF n \in TooDeep THEN "Sequential" ELSE type[n]]
  /\ UNCHANGED <<nodeCnt, bin, sources, sinks, merging, cur, pc>>

\* Mutant: a pass may be the last although it marked a node.
SettledEarly == TRUE

\* ~ updated: the pass marks nothing.
Settled == TooDeep = {}

\* The loop ends, and the registers are listed bin by bin.
EndMarking ==
  LET comb == Cardinality(OfType("Combinational"))
      sequ == Cardinality(OfType("Sequential"))
  IN  /\ pc = "mark"
      /\ Settled
      /\ targets' = [b \in Bins |-> {n \in OfType("Sequential") : bin[n] = b}]
      /\ numComb' = comb
      /\ numSequ' = sequ
      /\ ratio' = <<comb, comb + sequ>>
      /\ edgeLength' = 0
      /\ todo' = Bins
      /\ pc' = "front"
      /\ UNCHANGED <<netlist, cur>>
-----------------------------------------------------------------------------
\* currentRatio >= combRatio; false for 0/0
RatioReached == ratio[2] > 0 /\ ratio[1] * 100 >= CombRatio * ratio[2]

Lengths == LET maxLen == CeilDiv(DimX + DimY, 5) IN IF maxLen < 3 THEN 3 ELSE maxLen

Distance(i, j) == IF i < j THEN j - i ELSE i - j

\* The registers in the window of edgeLength bins around a bin
Candidates(id) ==
  UNION {targets[b] : b \in {c \in Bins :
           /\ Distance(c % DimX, id % DimX) <= edgeLength
           /\ Distance(c \div DimX, id \div DimX) <= edgeLength}}

\* The ways std::sort may leave the candidates, by the length of a vector
Sorted(nodeSet, vector) ==
  {s \in SetToSeqs(nodeSet) :
     \A i \in 1..(Len(s) - 1) : Len(vector[s[i]]) <= Len(vector[s[i + 1]])}

\* Mutant: only the loads are counted.
FitsLoads(a, b) == Len(sinks[a]) + Len(sinks[b]) < MaxFanout

\* One register can take the place of a and b.
FitsInFront(a, b) ==
  /\ Len(sources[a]) + Len(sources[b]) <= MaxFanin
  /\ Len(sinks[a]) + Len(sinks[b]) < MaxFanout

\* The front loop takes the first two neighbours that fit ...
FrontPairs(id) ==
  UNION {LET fit == {i \in 1..(Len(s) - 1) : FitsInFront(s[i], s[i + 1])}
         IN  {<<s[i], s[i + 1]>> : i \in {j \in fit : \A k \in fit : j <= k}} :
           s \in Sorted(Candidates(id), sources)}

\* ... the back loop looks at the first two only.
BackPairs(id) ==
  {<<s[1], s[2]>> : s \in
     {t \in Sorted(Candidates(id), sinks) :
        Len(t) > 1 /\ Len(sinks[t[1]]) + Len(sinks[t[2]]) < MaxFanout}}

\* The registers merged in a visit, for one of the orders std::sort may choose
Pairs(id) == IF pc = "front" THEN FrontPairs(id) ELSE BackPairs(id)

\* The sorted candidates with no pair to merge
Unpaired(s) ==
  IF pc = "front" THEN \A i \in 1..(Len(s) - 1) : ~ FitsInFront(s[i], s[i + 1])
  ELSE Len(s) > 1 => Len(sinks[s[1]]) + Len(sinks[s[2]]) >= MaxFanout

\* Some order shows no pair, whatever pairs the others show.
MayFindNone(id) ==
  \E s \in Sorted(Candidates(id), IF pc = "front" THEN sources ELSE sinks) : Unpaired(s)

\* Mutant: what two registers share is pushed twice.
NotDistinct(s) == s

\* push_back of what `find' does not find yet
Distinct(s) ==
  LET first == Ascending({i \in DOMAIN s : \A j \in 1..(i - 1) : s[j] # s[i]})
  IN  [k \in DOMAIN first |-> s[first[k]]]

\* Mutant: the second register's neighbours are lost.
EndsOfFirst(regs, vector) == vector[regs[1]]

\* The neighbours of the registers, one after the other
Ends(regs, vector) ==
  IF Len(regs) = 1 THEN vector[regs[1]] ELSE vector[regs[1]] \o vector[regs[2]]

\* A vector of a neighbour of the registers: the new node is pushed at the end
\* and then removeSink or removeSource takes the old ones out.
Redirected(s, regs, c) ==
  LET without == RemoveFirst(Append(s, c), regs[1])
  IN  IF Len(regs) = 1 THEN without ELSE RemoveFirst(without, regs[2])

\* Mutant: removeAllSinks is forgotten.
NearSideKept(near, regs, c) ==
  [n \in Node |-> IF n = c THEN Distinct(Ends(regs, near))
                  ELSE IF n \in Range(regs) THEN Append(near[n], c) ELSE near[n]]

\* The vectors towards the neighbours that change hands: the new register c has
\* them all, and the old ones have c.
NearSide(near, regs, c) ==
  [n \in Node |-> IF n = c THEN Distinct(Ends(regs, near))
                  ELSE IF n \in Range(regs) THEN <<c>> ELSE near[n]]

\* The vectors the other way: c has the old registers, their neighbours have c.
FarSide(near, far, regs, c) ==
  [n \in Node |-> IF n = c THEN regs
                  ELSE IF n \in Range(Ends(regs, near))
                  THEN Redirected(far[n], regs, c) ELSE far[n]]

\* addSources and addSink of the new register c, removeAllSources and addSource
\* of the registers behind it
MoveInFront(regs, c) ==
  /\ sources' = NearSide(sources, regs, c)
  /\ sinks' = FarSide(sources, sinks, regs, c)

\* addSinks and addSource of the new register c, removeAllSinks and addSink of
\* the registers before it
MoveBehind(regs, c) ==
  /\ sinks' = NearSide(sinks, regs, c)
  /\ sources' = FarSide(sinks, sources, regs, c)

\* Mutant: the old registers stay registers.
NewRegisterToo(regs) ==
  /\ nodeCnt' = nodeCnt + 1
  /\ bin' = [bin EXCEPT ![nodeCnt + 1] = bin[regs[1]]]
  /\ type' = [type EXCEPT ![nodeCnt + 1] = "Sequential"]

\* Mutant: the new node is logic, too.
NewLogic(regs) ==
  /\ nodeCnt' = nodeCnt + 1
  /\ bin' = [bin EXCEPT ![nodeCnt + 1] = bin[regs[1]]]
  /\ type' = [n \in Node |-> IF n = nodeCnt + 1 \/ n \in Range(regs)
                             THEN "Combinational" ELSE type[n]]

\* The new node is a register in the bin of the first one; those become logic.
NewRegister(regs) ==
  /\ nodeCnt' = nodeCnt + 1
  /\ bin' = [bin EXCEPT ![nodeCnt + 1] = bin[regs[1]]]
  /\ type' = [n \in Node |-> IF n = nodeCnt + 1 THEN "Sequential"
                             ELSE IF n \in Range(regs) THEN "Combinational"
                             ELSE type[n]]

\* Mutant: one of the two old registers stays listed.
TargetsHalf(regs) ==
  [b \in Bins |-> (targets[b] \ {regs[1]})
                    \cup IF b = bin[regs[1]] THEN {nodeCnt + 1} ELSE {}]

\* erase of the old registers, push_back of the new one
TargetsAfter(regs) ==
  [b \in Bins |-> (targets[b] \ Range(regs))
                    \cup IF b = bin[regs[1]] THEN {nodeCnt + 1} ELSE {}]

\* The degrees of the new register index fi2Nodes_ and fo2Nodes_ of its bin,
\* which have entries up to the limits.  The loop before it has checked the
\* neighbours, and the back loop the loads only, but not the old registers.
Indexable(regs) ==
  IF pc = "front"
  THEN Len(Distinct(Ends(regs, sources))) <= MaxFanin /\ Len(regs) <= MaxFanout
  ELSE Len(regs) <= MaxFanin /\ Len(Distinct(Ends(regs, sinks))) <= MaxFanout

\* createMergeNode and the bookkeeping of the two loops after it
Merge(regs) ==
  /\ nodeCnt < MaxNode
  /\ Indexable(regs)
  /\ NewRegister(regs)
  /\ IF pc = "front" THEN MoveInFront(regs, nodeCnt + 1)
                     ELSE MoveBehind(regs, nodeCnt + 1)
  /\ targets' = TargetsAfter(regs)
  /\ numComb' = numComb + 2
  /\ numSequ' = numSequ - 1
  /\ ratio' = <<numComb' + numSequ', numComb' + 2 * numSequ'>>

\* One bin of a loop over `idx', which random_shuffle has put in any order
VisitBin(id) ==
  /\ pc \in {"front", "back"} /\ ~ RatioReached
  /\ id \in todo
  /\ todo' = todo \ {id}
  /\ \/ \E regs \in Pairs(id) : Merge(regs)
     \/ MayFindNone(id) /\ UNCHANGED <<netlist, targets, numComb, numSequ, ratio>>
  /\ UNCHANGED <<edgeLength, cur, pc>>

\* Bin::update of a new register beyond the tables; nothing is known of what
\* follows.
Overrun(id) ==
  /\ pc \in {"front", "back"} /\ ~ RatioReached
  /\ id \in todo
  /\ \E regs \in Pairs(id) : ~ Indexable(regs)
  /\ pc' = IF pc = "front" THEN "frontUndefined" ELSE "backUndefined"
  /\ UNCHANGED <<netlist, merging, cur>>

NextLength ==
  /\ pc \in {"front", "back"} /\ ~ RatioReached
  /\ todo = {}
  /\ edgeLength + 1 < Lengths
  /\ edgeLength' = edgeLength + 1
  /\ todo' = Bins
  /\ UNCHANGED <<netlist, targets, numComb, numSequ, ratio, cur, pc>>

LeaveLoop ==
  /\ pc \in {"front", "back"}
  /\ RatioReached \/ (todo = {} /\ edgeLength + 1 >= Lengths)
  /\ edgeLength' = 0
  /\ todo' = Bins
  /\ pc' = IF pc = "front" THEN "back" ELSE "split"
  /\ UNCHANGED <<netlist, targets, numComb, numSequ, ratio, cur>>
-----------------------------------------------------------------------------
\* Mutants: any register will do; none will.
HasAnyMaster(n) == TRUE
HasNoMaster(n) == FALSE

\* hasMaster(node->numFanins(), true)
HasMaster(n) == Len(sources[n]) \in SequFanins

\* One turn of the splitting loop; nodes_ grows under it.
\* insertSequentialNode(node, false) puts the new register behind the node.
SplitOff ==
  /\ pc = "split" /\ cur <= nodeCnt
  /\ type[cur] = "Sequential" /\ ~ HasMaster(cur)
  /\ nodeCnt < MaxNode
  /\ NewRegister(<<cur>>)
  /\ MoveBehind(<<cur>>, nodeCnt + 1)
  /\ cur' = cur + 1
  /\ UNCHANGED <<merging, pc>>

KeepNode ==
  /\ pc = "split" /\ cur <= nodeCnt
  /\ type[cur] = "Sequential" => HasMaster(cur)
  /\ cur' = cur + 1
  /\ UNCHANGED <<netlist, merging, pc>>

Finish ==
  /\ pc = "split" /\ cur > nodeCnt
  /\ pc' = "done"
  /\ UNCHANGED <<netlist, merging, cur>>
-----------------------------------------------------------------------------
\* Matching drew one of the sets of edges; the order of arrival of the edges of
\* one node is that of the nodes' numbers.
Init ==
  /\ nodeCnt = MatchedCnt
  /\ bin = [n \in Node |-> IF n <= MatchedCnt THEN MatchedBin[n] ELSE 0]
  /\ type = [n \in Node |-> IF n <= MatchedCnt THEN MatchedType[n]
                            ELSE "Combinational"]
  /\ \E E \in MatchedEdges :
       /\ sources = [n \in Node |-> Ascending({m \in Node : <<m, n>> \in E})]
       /\ sinks = [n \in Node |-> Ascending({m \in Node : <<n, m>> \in E})]
  /\ targets = [b \in Bins |-> {}]
  /\ numComb = 0 /\ numSequ = 0 /\ ratio = <<0, 0>>
  /\ edgeLength = 0 /\ todo = {}
  /\ cur = 1
  /\ pc = "mark"

Next ==
  \/ MarkPass \/ EndMarking
  \/ \E id \in Bins : VisitBin(id) \/ Overrun(id)
  \/ NextLength \/ LeaveLoop
  \/ SplitOff \/ KeepNode \/ Finish

\* One thread runs the loops to their end.
Spec == Init /\ [][Next]_vars /\ WF_vars(Next)
-----------------------------------------------------------------------------
\* The rewiring never leaves the two vectors of a connection at odds and never
\* stores a connection twice, whatever neighbours two merged registers share
\* and even when one of them drives the other.
VectorsAgree ==
  /\ \A m, n \in nodes : n \in Range(sinks[m]) <=> m \in Range(sources[n])
  /\ \A n \in nodes : IsInjective(sources[n]) /\ IsInjective(sinks[n])

\* Fanin and fanout stay within what matching was given: Bin::update indexes
\* fi2Nodes_ and fo2Nodes_ with them, hasMaster the table of masters.  Two merged
\* registers count as well: the front loop, which leaves room for one load more,
\* runs past the tables only with a limit of one load, and the back loop, which
\* does not count drivers, only with a limit of one driver.
DegreesInRange ==
  /\ \A n \in nodes : Len(sources[n]) <= MaxFanin /\ Len(sinks[n]) <= MaxFanout
  /\ pc = "frontUndefined" => MaxFanout < 2
  /\ pc = "backUndefined" => MaxFanin < 2

\* While registers are merged, each is listed once, in its own bin, and the
\* running counts the ratio is computed from are those of the netlist.
TablesExact ==
  pc \in {"front", "back"} =>
    /\ \A b \in Bins : targets[b] = {n \in OfType("Sequential") : bin[n] = b}
    /\ numComb = Cardinality(OfType("Combinational"))
    /\ numSequ = Cardinality(OfType("Sequential"))

\* Marking ends with no path longer than the target: logic stays below it and
\* a primary output may be at it.
DepthBounded ==
  pc = "front" /\ nodeCnt = MatchedCnt =>
    \A n \in nodes :
      /\ order[n] <= targetMaxOrder
      /\ type[n] = "Combinational" => order[n] < targetMaxOrder

\* When the loops are done a sequential master exists for every register.
RegistersMappable ==
  pc = "done" => \A n \in OfType("Sequential") : Len(sources[n]) \in SequFanins

\* No path leaves the nodes S.
Closed(S) == \A m \in S : Range(sinks[m]) \subseteq S

\* Rewiring cuts no path: what a node drove, directly or through others, it
\* still drives after a merge or a split.  Nodes that no path leaves then, no
\* path left before.
PathsKept == [][\A S \in SUBSET nodes' : Closed(S)' => Closed(S \cap nodes)]_vars

\* Every step is a marking pass, a merge or a split of the abstract rewiring,
\* which keeps the netlist free of combinational loops (module Rewiring).
\* The relation the vectors hold
edges == {e \in Node \X Node : e[2] \in Range(sinks[e[1]])}
Abstract == INSTANCE Rewiring WITH Matched <- 1..MatchedCnt
ImplementsRewiring == Abstract!Spec

\* However registers are merged, a primary output keeps its one driver and no
\* node drives a primary input.
PinRules == Abstract!PinRules

\* Merging turns registers back into logic, also where one drives the other:
\* the new register sits on every loop this closes.
NoCombLoop == Abstract!NoCombLoop

\* The loops end: merging visits each bin once per length, and splitting, which
\* lengthens the list it walks, appends registers it will not split again.
Terminates == <>(pc \in {"done"} \cup Undefined)
=============================================================================
