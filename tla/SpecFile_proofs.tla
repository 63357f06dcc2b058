--------------------------- MODULE SpecFile_proofs ---------------------------
(***************************************************************************)
(* What create_spec asks for survives the file, the file survives its      *)
(* reader, and the layout grown for it holds every node: for any number of *)
(* instances, any lines, any shape of distribution and any pins asked for. *)
(*                                                                         *)
(* The invariant has one part per stage of a behaviour.                    *)
(*   CreateInv   The counts sampled so far are at least the share of their *)
(*               weights, or all instances are gone (Enough): once every   *)
(*               value has its count, the counts add up.  The layout of    *)
(*               the reader is never larger than the one createSpec wrote  *)
(*               lines for: both grow in the same staircase, and the       *)
(*               reader stops at a number of bins the other has reached.   *)
(*   LinesInv    The vector of ratios covers the lines read, and what      *)
(*               resize and push_back leave in it sums up to their ratios. *)
(*   TargetInv   Enough again, for the targets, and a bound from above:    *)
(*               one more for each ratio above 0.                          *)
(*   PlanInv     The pins taken are just the nodes of the bins scanned; a  *)
(*               scan that gives up has therefore seen them all.           *)
(***************************************************************************)
EXTENDS SpecFile, Common_proofs

\* A root rounded up
LEMMA CeilSqrtNat ==
  ASSUME NEW n \in Nat
  PROVE  CeilSqrt(n) \in Nat
<1> DEFINE roots == {k \in 0..n : k * k >= n}
<1>1. roots \in SUBSET Nat
  OBVIOUS
<1>2. n \in roots
  <2>1. n * n >= n
    <3>1. CASE n = 0
      BY <3>1
    <3>2. CASE n >= 1
      BY <3>2
    <3> QED
      BY <3>1, <3>2
  <2> QED
    BY <2>1
<1>3. PICK k \in roots : \A j \in roots : k <= j
  <2> HIDE DEF roots
  <2> QED
    BY <1>1, <1>2, NatLeast
<1>4. \A j \in 0..(k - 1) : j * j < n
  <2> SUFFICES ASSUME NEW j \in 0..(k - 1) PROVE j * j < n
    OBVIOUS
  <2>1. k \in 0..n
    BY <1>3
  <2>2. j \in 0..n /\ j < k
    BY <2>1
  <2>3. j \notin roots
    BY <1>3, <2>1, <2>2
  <2> QED
    BY <2>2, <2>3
<1>5. k \in 0..n /\ k * k >= n
  BY <1>3
<1>6. CeilSqrt(n) \in 0..n
  BY <1>4, <1>5 DEF CeilSqrt
<1> QED
  BY <1>6

(***************************************************************************)
(* The inductive invariant                                                 *)
(***************************************************************************)
\* Both layouts grow a column and a row in turn.
Staircase(x, y) == x \in Nat \ {0} /\ y \in Nat \ {0} /\ (x = y \/ x = y + 1)

Creating == {"dims", "shape", "search", "count"}
Sharing == {"lines", "targets", "ready", "done", "undefined"}
Planning == {"inputs", "outputs", "done", "exit"}

SpecTypeOK ==
  /\ pc \in Creating \cup {"read", "layout"} \cup Sharing
  /\ stage \in {"unread", "layout"} \cup Planning
  /\ kinds \in Pairs \cup {<<>>}
  /\ numInsts \in Nat \ {0} /\ numEdges \in Nat \ {0}
  /\ Staircase(dimX, dimY) /\ Staircase(layoutDimX, layoutDimY)

\* The values in D have got at least their share of the rolls, or all are gone.
Enough(w, D, tot, rolls) ==
  tot = rolls \/ SumFunctionOnSet(w, D) * rolls <= tot * Total(w)

\* The lines of a histogram so far
Sampling ==
  /\ weights \in [Sampled(kind) -> Nat \ {0}]
  /\ DOMAIN samples \subseteq Sampled(kind) /\ samples \in [DOMAIN samples -> Nat]
  /\ Total(samples) <= Rolls(kind)
  /\ Enough(weights, DOMAIN samples, Total(samples), Rolls(kind))

\* What create_spec has made so far
CreateInv ==
  /\ pc \in Creating \cup {"read"} => stage = "unread" /\ kinds \in Pairs
  /\ pc \in {"dims", "shape", "search"} => samples = <<>>
  /\ pc = "count" => Sampling
  /\ kinds # <<>> =>
       /\ pc # "dims" => dimX * dimY >= binsWanted
       /\ fanins # <<>> => Total(fanins) = numInsts
       /\ pc \notin Creating => /\ fanins # <<>> /\ Total(samples) = Rolls(kinds[2])
                              /\ samples \in [Sampled(kinds[2]) -> Nat]
       /\ pc \notin Creating \cup {"read"} => instanceCnt = numInsts
       /\ layoutDimX + layoutDimY <= dimX + dimY

Line0 == [value : Nat, ratio : Nat]
RatioOf == [i \in DOMAIN lines |-> lines[i].ratio]

\* The vector of ratios covers the lines read, and keeps the sum of their ratios.
\* Values that rise have an entry of their own each.
LinesInv ==
  /\ lines \in Seq(Line0) /\ max \in Nat /\ totalCnt \in Nat
  /\ tr \in Seq(Nat) /\ nextLine \in 1..(Len(lines) + 1)
  /\ \A i \in 1..(nextLine - 1) : lines[i].value < Len(tr)
  /\ SumOf(tr) = SumFunctionOnSet(RatioOf, 1..(nextLine - 1))
  /\ Rising =>
       /\ \A i \in 1..(nextLine - 1) : tr[lines[i].value + 1] = lines[i].ratio
       /\ \A i \in nextLine..Len(lines) : Len(tr) <= lines[i].value
       /\ \A k \in 1..Len(tr) :
            tr[k] > 0 => \E i \in 1..(nextLine - 1) : lines[i].value + 1 = k
  /\ WellFormed => Len(tr) <= max + 1
  /\ pc \in Creating \cup {"read", "layout"} => lines = <<>> /\ tr = <<>> /\ nextLine = 1
  /\ pc \in Sharing => totalTarRatio > 0
  /\ pc \in Sharing \ {"lines"} => nextLine = Len(lines) + 1
  /\ pc \in Sharing /\ kinds # <<>> => \E i \in DOMAIN lines : lines[i].value >= max

TargetOf == [k \in DOMAIN info |-> info[k].target]

\* Entries up to k that ask for a share
Asking(k) == {j \in 1..k : tr[j] > 0}

\* The targets set so far share out the total: at least what the ratios ask for,
\* or all of it, and at most one more for each ratio above 0.
TargetInv ==
  /\ info \in Seq([target : Nat, count : Nat])
  /\ Len(info) <= max + 1 /\ Len(info) <= Len(tr)
  /\ pc \notin Sharing \ {"lines"} => info = <<>>
  /\ totalTarCnt = SumFunctionOnSet(TargetOf, 1..Len(info)) /\ totalTarCnt <= totalCnt
  /\ Enough(tr, 1..Len(info), totalTarCnt, totalCnt)
  /\ totalTarRatio * totalTarCnt <=
       totalCnt * SumFunctionOnSet(tr, 1..Len(info)) + totalTarRatio * Cardinality(Asking(Len(info)))
  /\ \A k \in 1..Len(info) :
       LET got == totalTarRatio * info[k].target
           off == totalTarRatio * Cardinality(Asking(k))
       IN  got - totalCnt * tr[k] <= off /\ totalCnt * tr[k] - got <= off
  /\ pc \in {"ready", "done"} => Len(info) = max + 1
  /\ pc = "undefined" => Len(tr) <= max
  /\ pc = "done" => Len(sampling) = totalTarCnt

Vector(s, S) == s \in Seq(S) /\ IsInjective(s)

\* Pins taken so far
InputsTaken ==
  /\ scan.y = 0 /\ scan.x \in 0..(layoutDimX - 1)
  /\ Range(primIns) = {n \in Node : place[n] < scan.x}
  /\ Len(primIns) < Wanted(inputPinCnt)
  /\ primOuts = <<>>
  /\ \A n \in Node : type[n] # "PrimaryOut"

OutputsTaken ==
  /\ scan.x = layoutDimX - 1 /\ scan.y \in 0..(layoutDimY - 1)
  /\ Range(primOuts) = {n \in LastColumn : BinY(place[n]) > scan.y}
  /\ Len(primOuts) < Wanted(outputPinCnt)

PlanInv ==
  /\ initCellCnt \in Nat /\ inputPinCnt \in Nat /\ outputPinCnt \in Nat
  /\ scan \in [x : Int, y : Int]
  /\ Vector(primIns, Node) /\ Vector(primOuts, Node)
  /\ stage \in {"unread", "layout"} =>
       primIns = <<>> /\ primOuts = <<>> /\ scan = [x |-> 0, y |-> 0]
  /\ stage \in Planning => place \in [Node -> 0..(binCnt - 1)] /\ DOMAIN type = Node
  /\ \A n \in Range(primIns) :
       /\ place[n] < layoutDimX
       /\ type[n] = "PrimaryIn" \/ (type[n] = "PrimaryOut" /\ place[n] = layoutDimX - 1)
  /\ stage \in Planning =>
       \A n \in Node : type[n] = "PrimaryOut" <=> n \in Range(primOuts)
  /\ stage = "inputs" => InputsTaken
  /\ stage = "outputs" => OutputsTaken
  /\ stage \in {"outputs", "done"} => Len(primIns) = Wanted(inputPinCnt)
  /\ stage = "done" => Len(primOuts) = Wanted(outputPinCnt)
  /\ stage = "exit" => \/ Wanted(inputPinCnt) > Cardinality(FrontRow)
                       \/ Wanted(outputPinCnt) > Cardinality(LastColumn)

IInv == SpecTypeOK /\ CreateInv /\ LinesInv /\ TargetInv /\ PlanInv
-----------------------------------------------------------------------------
\* Kinds, counters and layouts
LEMMA InitType == Init => SpecTypeOK
<1> SUFFICES ASSUME Init PROVE SpecTypeOK
  OBVIOUS
<1>1. CASE LinesByHand
  BY <1>1 DEF Init, LinesByHand, DistInit, NoPlan, Unasked, EmptyPlan, SpecTypeOK, Creating, Sharing,
              Planning, Staircase
<1>2. CASE CountsByHand
  BY <1>2 DEF Init, CountsByHand, PlanInit, Unasked, EmptyPlan, SpecTypeOK, Creating, Sharing,
              Planning, Staircase
<1>3. CASE Created
  <2>1. PICK deg \in Degrees : numEdges = CeilDiv(numInsts * deg, 10)
    BY <1>3 DEF Created
  <2>2. numInsts \in Nat \ {0} /\ deg \in Nat
    BY <1>3, <2>1, SpecFileAssumption DEF Created
  <2>3. numInsts * deg \in Nat \ {0}
    <3>1. deg # 0
      BY <2>1, SpecFileAssumption
    <3> QED
      BY <2>2, <3>1
  <2>4. numEdges \in Nat /\ numInsts * deg <= numEdges * 10
    BY <2>1, <2>3, CeilDivBounds
  <2>5. numEdges # 0
    BY <2>3, <2>4
  <2> QED
    BY <1>3, <2>2, <2>4, <2>5 DEF Init, Created, NoPlan, EmptyPlan, SpecTypeOK, Creating, Sharing,
              Planning, Staircase
<1> QED
  BY <1>1, <1>2, <1>3 DEF Init

LEMMA NextType == SpecTypeOK /\ [Next]_vars => SpecTypeOK'
<1> SUFFICES ASSUME SpecTypeOK, [Next]_vars PROVE SpecTypeOK'
  OBVIOUS
<1> USE DEF SpecTypeOK, Staircase
<1>1. CASE GrowDims
  BY <1>1 DEF GrowDims, Creating, request, expected, made, planVars, layout
<1>2. CASE BeginSearch
  BY <1>2 DEF BeginSearch, Creating, createVars, request, expected, planVars, layout
<1>3. CASE TurnSearch
  BY <1>3 DEF TurnSearch, createVars, request, expected, planVars, layout
<1>4. CASE EndSearch
  BY <1>4 DEF EndSearch, Creating, request, expected, planVars, layout
<1>5. CASE CountValue
  BY <1>5 DEF CountValue, request, expected, planVars, layout
<1>6. CASE EndSampling
  BY <1>6 DEF EndSampling, Creating, request, expected, planVars, layout
<1>7. CASE ReadSpec
  BY <1>7 DEF ReadSpec, request, expected, layout
<1>8. CASE Initialize
  BY <1>8 DEF Initialize, PlanNext, GrowLayout, PlaceNodes, ScanInputs, ScanOutputs, createVars,
              request, expected, layout, distVars, Planning
<1>9. CASE InitDistribution
  BY <1>9 DEF InitDistribution, createVars, request, expected, planVars, layout, Sharing
<1>10. CASE DistNext /\ UNCHANGED <<createVars, planVars, searchVars>>
  BY <1>10 DEF DistNext, ReadLine, EndLines, SetTarget, ReadBehindEnd, SetCount, GetSamplingVector,
               createVars, request, expected, planVars, layout, Sharing
<1>11. CASE UNCHANGED vars
  BY <1>11 DEF vars, createVars, request, expected, planVars, layout, distVars
<1> QED
  BY <1>1, <1>2, <1>3, <1>4, <1>5, <1>6, <1>7, <1>8, <1>9, <1>10, <1>11 DEF Next
-----------------------------------------------------------------------------
Kinds == {"FANIN", "FANOUT", "NETBBOX", "WINDOW"}

\* Every histogram has a value to sample.
LEMMA SampledValues ==
  ASSUME SpecTypeOK, NEW k \in Kinds
  PROVE  /\ Sampled(k) \in SUBSET Nat /\ IsFiniteSet(Sampled(k)) /\ Sampled(k) # {}
         /\ Rolls(k) \in Nat
         /\ MaxOf(k) \in Nat /\ Sampled(k) \subseteq 0..MaxOf(k)
<1>1. dimX \in Nat \ {0} /\ dimY \in Nat \ {0} /\ numInsts \in Nat /\ numEdges \in Nat
  BY DEF SpecTypeOK, Staircase
<1>2. MaxFanins \in Nat \ {0} /\ MaxFanouts \in Nat \ {0, 1}
  BY SpecFileAssumption
<1>3. Rolls(k) \in Nat
  BY <1>1 DEF Rolls
<1>4. k \in {"NETBBOX", "WINDOW"} => MaxOf(k) = dimX + dimY /\ MinOf(k) = 0
  BY DEF MaxOf, MinOf, Lengthy
<1>5. k = "FANIN" => MaxOf(k) = MaxFanins /\ MinOf(k) = 1
  BY DEF MaxOf, MinOf, Lengthy
<1>6. k = "FANOUT" => MaxOf(k) = MaxFanouts /\ MinOf(k) = 1
  BY DEF MaxOf, MinOf, Lengthy
<1>7. PICK a \in Nat, b \in Nat : Sampled(k) = a..b /\ a <= b
  BY <1>1, <1>2, <1>4, <1>5, <1>6 DEF Sampled, Kinds
<1>8. IsFiniteSet(Sampled(k)) /\ Sampled(k) # {} /\ Sampled(k) \in SUBSET Nat
  <2>1. a \in a..b
    BY <1>7
  <2>2. a..b \subseteq Nat
    OBVIOUS
  <2>3. IsFiniteSet(a..b)
    BY FS_Interval
  <2> QED
    BY <1>7, <2>1, <2>2, <2>3
<1>9. MaxOf(k) \in Nat
  BY <1>1, <1>2, <1>4, <1>5, <1>6 DEF Kinds
<1>10. Sampled(k) \subseteq 0..MaxOf(k)
  BY <1>1, <1>2, <1>4, <1>5, <1>6, <1>9 DEF Sampled, Kinds
<1> QED
  BY <1>3, <1>8, <1>9, <1>10

\* The histogram being made is one of the pair.
LEMMA KindOfPair ==
  ASSUME kinds \in Pairs
  PROVE  kind \in Kinds /\ kinds[1] = "FANIN" /\ kinds[2] \in Kinds \ {"FANIN"} /\ kinds # <<>>
BY DEF Pairs, kind, Kinds

\* A count is at least the share of its value.
LEMMA CountBounds ==
  ASSUME NEW w \in Nat, NEW sum \in Nat \ {0}, NEW rolls \in Nat, NEW c \in Counts(w, sum, rolls)
  PROVE  c \in Nat /\ w * rolls <= c * sum
<1>1. PICK n \in Nat : n = w * rolls
  OBVIOUS
<1>2. CeilDiv(n, sum) \in Nat /\ n <= CeilDiv(n, sum) * sum
  BY CeilDivBounds
<1>3. n \div sum \in Nat /\ n < (n \div sum) * sum + sum
  BY QuotientBounds
<1>4. PICK q \in Nat : q = n \div sum
  BY <1>3
<1>5. q + 1 \in Nat /\ n <= (q + 1) * sum
  BY <1>3, <1>4
<1>6. c = CeilDiv(n, sum) \/ c = q + 1
  BY <1>1, <1>4 DEF Counts
<1> QED
  BY <1>1, <1>2, <1>5, <1>6

\* Sums of counts, and of any of them
LEMMA TotalOfNats ==
  ASSUME NEW S, IsFiniteSet(S), NEW h \in [S -> Nat]
  PROVE  /\ Total(h) = SumFunctionOnSet(h, S) /\ Total(h) \in Nat
         /\ \A D \in SUBSET S : SumFunctionOnSet(h, D) \in Nat
<1>1. Total(h) = SumFunctionOnSet(h, S)
  BY DEF Total, SumFunction
<1>2. ASSUME NEW D \in SUBSET S PROVE SumFunctionOnSet(h, D) \in Nat
  <2>1. IsFiniteSet(D) /\ \A i \in D : h[i] \in Nat
    BY FS_Subset
  <2> QED
    BY <2>1, SumOfNats
<1> QED
  BY <1>1, <1>2

LEMMA TotalOfWeights ==
  ASSUME NEW S, IsFiniteSet(S), S # {}, NEW w \in [S -> Nat \ {0}]
  PROVE  Total(w) \in Nat \ {0}
<1>1. w \in [S -> Nat]
  OBVIOUS
<1>2. Total(w) = SumFunctionOnSet(w, S) /\ Total(w) \in Nat
  BY <1>1, TotalOfNats
<1>3. PICK x \in S : TRUE
  OBVIOUS
<1>4. w[x] <= Total(w)
  BY <1>1, <1>2, SumOfNats
<1>5. w[x] \in Nat \ {0}
  OBVIOUS
<1> QED
  BY <1>2, <1>4, <1>5

\* The count of one more value keeps the share, or takes all that is left.
LEMMA EnoughStep ==
  ASSUME NEW S, IsFiniteSet(S), S # {}, NEW w \in [S -> Nat \ {0}],
         NEW D \in SUBSET S, NEW v \in S \ D,
         NEW tot \in Nat, NEW rolls \in Nat, tot <= rolls, Enough(w, D, tot, rolls),
         NEW count \in Counts(w[v], Total(w), rolls)
  PROVE  LET c == Cut(count, rolls, tot)
         IN  c \in Nat /\ tot + c <= rolls /\ Enough(w, D \cup {v}, tot + c, rolls)
<1> DEFINE T == Total(w)
           s == SumFunctionOnSet(w, D)
           u == SumFunctionOnSet(w, D \cup {v})
<1>1. w \in [S -> Nat] /\ w[v] \in Nat \ {0}
  OBVIOUS
<1>2. T \in Nat \ {0}
  BY TotalOfWeights
<1>3. s \in Nat /\ u \in Nat
  BY <1>1, TotalOfNats
<1>4. count \in Nat /\ w[v] * rolls <= count * T
  BY <1>1, <1>2, CountBounds
<1>5. u = w[v] + s
  <2>1. IsFiniteSet(D \cup {v}) /\ (D \cup {v}) \ {v} = D
    BY FS_Subset
  <2>2. \A i \in D \cup {v} : w[i] \in Int
    OBVIOUS
  <2> QED
    BY <2>1, <2>2, SumWithout
<1>6. Enough(w, D \cup {v}, tot + count, rolls) \/ tot = rolls
  <2>1. SUFFICES ASSUME tot # rolls PROVE u * rolls <= (tot + count) * T
    BY DEF Enough
  <2>2. s * rolls <= tot * T
    BY <2>1 DEF Enough
  <2> DEFINE W == w[v]
  <2> HIDE DEF T, s, u, W
  <2>3. u = W + s /\ W * rolls <= count * T /\ W \in Nat
    BY <1>1, <1>4, <1>5 DEF W
  <2>4. u * rolls = W * rolls + s * rolls
    BY <1>3, <2>3
  <2>5. (tot + count) * T = tot * T + count * T
    BY <1>2, <1>4
  <2>6. /\ W * rolls \in Int /\ s * rolls \in Int /\ tot * T \in Int /\ count * T \in Int
    BY <1>2, <1>3, <1>4, <2>3
  <2> QED
    BY <2>2, <2>3, <2>4, <2>5, <2>6
<1>7. CASE tot + count > rolls
  <2>1. Cut(count, rolls, tot) = rolls - tot
    BY <1>7 DEF Cut
  <2> QED
    BY <2>1 DEF Enough
<1>8. CASE ~ (tot + count > rolls)
  <2>1. Cut(count, rolls, tot) = count /\ tot + count <= rolls
    BY <1>4, <1>8 DEF Cut
  <2>2. tot = rolls => tot + count = rolls
    BY <1>4, <2>1
  <2> QED
    BY <1>4, <1>6, <2>1, <2>2 DEF Enough
<1> QED
  BY <1>7, <1>8

LEMMA CancelFactor ==
  ASSUME NEW d \in Nat \ {0}, NEW tot \in Nat, NEW rolls \in Nat, tot <= rolls,
         tot = rolls \/ d * rolls <= tot * d
  PROVE  tot = rolls
<1> SUFFICES ASSUME tot < rolls, d * rolls <= tot * d PROVE FALSE
  OBVIOUS
<1>1. PICK e \in Nat \ {0} : rolls = tot + e
  <2>1. rolls - tot \in Nat \ {0} /\ rolls = tot + (rolls - tot)
    OBVIOUS
  <2> QED
    BY <2>1
<1>2. d * rolls = tot * d + d * e
  BY <1>1
<1>3. d * e >= 1 /\ tot * d \in Nat
  BY <1>1
<1> QED
  BY <1>1, <1>2, <1>3

\* When every value has been sampled, the counts add up to the rolls.
LEMMA EnoughEnds ==
  ASSUME NEW S, IsFiniteSet(S), S # {}, NEW w \in [S -> Nat \ {0}],
         NEW tot \in Nat, NEW rolls \in Nat, tot <= rolls, Enough(w, S, tot, rolls)
  PROVE  tot = rolls
<1> DEFINE T == Total(w)
<1>1. T \in Nat \ {0} /\ SumFunctionOnSet(w, S) = T
  <2>1. w \in [S -> Nat]
    OBVIOUS
  <2> QED
    BY <2>1, TotalOfWeights, TotalOfNats
<1> HIDE DEF T
<1>2. tot = rolls \/ T * rolls <= tot * T
  BY <1>1 DEF Enough, T
<1> QED
  BY <1>1, <1>2, CancelFactor
-----------------------------------------------------------------------------
LEMMA InitCreate == Init => CreateInv
<1> SUFFICES ASSUME Init PROVE CreateInv
  OBVIOUS
<1>1. CASE LinesByHand
  BY <1>1 DEF Init, LinesByHand, DistInit, Unasked, CreateInv, Creating
<1>2. CASE CountsByHand
  BY <1>2 DEF Init, CountsByHand, Unasked, CreateInv, Creating
<1>3. CASE Created
  BY <1>3 DEF Init, Created, NoPlan, EmptyPlan, CreateInv, Creating
<1> QED
  BY <1>1, <1>2, <1>3 DEF Init

\* The values and the rolls of the kind being made
LEMMA KindKept ==
  ASSUME UNCHANGED <<request, expected, fanins>>
  PROVE  (kind)' = kind /\ Sampled(kind)' = Sampled(kind) /\ Rolls(kind)' = Rolls(kind)
BY DEF request, expected, kind, Sampled, MaxOf, MinOf, Rolls

\* One value sampled
LEMMA CountKeeps == SpecTypeOK /\ CreateInv /\ CountValue => Sampling'
<1> SUFFICES ASSUME SpecTypeOK, CreateInv, CountValue PROVE Sampling'
  OBVIOUS
<1> DEFINE S == Sampled(kind)
           R == Rolls(kind)
           D == DOMAIN samples
           open == DOMAIN weights \ D
           v == CHOOSE x \in open : \A y \in open : x <= y
<1>1. Sampling /\ kinds \in Pairs
  BY DEF CountValue, CreateInv, Creating
<1>2. kind \in Kinds
  BY <1>1, KindOfPair
<1>3. S \in SUBSET Nat /\ IsFiniteSet(S) /\ S # {} /\ R \in Nat
  BY <1>2, SampledValues
<1>4. /\ weights \in [S -> Nat \ {0}] /\ D \in SUBSET S /\ samples \in [D -> Nat]
      /\ Total(samples) <= R /\ Enough(weights, D, Total(samples), R)
  BY <1>1 DEF Sampling
<1>5. v \in S \ D
  <2>1. open \in SUBSET Nat /\ open # {} /\ open \subseteq S \ D
    BY <1>3, <1>4 DEF CountValue
  <2> HIDE DEF open
  <2>2. \E x \in open : \A y \in open : x <= y
    BY <2>1, NatLeast
  <2> QED
    BY <2>1, <2>2
<1>6. PICK count \in Counts(weights[v], Total(weights), R) :
        samples' = [x \in D \cup {v} |->
                      IF x = v THEN Cut(count, R, Total(samples)) ELSE samples[x]]
  BY DEF CountValue
<1>7. PICK e : e = v
  OBVIOUS
<1>8. PICK c : c = Cut(count, R, Total(samples))
  OBVIOUS
<1>9. IsFiniteSet(D) /\ IsFiniteSet(D \cup {e}) /\ e \in S \ D /\ (D \cup {e}) \ {e} = D
  <2>1. IsFiniteSet(D)
    BY <1>3, <1>4, FS_Subset
  <2>2. e \in S \ D
    BY <1>5, <1>7
  <2>3. IsFiniteSet(D \cup {e})
    BY <2>1, FS_AddElement
  <2> HIDE DEF S, D
  <2>4. (D \cup {e}) \ {e} = D
    BY <2>2
  <2> QED
    BY <2>1, <2>2, <2>3, <2>4
<1>10. Total(samples) = SumFunctionOnSet(samples, D) /\ Total(samples) \in Nat
  BY <1>4, <1>9, TotalOfNats
<1>11. c \in Nat /\ Total(samples) + c <= R /\ Enough(weights, D \cup {e}, Total(samples) + c, R)
  <2> HIDE DEF S, R, D, open, v
  <2> QED
    BY <1>3, <1>4, <1>5, <1>6, <1>7, <1>8, <1>10, EnoughStep
<1>12. samples' = [x \in D \cup {e} |-> IF x = e THEN c ELSE samples[x]]
  BY <1>6, <1>7, <1>8
<1>13. samples' \in [D \cup {e} -> Nat] /\ DOMAIN samples' = D \cup {e} /\ samples'[e] = c
       /\ \A x \in D : samples'[x] = samples[x]
  BY <1>4, <1>9, <1>11, <1>12
<1>14. Total(samples') = Total(samples) + c
  <2>1. PICK h : h = samples'
    OBVIOUS
  <2>2. h \in [D \cup {e} -> Nat] /\ h[e] = c /\ \A x \in D : h[x] = samples[x]
    BY <1>13, <2>1
  <2>3. Total(h) = SumFunctionOnSet(h, D \cup {e})
    BY <1>9, <2>2, TotalOfNats
  <2>4. SumFunctionOnSet(h, D \cup {e}) = h[e] + SumFunctionOnSet(h, D)
    <3>1. \A x \in D \cup {e} : h[x] \in Int
      BY <2>2
    <3> QED
      BY <1>9, <3>1, SumWithout
  <2>5. SumFunctionOnSet(h, D) = SumFunctionOnSet(samples, D)
    <3>1. \A x \in D : h[x] \in Int /\ h[x] = samples[x]
      BY <1>4, <2>2
    <3> QED
      BY <1>9, <3>1, SumSame
  <2> QED
    BY <1>10, <1>11, <2>1, <2>2, <2>3, <2>4, <2>5
<1>15. S = Sampled(kind)' /\ R = Rolls(kind)' /\ weights' = weights
  BY KindKept DEF CountValue
<1> QED
  BY <1>4, <1>9, <1>11, <1>13, <1>14, <1>15 DEF Sampling

\* The last value sampled
LEMMA SamplingEnds ==
  ASSUME SpecTypeOK, CreateInv, EndSampling
  PROVE  Total(samples) = Rolls(kind)
<1>1. Sampling /\ kinds \in Pairs
  BY DEF EndSampling, CreateInv, Creating
<1>2. kind \in Kinds
  BY <1>1, KindOfPair
<1>3. IsFiniteSet(Sampled(kind)) /\ Sampled(kind) # {} /\ Rolls(kind) \in Nat
  BY <1>2, SampledValues
<1>4. /\ weights \in [Sampled(kind) -> Nat \ {0}] /\ samples \in [Sampled(kind) -> Nat]
      /\ Total(samples) <= Rolls(kind)
      /\ Enough(weights, Sampled(kind), Total(samples), Rolls(kind))
  BY <1>1 DEF Sampling, EndSampling
<1>5. Total(samples) \in Nat
  BY <1>3, <1>4, TotalOfNats
<1> QED
  BY <1>3, <1>4, <1>5, EnoughEnds

\* A layout that has to grow is not the larger one yet.
LEMMA SmallerLayout ==
  ASSUME NEW x, NEW y, NEW a, NEW b, NEW n \in Nat, Staircase(x, y), Staircase(a, b),
         x + y <= a + b, x * y < n, a * b >= n
  PROVE  x + y + 1 <= a + b
<1>1. x \in Nat /\ y \in Nat /\ a \in Nat /\ b \in Nat
  BY DEF Staircase
<1>2. ASSUME x + y = a + b PROVE x = a /\ y = b
  BY <1>1, <1>2 DEF Staircase
<1>3. a * b \in Nat /\ x * y \in Nat
  BY <1>1
<1>4. x + y # a + b
  BY <1>2, <1>3
<1> QED
  BY <1>1, <1>4

LEMMA NextCreate == SpecTypeOK /\ SpecTypeOK' /\ CreateInv /\ [Next]_vars => CreateInv'
<1> SUFFICES ASSUME SpecTypeOK, SpecTypeOK', CreateInv, [Next]_vars PROVE CreateInv'
  OBVIOUS
<1>1. CASE GrowDims
  <2>1. pc = "dims" /\ kinds \in Pairs /\ stage = "unread" /\ samples = <<>> /\ pc' \in {"dims", "shape"}
    BY <1>1 DEF GrowDims, CreateInv, Creating
  <2>2. UNCHANGED <<kinds, stage, samples, fanins, numInsts, layoutDimX, layoutDimY>>
    BY <1>1 DEF GrowDims, request, made, planVars, layout
  <2>3. dimX \in Nat /\ dimY \in Nat /\ numInsts \in Nat
    BY DEF SpecTypeOK, Staircase
  <2>4. binsWanted \in Nat /\ binsWanted' = binsWanted
    BY <2>2, <2>3, CeilSqrtNat DEF binsWanted
  <2>5. pc' # "dims" => dimX' * dimY' >= binsWanted'
    <3>1. dimX * dimY \in Nat
      BY <2>3
    <3> QED
      BY <1>1, <2>1, <2>4, <3>1 DEF GrowDims, expected
  <2>6. dimX + dimY <= dimX' + dimY'
    BY <1>1, <2>3 DEF GrowDims, expected
  <2>7. layoutDimX \in Nat /\ layoutDimY \in Nat /\ dimX' \in Nat /\ dimY' \in Nat
    BY DEF SpecTypeOK, Staircase
  <2>8. kinds # <<>>
    BY <2>1, KindOfPair
  <2>9. layoutDimX + layoutDimY <= dimX' + dimY'
    <3>1. layoutDimX + layoutDimY <= dimX + dimY
      BY <2>8 DEF CreateInv
    <3>2. PICK a, b \in Nat : a = dimX' /\ b = dimY'
      BY <2>7
    <3>3. dimX + dimY <= a + b
      BY <2>6, <3>2
    <3>4. layoutDimX + layoutDimY <= a + b
      BY <2>3, <2>7, <3>1, <3>3
    <3> QED
      BY <3>2, <3>4
  <2> QED
    BY <2>1, <2>2, <2>5, <2>9 DEF CreateInv, Creating
<1>2. CASE BeginSearch \/ TurnSearch
  <2>1. UNCHANGED <<createVars, planVars>> /\ pc' = "search" /\ pc \in {"shape", "search"}
    BY <1>2 DEF BeginSearch, TurnSearch
  <2> QED
    BY <2>1 DEF CreateInv, Creating, createVars, planVars, request, expected, made, planParams, layout,
                binsWanted
<1>3. CASE EndSearch
  <2>1. PICK w \in [Sampled(kind) -> Probs] : weights' = w
    BY <1>3 DEF EndSearch
  <2>2. /\ kinds \in Pairs /\ samples = <<>> /\ pc = "search" /\ pc' = "count"
        /\ UNCHANGED <<request, expected, samples, fanins, planVars>>
    BY <1>3 DEF EndSearch, CreateInv, Creating
  <2>3. Sampling'
    <3>1. (kind)' = kind /\ Sampled(kind)' = Sampled(kind) /\ Rolls(kind)' = Rolls(kind)
      BY <2>2, KindKept
    <3>2. Sampled(kind) # {} /\ Rolls(kind) \in Nat /\ IsFiniteSet(Sampled(kind))
      BY <2>2, KindOfPair, SampledValues
    <3>3. weights' \in [Sampled(kind) -> Nat \ {0}]
      BY <2>1, SpecFileAssumption
    <3>4. DOMAIN samples' = {} /\ samples' = <<>>
      BY <2>2
    <3>5. Total(samples') = 0 /\ SumFunctionOnSet(weights', {}) = 0
      BY <3>4, SumOfNone DEF Total, SumFunction
    <3>6. Total(weights') \in Nat
      BY <3>2, <3>3, TotalOfWeights
    <3>7. Enough(weights', {}, 0, Rolls(kind))
      BY <3>2, <3>5, <3>6 DEF Enough
    <3> QED
      BY <3>1, <3>2, <3>3, <3>4, <3>5, <3>7 DEF Sampling
  <2> QED
    BY <2>2, <2>3 DEF CreateInv, Creating, planVars, request, expected, planParams, layout, binsWanted
<1>4. CASE CountValue
  <2>1. Sampling'
    BY <1>4, CountKeeps
  <2> QED
    BY <1>4, <2>1 DEF CountValue, CreateInv, Creating, planVars, request, expected, planParams, layout,
                      binsWanted
<1>5. CASE EndSampling
  <2>1. Total(samples) = Rolls(kind) /\ kinds \in Pairs /\ pc = "count" /\ stage = "unread"
    BY <1>5, SamplingEnds DEF EndSampling, CreateInv, Creating
  <2>2. UNCHANGED <<request, expected, planVars>>
    BY <1>5 DEF EndSampling
  <2>3. CASE fanins = <<>>
    <3>1. fanins' = samples /\ samples' = <<>> /\ pc' = "shape"
      BY <1>5, <2>3 DEF EndSampling
    <3>2. Total(fanins') = numInsts'
      BY <2>1, <2>2, <2>3, <3>1, KindOfPair DEF kind, Rolls, request
    <3> QED
      BY <2>1, <2>2, <3>1, <3>2 DEF CreateInv, Creating, planVars, request, expected, planParams,
                                    layout, binsWanted
  <2>4. CASE fanins # <<>>
    <3>1. UNCHANGED <<samples, fanins>> /\ pc' = "read"
      BY <1>5, <2>4 DEF EndSampling
    <3>2. Total(samples') = Rolls(kinds[2])'
      BY <2>1, <2>2, <2>4, <3>1 DEF kind, Rolls, request
    <3>3. samples' \in [Sampled(kinds[2])' -> Nat]
      <4>1. Sampling /\ DOMAIN weights = DOMAIN samples
        BY <1>5 DEF EndSampling, CreateInv
      <4>2. samples \in [Sampled(kinds[2]) -> Nat]
        BY <2>4, <4>1 DEF Sampling, kind
      <4> QED
        BY <2>2, <3>1, <4>2 DEF Sampled, MinOf, MaxOf, request, expected
    <3> QED
      BY <2>1, <2>2, <2>4, <3>1, <3>2, <3>3 DEF CreateInv, Creating, planVars, request, expected,
                                          planParams, layout, binsWanted
  <2> QED
    BY <2>3, <2>4
<1>6. CASE ReadSpec
  <2>1. pc = "read" /\ pc' = "layout" /\ stage' = "layout" /\ instanceCnt' = Total(fanins)
    BY <1>6 DEF ReadSpec
  <2>2. UNCHANGED <<request, expected, made, layout>>
    BY <1>6 DEF ReadSpec
  <2>3. fanins # <<>> /\ Total(fanins) = numInsts /\ kinds # <<>>
    BY <2>1, KindOfPair DEF CreateInv, Creating
  <2> QED
    BY <2>1, <2>2, <2>3 DEF CreateInv, Creating, request, expected, made, layout, binsWanted, Rolls, Sampled, MinOf, MaxOf
<1>7. CASE Initialize
  <2>1. pc = "layout" /\ pc' = "layout" /\ UNCHANGED createVars /\ UNCHANGED instanceCnt
    BY <1>7 DEF Initialize, PlanNext, GrowLayout, PlaceNodes, ScanInputs, ScanOutputs, planParams,
                distVars
  <2>2. UNCHANGED <<numInsts, numEdges, kinds, dimX, dimY, weights, samples, fanins>>
    BY <2>1 DEF createVars, request, expected, made
  <2>3. ASSUME kinds # <<>> PROVE layoutDimX' + layoutDimY' <= dimX + dimY
    <3>1. /\ layoutDimX + layoutDimY <= dimX + dimY /\ dimX * dimY >= binsWanted
          /\ instanceCnt = numInsts
      BY <2>1, <2>3 DEF CreateInv, Creating
    <3>2. CASE UNCHANGED layout
      BY <3>1, <3>2 DEF layout
    <3>3. CASE GrowLayout
      <4>1. layoutDimX * layoutDimY < binsWanted
        BY <3>1, <3>3 DEF GrowLayout, totalBinCnt, binsWanted
      <4>2. binsWanted \in Nat
        BY CeilSqrtNat DEF binsWanted, SpecTypeOK
      <4>3. Staircase(layoutDimX, layoutDimY) /\ Staircase(dimX, dimY)
        BY DEF SpecTypeOK
      <4>4. layoutDimX + layoutDimY + 1 <= dimX + dimY
        BY <3>1, <4>1, <4>2, <4>3, SmallerLayout
      <4>5. layoutDimX' + layoutDimY' = layoutDimX + layoutDimY + 1
        BY <3>3, <4>3 DEF GrowLayout, Staircase
      <4> QED
        BY <4>4, <4>5
    <3> QED
      BY <1>7, <3>2, <3>3 DEF Initialize, PlanNext, PlaceNodes, ScanInputs, ScanOutputs
  <2> QED
    BY <2>1, <2>2, <2>3 DEF CreateInv, Creating, binsWanted, Rolls, Sampled, MinOf, MaxOf
<1>8. CASE InitDistribution
  <2>1. pc = "layout" /\ pc' = "lines" /\ UNCHANGED <<createVars, planVars>>
    BY <1>8 DEF InitDistribution
  <2> QED
    BY <2>1 DEF CreateInv, Creating, createVars, planVars, request, expected, made, planParams, layout,
                binsWanted, Rolls, Sampled, MinOf, MaxOf
<1>9. CASE DistNext /\ UNCHANGED <<createVars, planVars, searchVars>>
  <2>1. pc \in Sharing /\ pc' \in Sharing /\ UNCHANGED <<createVars, planVars>>
    BY <1>9 DEF DistNext, ReadLine, EndLines, SetTarget, ReadBehindEnd, SetCount, GetSamplingVector,
                Sharing
  <2> QED
    BY <2>1 DEF CreateInv, Creating, Sharing, createVars, planVars, request, expected, made, planParams,
                layout, binsWanted, Rolls, Sampled, MinOf, MaxOf
<1>10. CASE UNCHANGED vars
  BY <1>10 DEF CreateInv, vars, createVars, distVars, planVars, request, expected, made, planParams,
               layout, binsWanted, Rolls, Sampling, kind, Sampled, MinOf, MaxOf
<1> QED
  BY <1>1, <1>2, <1>3, <1>4, <1>5, <1>6, <1>7, <1>8, <1>9, <1>10 DEF Next
-----------------------------------------------------------------------------
\* The entries before the new one
Before(r, v) == IF v > Len(r) THEN v ELSE Len(r)

\* t is r with the ratio x behind b entries, zeros for the values skipped.
LineAdded(t, r, v, x, b) ==
  /\ t \in Seq(Nat) /\ b \in Nat /\ Len(r) <= b /\ v <= b /\ Len(t) = b + 1
  /\ \A i \in 1..Len(r) : t[i] = r[i]
  /\ \A i \in (Len(r) + 1)..b : t[i] = 0
  /\ t[b + 1] = x

\* What setTarRatio does to the vector for one line, entry by entry
LEMMA PaddedLine ==
  ASSUME NEW r \in Seq(Nat), NEW v \in Nat, NEW x \in Nat
  PROVE  LineAdded(Append(Padded(r, v), x), r, v, x, Before(r, v))
<1> DEFINE d == IF v > Len(r) THEN v - Len(r) ELSE 0
           z == [i \in 1..d |-> 0]
           p == Padded(r, v)
           n == Before(r, v)
<1>1. Len(r) \in Nat /\ d \in Nat /\ n = Len(r) + d /\ n \in Nat /\ Len(r) <= n /\ v <= n
  BY DEF Before
<1>2. z \in Seq(Nat) /\ Len(z) = d
  <2> HIDE DEF d
  <2> QED
    BY <1>1
<1>3. p = r \o z
  BY DEF Padded
<1>4. /\ p \in Seq(Nat) /\ Len(p) = n
      /\ \A i \in 1..n : p[i] = IF i <= Len(r) THEN r[i] ELSE z[i - Len(r)]
  <2> HIDE DEF d, z, n, p
  <2> QED
    BY <1>1, <1>2, <1>3, ConcatProperties
<1>5. \A i \in 1..Len(r) : p[i] = r[i]
  <2> HIDE DEF d, z, n, p
  <2> QED
    BY <1>1, <1>4
<1>6. \A i \in (Len(r) + 1)..n : p[i] = 0
  <2> SUFFICES ASSUME NEW i \in (Len(r) + 1)..n PROVE p[i] = 0
    OBVIOUS
  <2>1. i - Len(r) \in 1..d /\ i \in 1..n /\ ~ (i <= Len(r))
    <3> HIDE DEF d, n
    <3> QED
      BY <1>1
  <2>2. p[i] = z[i - Len(r)]
    <3> HIDE DEF d, z, n, p
    <3> QED
      BY <1>4, <2>1
  <2> QED
    BY <2>1, <2>2
<1> HIDE DEF d, z, n, p
<1>7. /\ Append(p, x) \in Seq(Nat) /\ Len(Append(p, x)) = n + 1
      /\ \A i \in 1..n : Append(p, x)[i] = p[i]
      /\ Append(p, x)[n + 1] = x
  BY <1>1, <1>4
<1>8. \A i \in 1..Len(r) : i \in 1..n
  BY <1>1
<1>9. \A i \in (Len(r) + 1)..n : i \in 1..n
  BY <1>1
<1>10. LineAdded(Append(p, x), r, v, x, n)
  BY <1>1, <1>5, <1>6, <1>7, <1>8, <1>9 DEF LineAdded
<1> QED
  BY <1>10 DEF p, n

\* and to its sum.
LEMMA PaddedSum ==
  ASSUME NEW r \in Seq(Nat), NEW v \in Nat, NEW x \in Nat
  PROVE  SumOf(Append(Padded(r, v), x)) = SumOf(r) + x /\ SumOf(r) \in Nat
<1> DEFINE n == Before(r, v)
<1>1. PICK t : t = Append(Padded(r, v), x)
  OBVIOUS
<1>2. /\ t \in Seq(Nat) /\ n \in Nat /\ Len(r) <= n /\ Len(t) = n + 1 /\ t[n + 1] = x
      /\ \A i \in 1..Len(r) : t[i] = r[i]
      /\ \A i \in (Len(r) + 1)..n : t[i] = 0
  BY <1>1, PaddedLine DEF LineAdded
<1> HIDE DEF n
<1>3. DOMAIN t = 1..(n + 1) /\ Len(r) \in Nat /\ DOMAIN r = 1..Len(r)
  BY <1>2
<1>4. \A i \in 1..(n + 1) : t[i] \in Nat
  BY <1>2, <1>3
<1>5. SumFunctionOnSet(t, 1..(n + 1)) = t[n + 1] + SumFunctionOnSet(t, 1..n)
  <2>1. \A i \in 1..(n + 1) : t[i] \in Int
    BY <1>4
  <2> QED
    BY <1>2, <2>1, SumUpTo
<1>6. SumFunctionOnSet(t, 1..n) = SumFunctionOnSet(t, 1..Len(r))
  <2>1. 1..Len(r) \in SUBSET (1..n)
    BY <1>2, <1>3
  <2>2. \A i \in (1..n) \ (1..Len(r)) : t[i] = 0
    <3>1. \A i \in (1..n) \ (1..Len(r)) : i \in (Len(r) + 1)..n
      BY <1>2, <1>3
    <3> QED
      BY <1>2, <3>1
  <2>3. IsFiniteSet(1..n)
    BY <1>2, FS_Interval
  <2>4. \A i \in 1..n : t[i] \in Int
    BY <1>2, <1>4
  <2> QED
    BY <2>1, <2>2, <2>3, <2>4, SumOfParts
<1>7. SumFunctionOnSet(t, 1..Len(r)) = SumFunctionOnSet(r, 1..Len(r))
  <2>1. IsFiniteSet(1..Len(r))
    BY <1>3, FS_Interval
  <2>2. \A i \in 1..Len(r) : t[i] \in Int /\ t[i] = r[i]
    BY <1>2, <1>3
  <2> QED
    BY <2>1, <2>2, SumSame
<1>8. SumFunctionOnSet(r, 1..Len(r)) \in Nat
  <2>1. IsFiniteSet(1..Len(r))
    BY <1>3, FS_Interval
  <2>2. \A i \in 1..Len(r) : r[i] \in Nat
    BY <1>3
  <2> QED
    BY <2>1, <2>2, SumOfNats
<1> QED
  BY <1>1, <1>2, <1>3, <1>5, <1>6, <1>7, <1>8 DEF SumOf, SumFunction

LEMMA InitLines == Init => LinesInv
<1> SUFFICES ASSUME Init PROVE LinesInv
  OBVIOUS
<1>1. 1..0 = {}
  OBVIOUS
<1>2. SumOf(<<>>) = 0 /\ SumFunctionOnSet(RatioOf, 1..0) = 0
  <2>1. DOMAIN <<>> = {}
    OBVIOUS
  <2> QED
    BY <1>1, <2>1, SumOfNone DEF SumOf, SumFunction
<1>3. CASE LinesByHand
  <2>1. PICK m \in 0..MaxLines : lines \in [1..m -> Line]
    BY <1>3 DEF LinesByHand, DistInit, BoundedSeq, SeqOf
  <2>2. Line \subseteq Line0
    BY DistributionAssumption DEF Line, Line0
  <2>3. m \in Nat
    BY <2>1, DistributionAssumption
  <2>4. lines \in Seq(Line0) /\ Len(lines) = m
    BY <2>1, <2>2, <2>3
  <2>5. /\ max \in Nat /\ totalCnt \in Nat /\ totalTarRatio > 0 /\ kinds = <<>> /\ pc = "lines"
        /\ tr = <<>> /\ nextLine = 1
    BY <1>3, DistributionAssumption DEF LinesByHand, DistInit, Unasked
  <2>6. \A i \in 1..Len(lines) : lines[i].value \in Nat
    <3>1. \A i \in 1..Len(lines) : lines[i] \in Line0
      BY <2>4
    <3> QED
      BY <3>1 DEF Line0
  <2>7. Len(tr) = 0 /\ tr \in Seq(Nat) /\ nextLine - 1 = 0
    BY <2>5
  <2>8. Rising =>
          /\ \A i \in 1..(nextLine - 1) : tr[lines[i].value + 1] = lines[i].ratio
          /\ \A i \in nextLine..Len(lines) : Len(tr) <= lines[i].value
          /\ \A k \in 1..Len(tr) :
               tr[k] > 0 => \E i \in 1..(nextLine - 1) : lines[i].value + 1 = k
    BY <2>5, <2>6, <2>7
  <2>9. nextLine \in 1..(Len(lines) + 1) /\ \A i \in 1..(nextLine - 1) : lines[i].value < Len(tr)
    BY <2>3, <2>4, <2>5
  <2> QED
    BY <1>2, <2>4, <2>5, <2>7, <2>8, <2>9 DEF LinesInv, Sharing, Creating
<1>4. CASE CountsByHand \/ Created
  <2>1. Undistributed /\ pc \in Creating \cup {"read", "layout"}
    BY <1>4 DEF CountsByHand, Created, Creating
  <2>2. lines = <<>> /\ max = 0 /\ totalCnt = 0 /\ tr = <<>> /\ nextLine = 1
    BY <2>1 DEF Undistributed
  <2>3. pc \notin Sharing
    BY <2>1 DEF Creating, Sharing
  <2>4. lines \in Seq(Line0) /\ Len(lines) = 0 /\ tr \in Seq(Nat) /\ Len(tr) = 0
    BY <2>2
  <2> QED
    BY <1>2, <2>1, <2>2, <2>3, <2>4 DEF LinesInv
<1> QED
  BY <1>3, <1>4 DEF Init

\* The lines create_spec writes are not all 0, and end with the last value.
LEMMA FileLinesAre ==
  ASSUME SpecTypeOK, NEW k \in Kinds, NEW h \in [Sampled(k) -> Nat], Total(h) > 0,
         NEW L, L = FileLines(h, k)
  PROVE  /\ L \in Seq(Line0) /\ Len(L) = MaxOf(k) + 1
         /\ \A i \in 1..(MaxOf(k) + 1) : L[i].value = i - 1
         /\ SumOf([i \in DOMAIN L |-> L[i].ratio]) > 0
<1> DEFINE n == MaxOf(k) + 1
           S == Sampled(k)
           r == [i \in DOMAIN L |-> L[i].ratio]
<1>1. n \in Nat /\ S \in SUBSET Nat /\ IsFiniteSet(S) /\ \A v \in S : v + 1 \in 1..n
  BY SampledValues
<1>2. L = [i \in 1..n |-> [value |-> i - 1, ratio |-> IF i - 1 \in S THEN h[i - 1] ELSE 0]]
  BY DEF FileLines
<1>3. \A i \in 1..n : /\ L[i].value = i - 1
                      /\ L[i].ratio = IF i - 1 \in S THEN h[i - 1] ELSE 0
                      /\ L[i] \in Line0
  <2> HIDE DEF n, S
  <2> SUFFICES ASSUME NEW i \in 1..n
               PROVE  /\ L[i].value = i - 1
                      /\ L[i].ratio = IF i - 1 \in S THEN h[i - 1] ELSE 0
                      /\ L[i] \in Line0
    OBVIOUS
  <2>1. i - 1 \in Nat
    BY <1>1
  <2>2. (IF i - 1 \in S THEN h[i - 1] ELSE 0) \in Nat
    BY DEF S
  <2> QED
    BY <1>2, <2>1, <2>2 DEF Line0
<1>4. DOMAIN L = 1..n /\ L \in Seq(Line0) /\ Len(L) = n
  <2> HIDE DEF n, S
  <2>1. L \in [1..n -> Line0]
    BY <1>2, <1>3
  <2> QED
    BY <1>1, <2>1
<1>5. DOMAIN r = 1..n /\ \A i \in 1..n : r[i] = (IF i - 1 \in S THEN h[i - 1] ELSE 0) /\ r[i] \in Nat
  <2>1. \A i \in 1..n : r[i] = L[i].ratio /\ L[i].ratio \in Nat
    BY <1>3, <1>4 DEF Line0
  <2> QED
    BY <1>3, <1>4, <2>1
<1> HIDE DEF n, S, r
<1>6. SumOf(r) = SumFunctionOnSet(r, 1..n) /\ SumOf(r) \in Nat /\ \A i \in 1..n : r[i] <= SumOf(r)
  <2>1. IsFiniteSet(1..n)
    BY <1>1, FS_Interval
  <2>2. SumFunctionOnSet(r, 1..n) \in Nat /\ \A i \in 1..n : r[i] <= SumFunctionOnSet(r, 1..n)
    BY <1>5, <2>1, SumOfNats
  <2> QED
    BY <1>5, <2>2 DEF SumOf, SumFunction
<1>7. ASSUME SumOf(r) = 0 PROVE FALSE
  <2>1. \A v \in S : h[v] = 0
    <3> SUFFICES ASSUME NEW v \in S PROVE h[v] = 0
      OBVIOUS
    <3>1. v + 1 \in 1..n /\ (v + 1) - 1 = v
      BY <1>1
    <3>2. r[v + 1] = h[v] /\ r[v + 1] \in Nat /\ r[v + 1] <= 0
      BY <1>5, <1>6, <1>7, <3>1
    <3> QED
      BY <3>2
  <2>2. SumFunctionOnSet(h, S) = SumFunctionOnSet(h, {})
    <3>1. /\ \A v \in S : h[v] \in Int
          /\ \A v \in S \ {} : h[v] = 0
          /\ {} \in SUBSET S
      BY <2>1
    <3> QED
      BY <1>1, <3>1, SumOfParts
  <2>3. Total(h) = 0
    BY <1>1, <2>2, SumOfNone, TotalOfNats DEF S
  <2> QED
    BY <2>3
<1> QED
  BY <1>3, <1>4, <1>6, <1>7 DEF n, r

\* One line read
LEMMA ReadLineKeeps == LinesInv /\ ReadLine /\ UNCHANGED kinds => LinesInv'
<1> SUFFICES ASSUME LinesInv, ReadLine, UNCHANGED kinds PROVE LinesInv'
  OBVIOUS
<1> DEFINE n == nextLine
<1>1. /\ lines \in Seq(Line0) /\ n \in 1..Len(lines) /\ nextLine' = n + 1
      /\ UNCHANGED <<lines, max, totalCnt, pc>> /\ pc = "lines"
      /\ tr \in Seq(Nat) /\ max \in Nat /\ totalCnt \in Nat
  BY DEF LinesInv, ReadLine, params
<1>2. PICK v, x \in Nat : v = lines[n].value /\ x = lines[n].ratio
  <2>1. lines[n] \in Line0
    BY <1>1
  <2> QED
    BY <2>1 DEF Line0
<1>3. PICK t : t = tr'
  OBVIOUS
<1>4. t = Append(Padded(tr, v), x)
  BY <1>2, <1>3 DEF ReadLine
<1>5. PICK b : b = Before(tr, v)
  OBVIOUS
<1>6. /\ t \in Seq(Nat) /\ b \in Nat /\ Len(t) = b + 1 /\ Len(tr) <= b /\ v <= b
      /\ \A i \in 1..Len(tr) : t[i] = tr[i]
      /\ \A i \in (Len(tr) + 1)..b : t[i] = 0
      /\ t[b + 1] = x
      /\ SumOf(t) = SumOf(tr) + x /\ SumOf(tr) \in Nat
  <2>1. /\ t \in Seq(Nat) /\ b \in Nat /\ Len(t) = b + 1 /\ Len(tr) <= b /\ v <= b
        /\ \A i \in 1..Len(tr) : t[i] = tr[i]
        /\ \A i \in (Len(tr) + 1)..b : t[i] = 0
        /\ t[b + 1] = x
    <3>1. LineAdded(t, tr, v, x, b)
      BY <1>1, <1>4, <1>5, PaddedLine
    <3> QED
      BY <3>1 DEF LineAdded
  <2>2. SumOf(t) = SumOf(tr) + x /\ SumOf(tr) \in Nat
    BY <1>1, <1>4, PaddedSum
  <2> QED
    BY <2>1, <2>2
<1>7. Len(tr) \in Nat /\ \A i \in 1..Len(lines) : lines[i].value \in Nat /\ lines[i].ratio \in Nat
  <2>1. \A i \in 1..Len(lines) : lines[i] \in Line0
    BY <1>1
  <2> QED
    BY <1>1, <2>1 DEF Line0
<1>8. \A i \in 1..n : lines[i].value < Len(t)
  <2> SUFFICES ASSUME NEW i \in 1..n PROVE lines[i].value < Len(t)
    OBVIOUS
  <2>1. CASE i = n
    BY <1>2, <1>6, <2>1
  <2>2. CASE i # n
    <3>1. i \in 1..(nextLine - 1) /\ i \in 1..Len(lines)
      BY <1>1, <2>2
    <3>2. lines[i].value < Len(tr) /\ lines[i].value \in Nat
      BY <1>7, <3>1 DEF LinesInv
    <3> QED
      BY <1>6, <1>7, <3>2
  <2> QED
    BY <2>1, <2>2
<1>9. SumOf(t) = SumFunctionOnSet(RatioOf, 1..n)
  <2>1. PICK m \in Nat : n = m + 1 /\ m = nextLine - 1
    <3>1. n - 1 \in Nat /\ n = (n - 1) + 1
      BY <1>1
    <3> QED
      BY <3>1
  <2>2. SumOf(tr) = SumFunctionOnSet(RatioOf, 1..m)
    BY <2>1 DEF LinesInv
  <2>3. \A i \in 1..(m + 1) : RatioOf[i] \in Int
    BY <1>1, <1>7, <2>1 DEF RatioOf
  <2>4. SumFunctionOnSet(RatioOf, 1..(m + 1)) = RatioOf[m + 1] + SumFunctionOnSet(RatioOf, 1..m)
    BY <2>3, SumUpTo
  <2>5. RatioOf[m + 1] = x
    BY <1>1, <1>2, <2>1 DEF RatioOf
  <2> QED
    BY <1>6, <2>1, <2>2, <2>4, <2>5
<1>10. ASSUME Rising
       PROVE  /\ b = v
              /\ \A i \in 1..n : t[lines[i].value + 1] = lines[i].ratio
              /\ \A i \in (n + 1)..Len(lines) : Len(t) <= lines[i].value
              /\ \A k \in 1..Len(t) : t[k] > 0 => \E i \in 1..n : lines[i].value + 1 = k
  <2>1. /\ \A i \in 1..(n - 1) : tr[lines[i].value + 1] = lines[i].ratio
        /\ Len(tr) <= v
        /\ \A k \in 1..Len(tr) : tr[k] > 0 => \E i \in 1..(n - 1) : lines[i].value + 1 = k
    BY <1>1, <1>2, <1>10 DEF LinesInv
  <2>2. b = v
    BY <1>5, <1>7, <2>1 DEF Before
  <2>3. ASSUME NEW i \in 1..n PROVE t[lines[i].value + 1] = lines[i].ratio
    <3>1. CASE i = n
      BY <1>2, <1>6, <2>2, <3>1
    <3>2. CASE i # n
      <4>1. i \in 1..(n - 1) /\ i \in 1..Len(lines)
        BY <1>1, <3>2
      <4>2. lines[i].value < Len(tr) /\ lines[i].value \in Nat
        BY <1>7, <4>1 DEF LinesInv
      <4>3. lines[i].value + 1 \in 1..Len(tr)
        BY <1>7, <4>2
      <4> QED
        BY <1>6, <2>1, <4>1, <4>3
    <3> QED
      BY <3>1, <3>2
  <2>4. ASSUME NEW i \in (n + 1)..Len(lines) PROVE Len(t) <= lines[i].value
    <3>1. i \in 1..Len(lines) /\ n < i
      BY <1>1
    <3>2. lines[n].value < lines[i].value
      BY <1>1, <1>10, <3>1 DEF Rising
    <3>3. lines[n].value + 1 <= lines[i].value
      BY <1>1, <1>7, <3>1, <3>2
    <3> QED
      BY <1>2, <1>6, <2>2, <3>3
  <2>5. ASSUME NEW k \in 1..Len(t), t[k] > 0 PROVE \E i \in 1..n : lines[i].value + 1 = k
    <3>1. CASE k \in 1..Len(tr)
      <4>1. PICK i \in 1..(n - 1) : lines[i].value + 1 = k
        BY <1>6, <2>1, <2>5, <3>1
      <4>2. i \in 1..n
        BY <1>1
      <4> QED
        BY <4>1, <4>2
    <3>2. CASE k \notin 1..Len(tr)
      <4>1. k = b + 1
        <5>1. k \in (Len(tr) + 1)..b \/ k = b + 1
          BY <1>6, <1>7, <3>2
        <5> QED
          BY <1>6, <2>5, <5>1
      <4> QED
        BY <1>1, <1>2, <2>2, <4>1
    <3> QED
      BY <3>1, <3>2
  <2> QED
    BY <2>2, <2>3, <2>4, <2>5
<1>11. WellFormed => Len(t) <= max + 1
  <2> SUFFICES ASSUME WellFormed PROVE Len(t) <= max + 1
    OBVIOUS
  <2>1. b = v
    BY <1>10 DEF WellFormed
  <2>2. v <= max
    BY <1>1, <1>2 DEF WellFormed, Within
  <2> QED
    BY <1>1, <1>6, <2>1, <2>2
<1>12. Rising' = Rising /\ WellFormed' = WellFormed /\ RatioOf' = RatioOf /\ totalTarRatio' = totalTarRatio
  BY <1>1 DEF Rising, WellFormed, Within, RatioOf, totalTarRatio
<1>13. nextLine' - 1 = n /\ nextLine' \in 1..(Len(lines) + 1)
  BY <1>1
<1>14. kinds # <<>> => \E i \in DOMAIN lines : lines[i].value >= max
  BY <1>1 DEF LinesInv, Sharing
<1>15. totalTarRatio > 0
  BY <1>1 DEF LinesInv, Sharing
<1> QED
  BY <1>1, <1>3, <1>6, <1>8, <1>9, <1>10, <1>11, <1>12, <1>13, <1>14, <1>15 DEF LinesInv, Sharing, Creating

LEMMA NextLines ==
  SpecTypeOK /\ CreateInv /\ LinesInv /\ [Next]_vars => LinesInv'
<1> SUFFICES ASSUME SpecTypeOK, CreateInv, LinesInv, [Next]_vars PROVE LinesInv'
  OBVIOUS
<1> DEFINE early == Creating \cup {"read", "layout"}
<1>1. CASE \/ GrowDims \/ BeginSearch \/ TurnSearch \/ EndSearch \/ CountValue \/ EndSampling
           \/ ReadSpec \/ Initialize
  <2>1. UNCHANGED <<lines, max, totalCnt, tr, nextLine>>
    BY <1>1 DEF GrowDims, BeginSearch, TurnSearch, EndSearch, CountValue, EndSampling, ReadSpec,
                Initialize, unread, params, distVars
  <2>2. pc \in early /\ pc' \in early
    BY <1>1 DEF GrowDims, BeginSearch, TurnSearch, EndSearch, CountValue, EndSampling, ReadSpec,
                Initialize, distVars, Creating
  <2>3. pc' \notin Sharing
    BY <2>2 DEF Creating, Sharing
  <2> QED
    BY <2>1, <2>2, <2>3 DEF LinesInv, Rising, WellFormed, Within, RatioOf
<1>2. CASE InitDistribution
  <2>1. /\ pc = "layout" /\ kinds # <<>> /\ pc' = "lines" /\ UNCHANGED <<kinds, tr, nextLine>>
        /\ lines' = FileLines(samples, kinds[2])
        /\ max' = IF kinds[2] \in Lengthy THEN layoutDimX + layoutDimY ELSE MaxFanouts
        /\ totalCnt' \in Nat
    BY <1>2, DistributionAssumption DEF InitDistribution, createVars, request
  <2>2. PICK k : k = kinds[2]
    OBVIOUS
  <2>3. k \in Kinds \ {"FANIN"}
    BY <2>1, <2>2, KindOfPair DEF SpecTypeOK
  <2>4. /\ samples \in [Sampled(k) -> Nat] /\ Total(samples) = Rolls(k)
        /\ layoutDimX + layoutDimY <= dimX + dimY
    BY <2>1, <2>2 DEF CreateInv, Creating
  <2>5. Total(samples) > 0
    <3>1. Rolls(k) \in Nat \ {0}
      BY DEF Rolls, SpecTypeOK
    <3> QED
      BY <2>4, <3>1
  <2>6. PICK L : L = lines'
    OBVIOUS
  <2>7. /\ L \in Seq(Line0) /\ Len(L) = MaxOf(k) + 1
        /\ \A i \in 1..(MaxOf(k) + 1) : L[i].value = i - 1
        /\ SumOf([i \in DOMAIN L |-> L[i].ratio]) > 0
    BY <2>1, <2>2, <2>3, <2>4, <2>5, <2>6, FileLinesAre
  <2>8. MaxOf(k) \in Nat /\ max' \in Nat /\ MaxOf(k) >= max'
    <3>1. MaxOf(k) \in Nat
      BY <2>3, SampledValues
    <3>2. dimX \in Nat /\ dimY \in Nat /\ layoutDimX \in Nat /\ layoutDimY \in Nat
      BY DEF SpecTypeOK, Staircase
    <3>3. CASE k \in Lengthy
      <4>1. MaxOf(k) = dimX + dimY /\ max' = layoutDimX + layoutDimY
        BY <2>1, <2>2, <3>3 DEF MaxOf, Lengthy
      <4> QED
        BY <2>4, <3>2, <4>1
    <3>4. CASE k \notin Lengthy
      <4>1. MaxOf(k) = MaxFanouts /\ max' = MaxFanouts /\ MaxFanouts \in Nat
        BY <2>1, <2>2, <2>3, <3>4, SpecFileAssumption DEF MaxOf, Lengthy, Kinds
      <4> QED
        BY <4>1
    <3> QED
      BY <3>1, <3>3, <3>4
  <2>9. \E i \in DOMAIN lines' : lines'[i].value >= max'
    <3>1. MaxOf(k) + 1 \in DOMAIN L /\ L[MaxOf(k) + 1].value = MaxOf(k)
      BY <2>7, <2>8
    <3> QED
      BY <2>6, <2>8, <3>1
  <2>10. totalTarRatio' > 0
    BY <2>6, <2>7 DEF totalTarRatio
  <2>11. tr' = <<>> /\ nextLine' = 1 /\ Len(tr') = 0
    BY <2>1 DEF LinesInv
  <2>12. SumOf(tr') = SumFunctionOnSet(RatioOf', 1..(nextLine' - 1))
    <3>1. DOMAIN <<>> = {} /\ 1..(1 - 1) = {}
      OBVIOUS
    <3> QED
      BY <2>11, <3>1, SumOfNone DEF SumOf, SumFunction
  <2>13. \A i \in 1..Len(L) : L[i].value \in Nat
    <3>1. \A i \in 1..Len(L) : L[i] \in Line0
      BY <2>7
    <3> QED
      BY <3>1 DEF Line0
  <2>14. /\ \A i \in 1..(nextLine' - 1) : lines'[i].value < Len(tr')
         /\ \A i \in 1..(nextLine' - 1) : tr'[lines'[i].value + 1] = lines'[i].ratio
         /\ \A i \in nextLine'..Len(lines') : Len(tr') <= lines'[i].value
         /\ \A j \in 1..Len(tr') :
              tr'[j] > 0 => \E i \in 1..(nextLine' - 1) : lines'[i].value + 1 = j
         /\ nextLine' \in 1..(Len(lines') + 1)
    BY <2>6, <2>7, <2>8, <2>11, <2>13
  <2>15. Len(tr') <= max' + 1 /\ tr' \in Seq(Nat) /\ lines' \in Seq(Line0)
    <3>1. <<>> \in Seq(Nat)
      OBVIOUS
    <3>2. PICK m \in Nat : m = max'
      BY <2>8
    <3>3. 0 <= m + 1
      OBVIOUS
    <3> QED
      BY <2>6, <2>7, <2>11, <3>1, <3>2, <3>3
  <2> QED
    BY <2>1, <2>8, <2>9, <2>10, <2>12, <2>14, <2>15 DEF LinesInv, Creating, Sharing
<1>3. CASE DistNext /\ UNCHANGED <<createVars, planVars, searchVars>>
  <2>1. UNCHANGED kinds
    BY <1>3 DEF createVars, request
  <2>2. CASE ReadLine
    BY <2>1, <2>2, ReadLineKeeps
  <2>3. CASE EndLines
    <3>1. UNCHANGED <<lines, max, totalCnt, tr, nextLine>> /\ pc = "lines" /\ pc' = "targets"
      BY <2>3 DEF EndLines, params
    <3>2. nextLine = Len(lines) + 1
      BY <2>3 DEF EndLines, LinesInv
    <3> QED
      BY <2>1, <3>1, <3>2 DEF LinesInv, Rising, WellFormed, Within, RatioOf, totalTarRatio, Creating,
                              Sharing
  <2>4. CASE SetTarget \/ ReadBehindEnd \/ SetCount \/ GetSamplingVector
    <3>1. /\ UNCHANGED <<lines, max, totalCnt, tr, nextLine>>
          /\ pc \in Sharing \ {"lines"} /\ pc' \in Sharing \ {"lines"}
      BY <2>4 DEF SetTarget, ReadBehindEnd, SetCount, GetSamplingVector, params, Sharing
    <3> QED
      BY <2>1, <3>1 DEF LinesInv, Rising, WellFormed, Within, RatioOf, totalTarRatio, Creating, Sharing
  <2> QED
    BY <1>3, <2>2, <2>3, <2>4 DEF DistNext
<1>4. CASE UNCHANGED vars
  BY <1>4 DEF vars, createVars, request, distVars, params, LinesInv, Rising, WellFormed, Within,
              RatioOf, totalTarRatio
<1> QED
  BY <1>1, <1>2, <1>3, <1>4 DEF Next
-----------------------------------------------------------------------------
\* Multiples that are less than a divisor apart are equal.
LEMMA SameMultiple ==
  ASSUME NEW q \in Nat, NEW u \in Nat, NEW d \in Nat \ {0}, q * d <= u * d, u * d < q * d + d
  PROVE  u = q
<1>1. ASSUME u < q PROVE FALSE
  <2>1. PICK e \in Nat \ {0} : q = u + e
    <3>1. q - u \in Nat \ {0} /\ q = u + (q - u)
      BY <1>1
    <3> QED
      BY <3>1
  <2>2. q * d = u * d + e * d /\ e * d >= 1 /\ u * d \in Nat /\ e * d \in Nat
    BY <2>1
  <2> QED
    BY <2>2
<1>2. ASSUME u > q PROVE FALSE
  <2>1. PICK e \in Nat : u = q + 1 + e
    <3>1. u - q - 1 \in Nat /\ u = q + 1 + (u - q - 1)
      BY <1>2
    <3> QED
      BY <3>1
  <2>2. u * d = q * d + d + e * d /\ e * d >= 0 /\ q * d \in Nat /\ e * d \in Nat
    BY <2>1
  <2> QED
    BY <2>2
<1> QED
  BY <1>1, <1>2

\* A share is at least the exact one, and at most one more; 0 gets nothing.
LEMMA ShareBounds ==
  ASSUME totalCnt \in Nat, totalTarRatio \in Nat \ {0}, NEW r \in Nat, NEW share \in Shares(r)
  PROVE  /\ share \in Nat
         /\ totalCnt * r <= totalTarRatio * share
         /\ totalTarRatio * share <= totalCnt * r + totalTarRatio
         /\ r = 0 => share = 0
<1>1. PICK n \in Nat : n = totalCnt * r
  OBVIOUS
<1>2. PICK d \in Nat \ {0} : d = totalTarRatio
  OBVIOUS
<1>3. PICK up : up = CeilDiv(n, d)
  OBVIOUS
<1>4. up \in Nat /\ n <= up * d /\ up * d < n + d
  BY <1>3, CeilDivBounds
<1>5. \/ share = up
      \/ r # 0 /\ n % d = 0 /\ share = up + 1
  BY <1>1, <1>2, <1>3 DEF Shares, CeilDiv
<1>6. r = 0 => up = 0
  <2> SUFFICES ASSUME r = 0 PROVE up = 0
    OBVIOUS
  <2>1. n = 0
    BY <1>1
  <2>2. 0 * d <= up * d /\ up * d < 0 * d + d
    BY <1>4, <2>1
  <2> QED
    BY <1>4, <2>2, SameMultiple
<1>7. n % d = 0 => (up + 1) * d = n + d
  <2> SUFFICES ASSUME n % d = 0 PROVE (up + 1) * d = n + d
    OBVIOUS
  <2>1. PICK q \in Nat : q * d = n
    <3>1. n \div d \in Nat /\ n = d * (n \div d) + (n % d)
      OBVIOUS
    <3> DEFINE q == n \div d
    <3> HIDE DEF q
    <3>2. q \in Nat /\ d * q = n
      BY <3>1 DEF q
    <3> QED
      BY <3>2
  <2>2. up = q
    BY <1>4, <2>1, SameMultiple
  <2> QED
    BY <2>1, <2>2
<1>8. (up + 1) * d = up * d + d /\ d * up = up * d /\ d * (up + 1) = (up + 1) * d
  BY <1>4
<1>9. share \in Nat /\ n <= d * share /\ d * share <= n + d /\ (r = 0 => share = 0)
  <2>1. CASE share = up
    BY <1>4, <1>6, <1>8, <2>1
  <2>2. CASE r # 0 /\ n % d = 0 /\ share = up + 1
    <3>1. d * share = n + d
      BY <1>7, <1>8, <2>2
    <3> QED
      BY <1>4, <2>2, <3>1
  <2> QED
    BY <1>5, <2>1, <2>2
<1> QED
  BY <1>1, <1>2, <1>9

\* The arithmetic of one target: C is shared out by ratios that add up to R, the
\* first ones to s, which have got T and are a ratios above 0; r is the next one.
NextShare(C, R, T, s, r, a, b, share, target) ==
  /\ T <= C /\ s + r <= R
  /\ b = IF r > 0 THEN a + 1 ELSE a
  /\ C * r <= R * share /\ R * share <= C * r + R
  /\ r = 0 => share = 0
  /\ T = C \/ s * C <= T * R
  /\ R * T <= C * s + R * a
  /\ target = IF T + share > C THEN C - T ELSE share

ShareSet(C, R, T, s, r, b, target) ==
  /\ target \in Nat /\ T + target <= C
  /\ T + target = C \/ (s + r) * C <= (T + target) * R
  /\ R * (T + target) <= C * (s + r) + R * b
  /\ R * target - C * r <= R * b /\ C * r - R * target <= R * b

\* A target that rounds its share up, cut at what is left, keeps all the bounds.
LEMMA ShareStep ==
  ASSUME NEW C \in Nat, NEW R \in Nat \ {0}, NEW T \in Nat, NEW s \in Nat, NEW r \in Nat,
         NEW a \in Nat, NEW b \in Nat, NEW share \in Nat, NEW target,
         NextShare(C, R, T, s, r, a, b, share, target)
  PROVE  ShareSet(C, R, T, s, r, b, target)
<1> USE DEF NextShare
<1>1. target \in Nat /\ target <= share /\ T + target <= C
  OBVIOUS
<1>2. PICK Cr, Cs, RT, Ra, Rb, RC, Rsh, Rtg \in Nat :
        /\ Cr = C * r /\ Cs = C * s /\ RT = R * T /\ Ra = R * a /\ Rb = R * b
        /\ RC = R * C /\ Rsh = R * share /\ Rtg = R * target
  <2>1. /\ C * r \in Nat /\ C * s \in Nat /\ R * T \in Nat /\ R * a \in Nat /\ R * b \in Nat
        /\ R * C \in Nat /\ R * share \in Nat /\ R * target \in Nat
    BY <1>1
  <2> QED
    BY <2>1
<1>3. Rb = IF r > 0 THEN Ra + R ELSE Ra
  <2>1. R * (a + 1) = R * a + R
    OBVIOUS
  <2> QED
    BY <1>2, <2>1
<1>4. Rtg <= Rsh
  <2>1. PICK e \in Nat : share = target + e
    <3>1. share - target \in Nat /\ share = target + (share - target)
      BY <1>1
    <3> QED
      BY <3>1
  <2>2. R * share = R * target + R * e /\ R * e \in Nat
    BY <1>1, <2>1
  <2> QED
    BY <1>1, <1>2, <2>2
<1>5. Cs + Cr <= RC
  <2>1. PICK e \in Nat : R = s + r + e
    <3>1. R - (s + r) \in Nat /\ R = s + r + (R - (s + r))
      OBVIOUS
    <3> QED
      BY <3>1
  <2>2. R * C = C * s + C * r + C * e /\ C * e \in Nat
    BY <2>1
  <2> QED
    BY <1>2, <2>2
<1>6. T + share > C => Rtg = RC - RT
  <2> SUFFICES ASSUME T + share > C PROVE Rtg = RC - RT
    OBVIOUS
  <2>1. C = T + target
    OBVIOUS
  <2>2. R * C = R * T + R * target
    BY <1>1, <2>1
  <2> QED
    BY <1>2, <2>2
<1>7. /\ s * C = Cs /\ T * R = RT
      /\ (s + r) * C = Cs + Cr /\ C * (s + r) = Cs + Cr
      /\ (T + target) * R = RT + Rtg /\ R * (T + target) = RT + Rtg
  BY <1>1, <1>2
<1>8. Cr <= Rsh /\ Rsh <= Cr + R /\ (T = C \/ Cs <= RT) /\ RT <= Cs + Ra
  BY <1>2, <1>7
<1>9. r = 0 => Rtg = 0 /\ Cr = 0
  <2> SUFFICES ASSUME r = 0 PROVE Rtg = 0 /\ Cr = 0
    OBVIOUS
  <2>1. target = 0
    BY <1>1
  <2> QED
    BY <1>2, <2>1
<1>10. ~ (T + share > C) => Rtg = Rsh
  BY <1>2
<1>11. T + target = C \/ Cs + Cr <= RT + Rtg
  <2>1. CASE T + share > C
    BY <2>1
  <2>2. CASE T = C
    BY <1>1, <2>2
  <2>3. CASE ~ (T + share > C) /\ Cs <= RT
    BY <1>2, <1>8, <1>10, <2>3
  <2> QED
    BY <1>8, <2>1, <2>2, <2>3
<1>12. RT + Rtg <= Cs + Cr + Rb /\ Rtg - Cr <= Rb
  <2>1. CASE r > 0
    BY <1>2, <1>3, <1>4, <1>8, <2>1
  <2>2. CASE r = 0
    BY <1>2, <1>3, <1>8, <1>9, <2>2
  <2> QED
    BY <2>1, <2>2
<1>13. Cr - Rtg <= Rb
  <2>1. Ra <= Rb
    BY <1>2, <1>3
  <2>2. CASE T + share > C
    BY <1>2, <1>5, <1>6, <1>8, <2>1, <2>2
  <2>3. CASE ~ (T + share > C)
    BY <1>2, <1>8, <1>10, <2>3
  <2> QED
    BY <2>2, <2>3
<1> QED
  BY <1>1, <1>2, <1>7, <1>11, <1>12, <1>13 DEF ShareSet
-----------------------------------------------------------------------------
\* The ratios in the vector add up to those of the lines.
LEMMA RatioSums ==
  ASSUME LinesInv
  PROVE  totalTarRatio \in Nat /\ Total(tr) \in Nat
         /\ (pc \in Sharing \ {"lines"} => Total(tr) = totalTarRatio)
<1>1. DOMAIN lines = 1..Len(lines) /\ Len(lines) \in Nat /\ DOMAIN tr = 1..Len(tr) /\ Len(tr) \in Nat
  BY DEF LinesInv
<1>2. IsFiniteSet(DOMAIN lines) /\ IsFiniteSet(DOMAIN tr)
  BY <1>1, FS_Interval
<1>3. RatioOf \in [DOMAIN lines -> Nat] /\ tr \in [DOMAIN tr -> Nat]
  <2>1. \A i \in DOMAIN lines : lines[i] \in Line0
    BY DEF LinesInv
  <2>2. \A i \in DOMAIN lines : lines[i].ratio \in Nat
    BY <2>1 DEF Line0
  <2> QED
    BY <2>2 DEF RatioOf, LinesInv
<1>4. Total(RatioOf) \in Nat /\ Total(tr) \in Nat
  BY <1>2, <1>3, TotalOfNats
<1>5. totalTarRatio = Total(RatioOf)
  BY DEF totalTarRatio, SumOf, Total, RatioOf
<1>6. pc \in Sharing \ {"lines"} => Total(tr) = totalTarRatio
  <2> SUFFICES ASSUME pc \in Sharing \ {"lines"} PROVE Total(tr) = totalTarRatio
    OBVIOUS
  <2>1. nextLine = Len(lines) + 1
    BY DEF LinesInv
  <2>2. nextLine - 1 = Len(lines)
    BY <1>1, <2>1
  <2>3. SumOf(tr) = SumFunctionOnSet(RatioOf, DOMAIN lines)
    BY <1>1, <2>2 DEF LinesInv
  <2>4. Total(RatioOf) = SumFunctionOnSet(RatioOf, DOMAIN lines)
    BY <1>2, <1>3, TotalOfNats
  <2> QED
    BY <1>5, <2>3, <2>4 DEF SumOf, Total
<1> QED
  BY <1>4, <1>5, <1>6

\* Before the first target
LEMMA NoTargets ==
  LinesInv /\ info = <<>> /\ totalTarCnt = 0 /\ pc \notin {"ready", "done", "undefined"} => TargetInv
<1> SUFFICES ASSUME LinesInv, info = <<>>, totalTarCnt = 0, pc \notin {"ready", "done", "undefined"}
             PROVE  TargetInv
  OBVIOUS
<1>1. Len(info) = 0 /\ 1..0 = {} /\ info \in Seq([target : Nat, count : Nat])
  OBVIOUS
<1>2. max \in Nat /\ totalCnt \in Nat /\ Len(tr) \in Nat
  BY DEF LinesInv
<1>3. totalTarRatio \in Nat /\ Total(tr) \in Nat
  BY RatioSums
<1>4. SumFunctionOnSet(TargetOf, 1..0) = 0 /\ SumFunctionOnSet(tr, 1..0) = 0
  BY <1>1, SumOfNone
<1>5. Asking(0) = {} /\ Cardinality(Asking(0)) = 0
  BY <1>1, FS_EmptySet DEF Asking
<1>6. Enough(tr, 1..0, 0, totalCnt)
  BY <1>2, <1>3, <1>4 DEF Enough
<1>7. totalTarRatio * 0 <= totalCnt * 0 + totalTarRatio * 0 /\ 0 <= max + 1 /\ 0 <= Len(tr) /\ 0 <= totalCnt
  BY <1>2, <1>3
<1> QED
  BY <1>1, <1>4, <1>5, <1>6, <1>7 DEF TargetInv

LEMMA InitTarget == Init => TargetInv
<1>1. Init => info = <<>> /\ totalTarCnt = 0 /\ pc \notin {"ready", "done", "undefined"}
  BY DEF Init, LinesByHand, CountsByHand, Created, DistInit, Undistributed
<1> QED
  BY <1>1, InitLines, NoTargets

\* Some entries add up to no more than all.
LEMMA SumOfSome ==
  ASSUME NEW S, IsFiniteSet(S), NEW f, \A i \in S : f[i] \in Nat, NEW D \in SUBSET S
  PROVE  SumFunctionOnSet(f, D) <= SumFunctionOnSet(f, S)
<1> DEFINE g == [i \in S |-> IF i \in D THEN f[i] ELSE 0]
<1>1. \A i \in S : f[i] \in Int /\ g[i] \in Int /\ g[i] <= f[i]
  OBVIOUS
<1>2. \A i \in S \ D : g[i] = 0
  OBVIOUS
<1>3. \A i \in D : g[i] \in Int /\ g[i] = f[i]
  OBVIOUS
<1>4. IsFiniteSet(D)
  BY FS_Subset
<1> HIDE DEF g
<1>5. SumFunctionOnSet(g, S) <= SumFunctionOnSet(f, S)
  BY <1>1, SumAtMost
<1>6. SumFunctionOnSet(g, S) = SumFunctionOnSet(g, D)
  BY <1>1, <1>2, SumOfParts
<1>7. SumFunctionOnSet(g, D) = SumFunctionOnSet(f, D)
  BY <1>3, <1>4, SumSame
<1> QED
  BY <1>5, <1>6, <1>7

\* One target set
LEMMA SetTargetKeeps == LinesInv /\ TargetInv /\ SetTarget => TargetInv'
<1> SUFFICES ASSUME LinesInv, TargetInv, SetTarget PROVE TargetInv'
  OBVIOUS
<1> DEFINE C == totalCnt
           R == totalTarRatio
           T == totalTarCnt
           n == Len(info)
           r == tr[n + 1]
           s == SumFunctionOnSet(tr, 1..n)
           a == Cardinality(Asking(n))
           b == Cardinality(Asking(n + 1))
<1>1. /\ pc = "targets" /\ n <= max /\ n < Len(tr)
      /\ UNCHANGED <<lines, max, totalCnt, tr, nextLine, sampling, pc>>
  BY DEF SetTarget, params
<1>2. /\ info \in Seq([target : Nat, count : Nat]) /\ n \in Nat /\ max \in Nat /\ C \in Nat
      /\ tr \in Seq(Nat) /\ Len(tr) \in Nat /\ n + 1 \in 1..Len(tr)
  <2>1. info \in Seq([target : Nat, count : Nat]) /\ tr \in Seq(Nat)
    BY DEF LinesInv, TargetInv
  <2>2. Len(info) \in Nat /\ Len(tr) \in Nat
    BY <2>1
  <2>3. max \in Nat /\ totalCnt \in Nat
    BY DEF LinesInv
  <2> QED
    BY <1>1, <2>1, <2>2, <2>3
<1>3. R \in Nat \ {0} /\ Total(tr) = R
  <2>1. totalTarRatio > 0
    BY <1>1 DEF LinesInv, Sharing
  <2>2. totalTarRatio \in Nat /\ Total(tr) = totalTarRatio
    BY <1>1, RatioSums DEF Sharing
  <2> QED
    BY <2>1, <2>2
<1>4. PICK share \in Shares(r) : /\ info' = Append(info, [target |-> Capped(share), count |-> 0])
                                 /\ totalTarCnt' = T + Capped(share)
  BY DEF SetTarget
<1>5. r \in Nat /\ \A i \in 1..Len(tr) : tr[i] \in Nat
  BY <1>2
<1>6. share \in Nat /\ C * r <= R * share /\ R * share <= C * r + R /\ (r = 0 => share = 0)
  <2>1. totalCnt \in Nat /\ totalTarRatio \in Nat \ {0}
    BY <1>2, <1>3
  <2> HIDE DEF r
  <2> QED
    BY <1>4, <1>5, <2>1, ShareBounds
<1>7. PICK target : target = Capped(share)
  OBVIOUS
<1>8. target = IF T + share > C THEN C - T ELSE share
  BY <1>7 DEF Capped
<1>9. /\ SumFunctionOnSet(tr, 1..(n + 1)) = s + r /\ s \in Nat /\ s + r <= R
  <2>1. IsFiniteSet(1..Len(tr)) /\ DOMAIN tr = 1..Len(tr)
    BY <1>2, FS_Interval
  <2>2. Total(tr) = SumFunctionOnSet(tr, 1..Len(tr))
    BY <2>1 DEF Total, SumFunction
  <2>3. 1..(n + 1) \in SUBSET (1..Len(tr)) /\ 1..n \in SUBSET (1..(n + 1))
    BY <1>2
  <2>4. SumFunctionOnSet(tr, 1..(n + 1)) <= R
    BY <1>3, <1>5, <2>1, <2>2, <2>3, SumOfSome
  <2>5. \A i \in 1..(n + 1) : tr[i] \in Int
    BY <1>5, <2>3
  <2>6. SumFunctionOnSet(tr, 1..(n + 1)) = r + s
    <3> HIDE DEF n
    <3> QED
      BY <1>2, <2>5, SumUpTo
  <2>7. s \in Nat
    <3>1. IsFiniteSet(1..n)
      BY <1>2, FS_Interval
    <3>2. \A i \in 1..n : tr[i] \in Nat
      BY <1>5, <2>3
    <3> HIDE DEF n
    <3> QED
      BY <3>1, <3>2, SumOfNats
  <2> HIDE DEF r, s, n
  <2> QED
    BY <1>5, <2>4, <2>6, <2>7
<1>10. a \in Nat /\ b = IF r > 0 THEN a + 1 ELSE a
  <2>1. IsFiniteSet(1..n)
    BY <1>2, FS_Interval
  <2>2. Asking(n) \in SUBSET (1..n)
    BY DEF Asking
  <2>3. IsFiniteSet(Asking(n)) /\ a \in Nat
    BY <2>1, <2>2, FS_Subset, FS_CardinalityType
  <2>4. Asking(n + 1) = IF r > 0 THEN Asking(n) \cup {n + 1} ELSE Asking(n)
    <3>1. 1..(n + 1) = (1..n) \cup {n + 1}
      BY <1>2
    <3> HIDE DEF n
    <3> QED
      BY <3>1 DEF Asking
  <2>5. n + 1 \notin Asking(n)
    BY <1>2, <2>2
  <2>6. Cardinality(Asking(n) \cup {n + 1}) = a + 1
    BY <2>3, <2>5, FS_AddElement
  <2> QED
    BY <2>3, <2>4, <2>6
<1>11. /\ T \in Nat /\ T <= C /\ Enough(tr, 1..n, T, C)
       /\ R * T <= C * s + R * a
       /\ T = SumFunctionOnSet(TargetOf, 1..n)
  <2>1. /\ T = SumFunctionOnSet(TargetOf, 1..n) /\ T <= C /\ Enough(tr, 1..n, T, C)
        /\ R * T <= C * s + R * a
    BY DEF TargetInv
  <2>2. \A k \in 1..n : TargetOf[k] \in Nat
    <3> SUFFICES ASSUME NEW k \in 1..n PROVE TargetOf[k] \in Nat
      OBVIOUS
    <3>1. k \in DOMAIN info
      BY <1>2
    <3>2. info[k] \in [target : Nat, count : Nat]
      BY <1>2, ElementOf
    <3> QED
      BY <3>1, <3>2 DEF TargetOf
  <2>3. IsFiniteSet(1..n)
    BY <1>2, FS_Interval
  <2>4. T \in Nat
    <3> HIDE DEF n
    <3> QED
      BY <2>1, <2>2, <2>3, SumOfNats
  <2> QED
    BY <2>1, <2>4
<1>12. T = C \/ s * C <= T * R
  BY <1>3, <1>11 DEF Enough
<1> HIDE DEF C, R, T, n, r, s, a, b
<1>13. /\ target \in Nat /\ T + target <= C
       /\ T + target = C \/ (s + r) * C <= (T + target) * R
       /\ R * (T + target) <= C * (s + r) + R * b
       /\ R * target - C * r <= R * b /\ C * r - R * target <= R * b
  <2>1. C \in Nat /\ R \in Nat \ {0} /\ T \in Nat /\ s \in Nat /\ r \in Nat /\ a \in Nat /\ b \in Nat
        /\ share \in Nat
    BY <1>2, <1>3, <1>5, <1>6, <1>9, <1>10, <1>11
  <2>2. T <= C /\ s + r <= R /\ b = IF r > 0 THEN a + 1 ELSE a
    BY <1>9, <1>10, <1>11
  <2>3. NextShare(C, R, T, s, r, a, b, share, target)
    BY <1>6, <1>8, <1>11, <1>12, <2>2 DEF NextShare
  <2>4. ShareSet(C, R, T, s, r, b, target)
    BY <2>1, <2>3, ShareStep
  <2> QED
    BY <2>4 DEF ShareSet
<1>14. PICK i2 : i2 = info'
  OBVIOUS
<1>15. /\ i2 \in Seq([target : Nat, count : Nat]) /\ Len(i2) = n + 1
       /\ \A k \in 1..n : i2[k] = info[k]
       /\ i2[n + 1].target = target
  <2>1. i2 = Append(info, [target |-> target, count |-> 0])
    BY <1>4, <1>7, <1>14
  <2>2. [target |-> target, count |-> 0] \in [target : Nat, count : Nat]
    BY <1>13
  <2> QED
    BY <1>2, <2>1, <2>2 DEF n
<1>16. PICK t2 : t2 = [k \in DOMAIN i2 |-> i2[k].target]
  OBVIOUS
<1>17. T + target = SumFunctionOnSet(t2, 1..(n + 1))
  <2>1. DOMAIN i2 = 1..(n + 1) /\ DOMAIN info = 1..n
    BY <1>2, <1>15 DEF n
  <2>2. \A k \in 1..(n + 1) : t2[k] \in Nat
    <3> SUFFICES ASSUME NEW k \in 1..(n + 1) PROVE t2[k] \in Nat
      OBVIOUS
    <3>1. i2[k] \in [target : Nat, count : Nat]
      BY <1>15, ElementOf
    <3> QED
      BY <1>16, <2>1, <3>1
  <2>3. t2[n + 1] = target
    BY <1>2, <1>15, <1>16, <2>1
  <2>4. \A k \in 1..n : t2[k] \in Int /\ t2[k] = TargetOf[k]
    <3> SUFFICES ASSUME NEW k \in 1..n PROVE t2[k] \in Int /\ t2[k] = TargetOf[k]
      OBVIOUS
    <3>1. k \in 1..(n + 1)
      BY <1>2
    <3>2. t2[k] = i2[k].target /\ TargetOf[k] = info[k].target
      BY <1>16, <2>1, <3>1 DEF TargetOf
    <3> QED
      BY <1>15, <2>2, <3>1, <3>2
  <2>5. IsFiniteSet(1..n)
    BY <1>2, FS_Interval
  <2>6. SumFunctionOnSet(t2, 1..n) = T
    BY <1>11, <2>4, <2>5, SumSame
  <2>7. SumFunctionOnSet(t2, 1..(n + 1)) = t2[n + 1] + SumFunctionOnSet(t2, 1..n)
    <3>1. \A k \in 1..(n + 1) : t2[k] \in Int
      BY <2>2
    <3> QED
      BY <1>2, <3>1, SumUpTo
  <2> QED
    BY <1>11, <1>13, <2>3, <2>6, <2>7
<1>18. Enough(tr, 1..(n + 1), T + target, C)
  BY <1>3, <1>9, <1>13 DEF Enough
<1>19. R * (T + target) <= C * SumFunctionOnSet(tr, 1..(n + 1)) + R * b
  BY <1>9, <1>13
<1>20. \A k \in 1..(n + 1) :
         LET got == R * i2[k].target
             off == R * Cardinality(Asking(k))
         IN  got - C * tr[k] <= off /\ C * tr[k] - got <= off
  <2>1. \A k \in 1..n :
         LET got == R * info[k].target
             off == R * Cardinality(Asking(k))
         IN  got - C * tr[k] <= off /\ C * tr[k] - got <= off
    BY DEF TargetInv, R, C, n
  <2>2. ASSUME NEW k \in 1..n
        PROVE  LET got == R * i2[k].target
                   off == R * Cardinality(Asking(k))
               IN  got - C * tr[k] <= off /\ C * tr[k] - got <= off
    <3>1. i2[k].target = info[k].target
      BY <1>15
    <3> QED
      BY <2>1, <3>1
  <2>3. LET got == R * i2[n + 1].target
            off == R * Cardinality(Asking(n + 1))
        IN  got - C * tr[n + 1] <= off /\ C * tr[n + 1] - got <= off
    BY <1>13, <1>15 DEF r, b
  <2>4. \A k \in 1..(n + 1) : k \in 1..n \/ k = n + 1
    BY <1>2
  <2> QED
    BY <2>2, <2>3, <2>4
<1>21. n + 1 <= max + 1 /\ n + 1 <= Len(tr)
  BY <1>1, <1>2
<1>22. totalTarRatio' = R /\ C' = C /\ \A k : (Asking(k))' = Asking(k)
  BY <1>1 DEF totalTarRatio, R, C, Asking
<1>23. Len(info') = n + 1 /\ TargetOf' = t2 /\ totalTarCnt' = T + target /\ (tr)' = tr
  BY <1>1, <1>4, <1>7, <1>14, <1>15, <1>16 DEF TargetOf
<1> QED
  <2>1. pc \in Sharing \ {"lines"} /\ pc' = pc /\ max' = max /\ totalCnt' = C
    BY <1>1 DEF Sharing, C
  <2>2. /\ info' \in Seq([target : Nat, count : Nat])
        /\ Len(info') <= max' + 1 /\ Len(info') <= Len(tr')
    BY <1>1, <1>14, <1>15, <1>21, <1>23
  <2>3. /\ totalTarCnt' = SumFunctionOnSet(TargetOf', 1..Len(info'))
        /\ totalTarCnt' <= totalCnt'
        /\ Enough(tr', 1..Len(info'), totalTarCnt', totalCnt')
    BY <1>13, <1>17, <1>18, <1>23, <2>1
  <2>4. totalTarRatio' * totalTarCnt' <=
         totalCnt' * SumFunctionOnSet(tr', 1..Len(info')) + totalTarRatio' * Cardinality((Asking(Len(info)))')
    BY <1>19, <1>22, <1>23, <2>1 DEF b, Asking
  <2>5. \A k \in 1..Len(info') :
         LET got == totalTarRatio' * info'[k].target
             off == totalTarRatio' * Cardinality((Asking(k))')
         IN  got - totalCnt' * tr'[k] <= off /\ totalCnt' * tr'[k] - got <= off
    BY <1>14, <1>20, <1>22, <1>23, <2>1
  <2> QED
    BY <1>1, <2>1, <2>2, <2>3, <2>4, <2>5 DEF TargetInv

\* The targets are natural numbers.
LEMMA TargetsNat ==
  ASSUME TargetInv
  PROVE  /\ DOMAIN info = 1..Len(info) /\ Len(info) \in Nat
         /\ \A k \in 1..Len(info) : TargetOf[k] = info[k].target /\ TargetOf[k] \in Nat
<1>1. info \in Seq([target : Nat, count : Nat])
  BY DEF TargetInv
<1>2. DOMAIN info = 1..Len(info) /\ Len(info) \in Nat
  BY <1>1
<1>3. ASSUME NEW k \in 1..Len(info) PROVE TargetOf[k] = info[k].target /\ TargetOf[k] \in Nat
  <2>1. info[k] \in [target : Nat, count : Nat]
    BY <1>1, ElementOf
  <2> QED
    BY <1>2, <2>1 DEF TargetOf
<1> QED
  BY <1>2, <1>3

\* The last step of init leaves the targets alone.
LEMMA SetCountKeeps == LinesInv /\ TargetInv /\ SetCount => TargetInv'
<1> SUFFICES ASSUME LinesInv, TargetInv, SetCount PROVE TargetInv'
  OBVIOUS
<1>1. /\ pc = "targets" /\ pc' = "ready" /\ Len(info) > max
      /\ info' = [info EXCEPT ![1].count = totalCnt]
      /\ UNCHANGED <<lines, max, totalCnt, tr, totalTarCnt>>
  BY DEF SetCount, params
<1>2. info \in Seq([target : Nat, count : Nat]) /\ max \in Nat /\ totalCnt \in Nat
  BY DEF TargetInv, LinesInv
<1>3. PICK i2 : i2 = info'
  OBVIOUS
<1>4. DOMAIN info = 1..Len(info) /\ Len(info) \in Nat /\ 1 \in 1..Len(info)
  BY <1>1, <1>2
<1>5. info[1] \in [target : Nat, count : Nat]
  BY <1>2, <1>4, ElementOf
<1>6. /\ DOMAIN i2 = 1..Len(info)
      /\ \A k \in 1..Len(info) : i2[k] \in [target : Nat, count : Nat] /\ i2[k].target = info[k].target
  <2>1. i2 = [info EXCEPT ![1] = [info[1] EXCEPT !.count = totalCnt]]
    BY <1>1, <1>3
  <2>2. [info[1] EXCEPT !.count = totalCnt] = [target |-> info[1].target, count |-> totalCnt]
    BY <1>5
  <2>3. /\ i2[1] = [target |-> info[1].target, count |-> totalCnt]
        /\ \A k \in 1..Len(info) : k # 1 => i2[k] = info[k]
        /\ DOMAIN i2 = 1..Len(info)
    BY <1>4, <2>1, <2>2
  <2>4. ASSUME NEW k \in 1..Len(info)
        PROVE  i2[k] \in [target : Nat, count : Nat] /\ i2[k].target = info[k].target
    <3>1. CASE k = 1
      BY <1>2, <1>5, <2>3, <3>1
    <3>2. CASE k # 1
      BY <1>2, <2>3, <3>2, ElementOf
    <3> QED
      BY <3>1, <3>2
  <2> QED
    BY <2>3, <2>4
<1>7. i2 \in Seq([target : Nat, count : Nat]) /\ Len(i2) = Len(info)
  <2>1. PICK m \in Nat : m = Len(info)
    BY <1>4
  <2>2. i2 = [k \in 1..m |-> i2[k]]
    <3>1. i2 = [info EXCEPT ![1] = [info[1] EXCEPT !.count = totalCnt]]
      BY <1>1, <1>3
    <3> QED
      BY <1>4, <2>1, <3>1
  <2>3. i2 \in [1..m -> [target : Nat, count : Nat]]
    BY <1>6, <2>1, <2>2
  <2>4. i2 \in Seq([target : Nat, count : Nat]) /\ Len(i2) = m
    BY <2>3, SeqOfFunction
  <2> QED
    BY <2>1, <2>4
<1>8. TargetOf' = TargetOf
  BY <1>3, <1>4, <1>6 DEF TargetOf
<1>9. /\ totalTarRatio' = totalTarRatio /\ \A k : (Asking(k))' = Asking(k)
      /\ pc \in Sharing \ {"lines"} /\ pc' \in Sharing \ {"lines"} /\ Len(info') = Len(info)
  BY <1>1, <1>3, <1>7 DEF totalTarRatio, Asking, Sharing
<1>10. Len(info) = max + 1
  <2>1. Len(info) <= max + 1
    BY DEF TargetInv
  <2> QED
    BY <1>1, <1>2, <1>4, <2>1
<1>11. \A k \in 1..Len(info') :
         LET got == totalTarRatio' * info'[k].target
             off == totalTarRatio' * Cardinality((Asking(k))')
         IN  got - totalCnt' * tr'[k] <= off /\ totalCnt' * tr'[k] - got <= off
  <2>1. \A k \in 1..Len(info) :
         LET got == totalTarRatio * info[k].target
             off == totalTarRatio * Cardinality(Asking(k))
         IN  got - totalCnt * tr[k] <= off /\ totalCnt * tr[k] - got <= off
    BY DEF TargetInv
  <2> QED
    BY <1>1, <1>3, <1>6, <1>9, <2>1
<1>12. totalTarRatio' * totalTarCnt' <=
         totalCnt' * SumFunctionOnSet(tr', 1..Len(info'))
           + totalTarRatio' * Cardinality((Asking(Len(info)))')
  <2>1. totalTarRatio * totalTarCnt <=
         totalCnt * SumFunctionOnSet(tr, 1..Len(info)) + totalTarRatio * Cardinality(Asking(Len(info)))
    BY DEF TargetInv
  <2> QED
    BY <1>1, <1>9, <2>1 DEF Asking
<1>13. /\ totalTarCnt' = SumFunctionOnSet(TargetOf', 1..Len(info')) /\ totalTarCnt' <= totalCnt'
       /\ Enough(tr', 1..Len(info'), totalTarCnt', totalCnt')
       /\ Len(info') = max' + 1 /\ Len(info') <= max' + 1 /\ Len(info') <= Len(tr')
       /\ info' \in Seq([target : Nat, count : Nat])
  <2>1. /\ totalTarCnt = SumFunctionOnSet(TargetOf, 1..Len(info)) /\ totalTarCnt <= totalCnt
        /\ Enough(tr, 1..Len(info), totalTarCnt, totalCnt)
        /\ Len(info) <= max + 1 /\ Len(info) <= Len(tr)
    BY DEF TargetInv
  <2> QED
    BY <1>1, <1>3, <1>7, <1>8, <1>9, <1>10, <2>1
<1> QED
  BY <1>1, <1>9, <1>11, <1>12, <1>13 DEF TargetInv

\* The sampling vector is as long as the targets add up to.
LEMMA SamplingLength ==
  ASSUME LinesInv, TargetInv, GetSamplingVector
  PROVE  Len(sampling') = totalTarCnt
<1> DEFINE n == max + 1
           ss == [i \in 1..n |-> [j \in 1..info[i].target |-> i - 1]]
<1>1. Len(info) = n /\ n \in Nat \ {0} /\ sampling' = FlattenSeq(ss)
      /\ totalTarCnt = SumFunctionOnSet(TargetOf, 1..n)
  BY DEF GetSamplingVector, TargetInv, LinesInv
<1>2. \A k \in 1..n : TargetOf[k] = info[k].target /\ TargetOf[k] \in Nat
  BY <1>1, TargetsNat
<1>3. \A i \in 1..n : ss[i] \in Seq(Nat) /\ TargetOf[i] = Len(ss[i])
  <2> HIDE DEF n
  <2> SUFFICES ASSUME NEW i \in 1..n PROVE ss[i] \in Seq(Nat) /\ TargetOf[i] = Len(ss[i])
    OBVIOUS
  <2>1. PICK t \in Nat : t = info[i].target /\ t = TargetOf[i]
    BY <1>2
  <2>2. ss[i] = [j \in 1..info[i].target |-> i - 1]
    OBVIOUS
  <2>3. PICK v \in Nat : v = i - 1
    <3>1. i - 1 \in Nat
      BY <1>1
    <3> QED
      BY <3>1
  <2> HIDE DEF ss
  <2>4. ss[i] = [j \in 1..t |-> v]
    BY <2>1, <2>2, <2>3
  <2>5. ss[i] \in Seq(Nat) /\ Len(ss[i]) = t
    BY <2>4
  <2> QED
    BY <2>1, <2>5
<1>4. ss \in [1..n -> Seq(Nat)]
  <2> HIDE DEF n
  <2> QED
    BY <1>3
<1> HIDE DEF n, ss
<1>5. n \in Nat \ {0}
  BY <1>1
<1>6. \A i \in 1..n : TargetOf[i] = Len(ss[i])
  BY <1>3
<1>7. FlattenSeq(ss) \in Seq(Nat) /\ Len(FlattenSeq(ss)) = SumFunctionOnSet(TargetOf, 1..n)
  <2>1. PICK t : t = TargetOf
    OBVIOUS
  <2>2. \A i \in 1..n : t[i] = Len(ss[i])
    BY <1>6, <2>1
  <2>3. FlattenSeq(ss) \in Seq(Nat) /\ Len(FlattenSeq(ss)) = SumFunctionOnSet(t, 1..n)
    BY <1>4, <1>5, <2>2, FlattenLength, ZenonT(60)
  <2> QED
    BY <2>1, <2>3
<1> QED
  BY <1>1, <1>7

LEMMA NextTarget ==
  SpecTypeOK /\ CreateInv /\ LinesInv /\ TargetInv /\ [Next]_vars => TargetInv'
<1> SUFFICES ASSUME SpecTypeOK, CreateInv, LinesInv, TargetInv, [Next]_vars PROVE TargetInv'
  OBVIOUS
<1>1. LinesInv'
  BY NextLines
<1>2. ASSUME pc \notin Sharing \ {"lines"}, pc' \notin {"ready", "done", "undefined"},
             UNCHANGED <<info, totalTarCnt>>
      PROVE  TargetInv'
  <2>1. info = <<>> /\ totalTarCnt = 0
    <3>1. info = <<>> /\ 1..Len(info) = {}
      BY <1>2 DEF TargetInv
    <3>2. totalTarCnt = SumFunctionOnSet(TargetOf, 1..Len(info))
      BY DEF TargetInv
    <3> QED
      BY <3>1, <3>2, SumOfNone
  <2>2. (LinesInv /\ info = <<>> /\ totalTarCnt = 0 /\ pc \notin {"ready", "done", "undefined"}
           => TargetInv)'
    BY NoTargets, PTL
  <2> QED
    BY <1>1, <1>2, <2>1, <2>2
<1>3. CASE \/ GrowDims \/ BeginSearch \/ TurnSearch \/ EndSearch \/ CountValue \/ EndSampling
           \/ ReadSpec \/ Initialize \/ InitDistribution
  <2>1. UNCHANGED <<info, totalTarCnt>>
    BY <1>3 DEF GrowDims, BeginSearch, TurnSearch, EndSearch, CountValue, EndSampling, ReadSpec,
                Initialize, InitDistribution, unread, distVars
  <2>2. pc \notin Sharing \ {"lines"} /\ pc' \notin {"ready", "done", "undefined"}
    BY <1>3 DEF GrowDims, BeginSearch, TurnSearch, EndSearch, CountValue, EndSampling, ReadSpec,
                Initialize, InitDistribution, distVars, Sharing
  <2> QED
    BY <1>2, <2>1, <2>2
<1>4. CASE ReadLine \/ EndLines
  <2>1. UNCHANGED <<info, totalTarCnt>> /\ pc = "lines" /\ pc' \in {"lines", "targets"}
    BY <1>4 DEF ReadLine, EndLines
  <2> QED
    BY <1>2, <2>1
<1>5. CASE SetTarget
  BY <1>5, SetTargetKeeps
<1>6. CASE SetCount
  BY <1>6, SetCountKeeps
<1>7. CASE ReadBehindEnd
  <2>1. /\ UNCHANGED <<lines, max, totalCnt, tr, info, totalTarCnt>> /\ pc = "targets" /\ pc' = "undefined"
        /\ Len(info) <= max /\ Len(info) >= Len(tr)
    BY <1>7 DEF ReadBehindEnd, params
  <2>2. Len(tr) <= max
    <3>1. Len(info) \in Nat /\ Len(tr) \in Nat /\ max \in Nat
      BY TargetsNat DEF LinesInv
    <3> QED
      BY <2>1, <3>1
  <2>3. totalTarRatio' = totalTarRatio /\ TargetOf' = TargetOf
    BY <2>1 DEF totalTarRatio, TargetOf
  <2> QED
    BY <2>1, <2>2, <2>3 DEF TargetInv, Asking, Sharing
<1>8. CASE GetSamplingVector
  <2>1. /\ UNCHANGED <<lines, max, totalCnt, tr, info, totalTarCnt>> /\ pc = "ready" /\ pc' = "done"
    BY <1>8 DEF GetSamplingVector, params
  <2>2. totalTarRatio' = totalTarRatio /\ TargetOf' = TargetOf
    BY <2>1 DEF totalTarRatio, TargetOf
  <2>3. Len(sampling') = totalTarCnt
    BY <1>8, SamplingLength
  <2> QED
    BY <2>1, <2>2, <2>3 DEF TargetInv, Asking, Sharing
<1>9. CASE UNCHANGED vars
  BY <1>9 DEF vars, distVars, params, TargetInv, TargetOf, Asking, totalTarRatio
<1> QED
  BY <1>3, <1>4, <1>5, <1>6, <1>7, <1>8, <1>9 DEF Next, DistNext
-----------------------------------------------------------------------------
\* A vector too short means a largest value that no line reaches.
LEMMA InsideLines == SpecTypeOK /\ LinesInv /\ TargetInv => ReadsInside
<1> SUFFICES ASSUME SpecTypeOK, LinesInv, TargetInv, pc = "undefined"
             PROVE  kinds = <<>> /\ \A i \in DOMAIN lines : lines[i].value < max
  BY DEF ReadsInside
<1>1. Len(tr) <= max /\ nextLine = Len(lines) + 1 /\ max \in Nat /\ Len(tr) \in Nat
  BY DEF LinesInv, TargetInv, Sharing
<1>2. DOMAIN lines = 1..Len(lines) /\ Len(lines) \in Nat /\ nextLine - 1 = Len(lines)
  BY <1>1 DEF LinesInv
<1>3. ASSUME NEW i \in DOMAIN lines PROVE lines[i].value \in Nat /\ lines[i].value < max
  <2>1. lines[i].value < Len(tr)
    BY <1>2 DEF LinesInv
  <2>2. lines[i] \in Line0
    BY DEF LinesInv
  <2>3. lines[i].value \in Nat
    BY <2>2 DEF Line0
  <2> QED
    BY <1>1, <2>1, <2>3
<1>4. ~ \E i \in DOMAIN lines : lines[i].value >= max
  BY <1>1, <1>3
<1>5. kinds = <<>>
  BY <1>4 DEF LinesInv, Sharing
<1> QED
  BY <1>3, <1>5

LEMMA TotalsKept == CreateInv => TotalsSurvive
BY DEF CreateInv, TotalsSurvive, Creating

\* All entries have their share: then no node is left over.
LEMMA AllShared == LinesInv /\ TargetInv => SamplesAddUp
<1> SUFFICES ASSUME LinesInv, TargetInv, pc = "done", WellFormed PROVE Len(sampling) = totalCnt
  BY DEF SamplesAddUp
<1>1. /\ Len(info) = max + 1 /\ Len(info) <= Len(tr) /\ Len(tr) <= max + 1
      /\ Len(sampling) = totalTarCnt /\ totalTarCnt <= totalCnt /\ totalCnt \in Nat /\ max \in Nat
      /\ Enough(tr, 1..Len(info), totalTarCnt, totalCnt)
      /\ totalTarCnt = SumFunctionOnSet(TargetOf, 1..Len(info))
  BY DEF LinesInv, TargetInv
<1>2. tr \in Seq(Nat)
  BY DEF LinesInv
<1>3. DOMAIN tr = 1..Len(info)
  BY <1>1, <1>2
<1>4. Total(tr) \in Nat \ {0} /\ Total(tr) = SumFunctionOnSet(tr, 1..Len(info))
  <2>1. Total(tr) = totalTarRatio /\ totalTarRatio \in Nat /\ totalTarRatio > 0
    BY RatioSums DEF LinesInv, Sharing
  <2> QED
    BY <1>3, <2>1 DEF Total, SumFunction
<1>5. totalTarCnt \in Nat
  <2>1. \A k \in 1..Len(info) : TargetOf[k] \in Nat
    BY TargetsNat
  <2>2. IsFiniteSet(1..Len(info))
    BY <1>1, FS_Interval
  <2> QED
    BY <1>1, <2>1, <2>2, SumOfNats
<1>6. totalTarCnt = totalCnt \/ Total(tr) * totalCnt <= totalTarCnt * Total(tr)
  BY <1>1, <1>4 DEF Enough
<1>7. totalTarCnt = totalCnt
  BY <1>1, <1>4, <1>5, <1>6, CancelFactor
<1> QED
  BY <1>1, <1>7

\* The ratio of a value of a well-formed file is where the targets look for it.
LEMMA RatioFound ==
  ASSUME LinesInv, WellFormed, nextLine = Len(lines) + 1, NEW v \in Nat, v + 1 \in 1..Len(tr)
  PROVE  FileRatio(v) = tr[v + 1] /\ tr[v + 1] \in Nat
<1> DEFINE f == [i \in DOMAIN lines |-> IF lines[i].value = v THEN lines[i].ratio ELSE 0]
<1>1. /\ DOMAIN lines = 1..Len(lines) /\ Len(lines) \in Nat /\ nextLine - 1 = Len(lines)
      /\ tr[v + 1] \in Nat
  BY DEF LinesInv
<1>2. \A i \in DOMAIN lines : lines[i].value \in Nat /\ lines[i].ratio \in Nat
  <2>1. \A i \in DOMAIN lines : lines[i] \in Line0
    BY DEF LinesInv
  <2> QED
    BY <2>1 DEF Line0
<1>3. Rising /\ IsFiniteSet(DOMAIN lines) /\ DOMAIN f = DOMAIN lines
  BY <1>1, FS_Interval DEF WellFormed
<1>4. FileRatio(v) = SumFunctionOnSet(f, DOMAIN lines)
  BY <1>3 DEF FileRatio, SumOf, SumFunction
<1>5. CASE \E i \in DOMAIN lines : lines[i].value = v
  <2>1. PICK i \in DOMAIN lines : lines[i].value = v
    BY <1>5
  <2>2. \A j \in DOMAIN lines \ {i} : lines[j].value # v
    <3> SUFFICES ASSUME NEW j \in DOMAIN lines \ {i} PROVE lines[j].value # v
      OBVIOUS
    <3>1. i < j \/ j < i
      BY <1>1
    <3>2. lines[i].value < lines[j].value \/ lines[j].value < lines[i].value
      BY <1>3, <3>1 DEF Rising
    <3> QED
      BY <1>2, <2>1, <3>2
  <2>3. f[i] = lines[i].ratio /\ \A j \in DOMAIN lines \ {i} : f[j] = 0
    BY <2>1, <2>2
  <2>4. SumFunctionOnSet(f, DOMAIN lines) = f[i]
    <3>1. f[i] \in Int
      BY <1>2, <2>3
    <3> HIDE DEF f
    <3> QED
      BY <1>3, <2>3, <3>1, SumOnlyAt
  <2>5. tr[lines[i].value + 1] = lines[i].ratio
    BY <1>1, <1>3 DEF LinesInv
  <2> QED
    BY <1>1, <1>4, <2>1, <2>3, <2>4, <2>5
<1>6. CASE ~ \E i \in DOMAIN lines : lines[i].value = v
  <2>1. \A j \in DOMAIN lines : f[j] = 0
    BY <1>6
  <2>2. SumFunctionOnSet(f, DOMAIN lines) = SumFunctionOnSet(f, {})
    <3>1. /\ \A j \in DOMAIN lines : f[j] \in Int
          /\ \A j \in DOMAIN lines \ {} : f[j] = 0
          /\ {} \in SUBSET DOMAIN lines
      BY <2>1
    <3> HIDE DEF f
    <3> QED
      BY <1>3, <3>1, SumOfParts
  <2>3. ~ (tr[v + 1] > 0)
    <3>1. ~ \E i \in 1..(nextLine - 1) : lines[i].value + 1 = v + 1
      BY <1>1, <1>2, <1>6
    <3> QED
      BY <1>3, <3>1 DEF LinesInv
  <2> QED
    BY <1>1, <1>4, <2>2, <2>3, SumOfNone
<1> QED
  BY <1>5, <1>6

\* Values and entries of the vector count alike.
LEMMA CloseToShares == LinesInv /\ TargetInv => TargetsClose
<1> SUFFICES ASSUME LinesInv, TargetInv, WellFormed, NEW v \in 0..(Len(info) - 1)
             PROVE  LET exact == totalCnt * FileRatio(v)
                        off == totalTarRatio * Cardinality({u \in 0..v : FileRatio(u) > 0})
                        got == totalTarRatio * info[v + 1].target
                    IN  got - exact <= off /\ exact - got <= off
  BY DEF TargetsClose
<1>1. Len(info) \in Nat /\ v \in Nat /\ v + 1 \in 1..Len(info) /\ Len(info) <= Len(tr) /\ Len(tr) \in Nat
  BY TargetsNat DEF TargetInv, LinesInv
<1>2. nextLine = Len(lines) + 1
  <2>1. info # <<>>
    BY <1>1
  <2> QED
    BY <2>1 DEF LinesInv, TargetInv
<1>3. \A u \in 0..v : FileRatio(u) = tr[u + 1] /\ tr[u + 1] \in Nat
  <2> SUFFICES ASSUME NEW u \in 0..v PROVE FileRatio(u) = tr[u + 1] /\ tr[u + 1] \in Nat
    OBVIOUS
  <2>1. u \in Nat /\ u + 1 \in 1..Len(tr)
    BY <1>1
  <2> QED
    BY <1>2, <2>1, RatioFound
<1> DEFINE A == {u \in 0..v : FileRatio(u) > 0}
           B == Asking(v + 1)
<1>4. Cardinality(A) = Cardinality(B)
  <2> DEFINE g == [u \in A |-> u + 1]
  <2>1. IsFiniteSet(A)
    <3>1. IsFiniteSet(0..v)
      BY <1>1, FS_Interval
    <3>2. A \in SUBSET (0..v)
      OBVIOUS
    <3> QED
      BY <3>1, <3>2, FS_Subset
  <2>2. \A u \in A : g[u] \in B
    <3> SUFFICES ASSUME NEW u \in A PROVE u + 1 \in B
      OBVIOUS
    <3>1. u \in 0..v /\ FileRatio(u) > 0
      OBVIOUS
    <3>2. u + 1 \in 1..(v + 1) /\ tr[u + 1] > 0
      BY <1>1, <1>3, <3>1
    <3> QED
      BY <3>2 DEF Asking
  <2>3. \A k \in B : k - 1 \in A /\ g[k - 1] = k
    <3> SUFFICES ASSUME NEW k \in B PROVE k - 1 \in A /\ (k - 1) + 1 = k
      OBVIOUS
    <3>1. k \in 1..(v + 1) /\ tr[k] > 0
      BY DEF Asking
    <3>2. k - 1 \in 0..v /\ (k - 1) + 1 = k
      BY <1>1, <3>1
    <3> QED
      BY <1>3, <3>1, <3>2
  <2>4. \A u, w \in A : g[u] = g[w] => u = w
    <3>1. A \subseteq Nat
      BY <1>1
    <3> QED
      BY <3>1
  <2>5. g \in [A -> B]
    BY <2>2
  <2> HIDE DEF A, B
  <2>6. g \in Bijection(A, B)
    <3> HIDE DEF g
    <3> QED
      BY <2>3, <2>4, <2>5 DEF Bijection, Injection, Surjection, IsInjective
  <2> QED
    BY <2>1, <2>6, FS_Bijection DEF ExistsBijection
<1>5. LET got == totalTarRatio * info[v + 1].target
          off == totalTarRatio * Cardinality(B)
      IN  got - totalCnt * tr[v + 1] <= off /\ totalCnt * tr[v + 1] - got <= off
  BY <1>1 DEF TargetInv
<1>6. FileRatio(v) = tr[v + 1]
  BY <1>1, <1>3
<1> QED
  BY <1>4, <1>5, <1>6
-----------------------------------------------------------------------------
\* A list without repetition is as long as its set is large.
LEMMA InjectiveCount ==
  ASSUME NEW D, NEW q \in Seq(D), IsInjective(q)
  PROVE  IsFiniteSet(Range(q)) /\ Cardinality(Range(q)) = Len(q)
<1>1. Len(q) \in Nat /\ DOMAIN q = 1..Len(q) /\ q \in [1..Len(q) -> Range(q)]
  BY DEF Range
<1>2. q \in Bijection(1..Len(q), Range(q))
  BY <1>1 DEF Bijection, Injection, Surjection, Range, IsInjective
<1>3. IsFiniteSet(1..Len(q)) /\ Cardinality(1..Len(q)) = Len(q)
  <2>1. PICK n \in Nat : n = Len(q)
    BY <1>1
  <2>2. IsFiniteSet(1..n) /\ Cardinality(1..n) = n
    BY FS_Interval
  <2> QED
    BY <2>1, <2>2
<1> QED
  BY <1>2, <1>3, FS_Bijection DEF ExistsBijection

\* What the pins taken from a bin with the nodes c are, while some are missing
TakenAre(t, list, c, wanted) ==
  /\ Range(t) \subseteq Range(c)
  /\ IF Len(list) + Len(c) < Wanted(wanted)
     THEN t = c /\ ~ (t # <<>> /\ Len(list) + Len(t) >= wanted)
     ELSE t # <<>> /\ Len(list) + Len(t) = Wanted(wanted) /\ Len(list) + Len(t) >= wanted

LEMMA TakenFromBin ==
  ASSUME NEW D, NEW list \in Seq(D), NEW c \in Seq(D), IsInjective(c), NEW wanted \in Nat,
         Len(list) < Wanted(wanted)
  PROVE  /\ Taken(list, c, wanted) \in Seq(D) /\ IsInjective(Taken(list, c, wanted))
         /\ TakenAre(Taken(list, c, wanted), list, c, wanted)
<1> DEFINE t == Taken(list, c, wanted)
           k == IF wanted > Len(list) THEN wanted - Len(list) ELSE 1
<1>1. Len(list) \in Nat /\ Len(c) \in Nat /\ Wanted(wanted) = IF wanted = 0 THEN 1 ELSE wanted
  BY DEF Wanted
<1>2. CASE Len(c) = 0
  <2>1. t = <<>> /\ c = <<>>
    BY <1>2 DEF Taken
  <2>2. <<>> \in Seq(D) /\ IsInjective(<<>>) /\ Range(<<>>) = {}
    BY DEF IsInjective, Range
  <2>3. Len(list) + Len(c) < Wanted(wanted)
    BY <1>1, <1>2
  <2> HIDE DEF t
  <2>4. TakenAre(t, list, c, wanted)
    BY <2>1, <2>2, <2>3 DEF TakenAre
  <2> QED
    BY <2>1, <2>2, <2>4 DEF t
<1>3. CASE Len(c) # 0 /\ wanted - Len(list) >= Len(c)
  <2>1. t = c /\ wanted # 0 /\ c # <<>>
    BY <1>1, <1>3 DEF Taken
  <2>2. ~ (Len(list) + Len(c) < Wanted(wanted)) =>
          Len(list) + Len(c) = Wanted(wanted) /\ Len(list) + Len(c) >= wanted
    BY <1>1, <1>3, <2>1
  <2>3. Len(list) + Len(c) < Wanted(wanted) => ~ (Len(list) + Len(c) >= wanted)
    BY <1>1, <2>1
  <2> HIDE DEF t
  <2>4. TakenAre(t, list, c, wanted)
    BY <2>1, <2>2, <2>3 DEF TakenAre
  <2> QED
    BY <2>1, <2>4 DEF t
<1>4. CASE Len(c) # 0 /\ ~ (wanted - Len(list) >= Len(c))
  <2>1. t = SubSeq(c, 1, k)
    BY <1>4 DEF Taken
  <2>2. k \in 1..Len(c) /\ Len(list) + k = Wanted(wanted) /\ Len(list) + k >= wanted
    BY <1>1, <1>4
  <2>3. ~ (Len(list) + Len(c) < Wanted(wanted))
    BY <1>1, <1>4, <2>2
  <2> HIDE DEF t, k
  <2>4. t \in Seq(D) /\ Len(t) = k /\ \A i \in 1..k : t[i] = c[i]
    <3>1. \A i \in 1..k : c[i] \in D
      BY <1>1, <2>2
    <3> QED
      BY <1>1, <2>1, <2>2, <3>1
  <2>5. DOMAIN t = 1..k /\ DOMAIN c = 1..Len(c) /\ \A i \in 1..k : i \in 1..Len(c)
    BY <1>1, <2>2, <2>4
  <2>6. IsInjective(t)
    BY <2>4, <2>5 DEF IsInjective
  <2>7. Range(t) \subseteq Range(c)
    BY <2>4, <2>5 DEF Range
  <2>8. t # <<>>
    BY <2>2, <2>4
  <2>9. TakenAre(t, list, c, wanted)
    BY <2>2, <2>3, <2>4, <2>7, <2>8 DEF TakenAre
  <2> QED
    BY <2>4, <2>6, <2>9 DEF t
<1> QED
  BY <1>1, <1>2, <1>3, <1>4

\* A bin and its place in the layout
LEMMA PlaceOfBin ==
  ASSUME NEW p \in Nat, NEW d \in Nat \ {0}
  PROVE  /\ p \div d \in Nat /\ p % d \in 0..(d - 1)
         /\ p < d <=> p \div d = 0
         /\ \A y \in Nat : (p = (d - 1) + y * d) <=> (p % d = d - 1 /\ p \div d = y)
         /\ \A y \in Nat \ {0} : p < y * d => p \div d < y
<1> DEFINE q == p \div d
           r == p % d
<1>1. q \in Nat /\ q * d <= p /\ p < q * d + d
  BY QuotientBounds
<1>2. r \in 0..(d - 1) /\ p = d * q + r
  OBVIOUS
<1> HIDE DEF q, r
<1>3. p = q * d + r /\ r \in Nat /\ q * d \in Nat
  BY <1>1, <1>2
<1>4. p < d <=> q = 0
  <2>1. ASSUME p < d PROVE q = 0
    <3>1. 0 * d <= q * d /\ q * d < 0 * d + d
      BY <1>1, <2>1
    <3> QED
      BY <1>1, <3>1, SameMultiple
  <2>2. ASSUME q = 0 PROVE p < d
    BY <1>1, <2>2
  <2> QED
    BY <2>1, <2>2
<1>5. ASSUME NEW y \in Nat PROVE (p = (d - 1) + y * d) <=> (r = d - 1 /\ q = y)
  <2>1. ASSUME p = (d - 1) + y * d PROVE r = d - 1 /\ q = y
    <3>1. y * d \in Nat
      OBVIOUS
    <3>2. y * d < q * d + d /\ q * d < y * d + d
      BY <1>1, <2>1, <3>1
    <3>3. q = y
      <4>1. CASE q * d <= y * d
        BY <1>1, <3>2, <4>1, SameMultiple
      <4>2. CASE y * d <= q * d
        BY <1>1, <3>2, <4>2, SameMultiple
      <4> QED
        BY <1>3, <3>1, <4>1, <4>2
    <3> QED
      BY <1>3, <2>1, <3>1, <3>3
  <2>2. ASSUME r = d - 1, q = y PROVE p = (d - 1) + y * d
    BY <1>3, <2>2
  <2> QED
    BY <2>1, <2>2
<1>6. ASSUME NEW y \in Nat \ {0}, p < y * d PROVE q < y
  <2> SUFFICES ASSUME q >= y PROVE FALSE
    BY <1>1
  <2>1. PICK e \in Nat : q = y + e
    <3>1. q - y \in Nat /\ q = y + (q - y)
      BY <1>1
    <3> QED
      BY <3>1
  <2>2. q * d = y * d + e * d /\ e * d \in Nat /\ y * d \in Nat
    BY <2>1
  <2> QED
    BY <1>1, <1>6, <2>2
<1> QED
  BY <1>1, <1>2, <1>4, <1>5, <1>6 DEF q, r
-----------------------------------------------------------------------------
\* The share of combinational nodes is no less than 0.
LEMMA InitCellCntNat ==
  ASSUME NEW n \in Nat \ {0}, NEW comb \in 0..100, NEW c \in InitCellCnts(n, comb)
  PROVE  c \in Nat
<1>1. PICK rest \in 0..100 : rest = 100 - comb
  <2>1. 100 - comb \in 0..100
    OBVIOUS
  <2> QED
    BY <2>1
<1>2. PICK m \in Nat : m = rest * n /\ m <= 100 * n
  <2>1. PICK e \in Nat : 100 = rest + e
    <3>1. 100 - rest \in Nat /\ 100 = rest + (100 - rest)
      OBVIOUS
    <3> QED
      BY <3>1
  <2>2. 100 * n = rest * n + e * n /\ e * n \in Nat /\ rest * n \in Nat
    BY <2>1
  <2> QED
    BY <2>2
<1>3. PICK percent : percent = 80 * n * 100 - 20 * (100 - comb) * n
  OBVIOUS
<1>4. 20 * (100 - comb) * n = 20 * m
  BY <1>1, <1>2
<1>5. percent \in Nat /\ percent >= 1
  BY <1>2, <1>3, <1>4
<1>6. c = percent \div 10000 \/ (percent % 10000 = 0 /\ c = (percent \div 10000) - 1)
  BY <1>3 DEF InitCellCnts
<1>7. percent \div 10000 \in Nat /\ percent = 10000 * (percent \div 10000) + (percent % 10000)
  BY <1>5
<1> QED
  BY <1>5, <1>6, <1>7

\* Nothing of the plan is there while the layout grows.
Unplanned ==
  /\ primIns = <<>> /\ primOuts = <<>> /\ scan = [x |-> 0, y |-> 0]
  /\ stage \in {"unread", "layout"}
  /\ initCellCnt \in Nat /\ inputPinCnt \in Nat /\ outputPinCnt \in Nat

LEMMA NothingPlanned == Unplanned => PlanInv
<1> SUFFICES ASSUME Unplanned PROVE PlanInv
  OBVIOUS
<1>1. <<>> \in Seq(Node) /\ IsInjective(<<>>) /\ Range(<<>>) = {}
  BY DEF IsInjective, Range
<1>2. scan \in [x : Int, y : Int]
  BY DEF Unplanned
<1> QED
  BY <1>1, <1>2 DEF Unplanned, PlanInv, Vector, Planning

LEMMA InitPlan == Init => PlanInv
<1> SUFFICES ASSUME Init PROVE Unplanned
  BY NothingPlanned
<1>1. CASE NoPlan
  BY <1>1 DEF NoPlan, EmptyPlan, Unplanned
<1>2. CASE PlanInit
  <2>1. /\ EmptyPlan /\ stage = "layout" /\ inputPinCnt \in Nat /\ outputPinCnt \in Nat
        /\ instanceCnt \in Nat \ {0}
    BY <1>2, SpecAssumption DEF PlanInit
  <2>2. PICK comb \in CombPercents : initCellCnt \in InitCellCnts(instanceCnt, comb)
    BY <1>2 DEF PlanInit
  <2>3. comb \in 0..100
    BY SpecAssumption
  <2>4. initCellCnt \in Nat
    BY <2>1, <2>2, <2>3, InitCellCntNat
  <2> QED
    BY <2>1, <2>4 DEF EmptyPlan, Unplanned
<1> QED
  BY <1>1, <1>2 DEF Init, LinesByHand, CountsByHand, Created

\* The nodes of a bin
LEMMA NodesAre ==
  ASSUME PlanInv, SpecTypeOK, stage \in Planning, NEW x \in Nat, NEW y \in Nat
  PROVE  /\ NodesOf(x, y) \in Seq(Node) /\ IsInjective(NodesOf(x, y))
         /\ Range(NodesOf(x, y)) = {n \in Node : place[n] = x + y * layoutDimX}
<1> DEFINE S == {n \in DOMAIN place : place[n] = x + y * layoutDimX}
<1>1. DOMAIN place = Node /\ initCellCnt \in Nat
  BY DEF PlanInv
<1>2. Node \in SUBSET Nat /\ IsFiniteSet(Node)
  <2>1. IsFiniteSet(0..(initCellCnt - 1))
    BY <1>1, FS_Interval
  <2> QED
    BY <1>1, <2>1 DEF Node
<1>3. S \in SUBSET Nat /\ S \subseteq Node /\ IsFiniteSet(S) /\ S = {n \in Node : place[n] = x + y * layoutDimX}
  BY <1>1, <1>2, FS_Subset
<1>4. NodesOf(x, y) = Ascending(S)
  BY DEF NodesOf
<1> HIDE DEF S
<1>5. /\ Ascending(S) \in Seq(S) /\ IsInjective(Ascending(S)) /\ Range(Ascending(S)) = S
  BY <1>3, AscendingLists
<1>6. Ascending(S) \in Seq(Node)
  BY <1>3, <1>5, VectorOfMore
<1> QED
  BY <1>3, <1>4, <1>5, <1>6

LEMMA PlaceKeeps ==
  ASSUME SpecTypeOK, PlanInv, PlaceNodes
  PROVE  PlanInv'
<1>1. /\ stage = "layout" /\ stage' = "inputs"
      /\ place' = [n \in {m \in Node : m < avgNodeCnt * binCnt} |-> n \div avgNodeCnt]
      /\ type' = [n \in Node |-> "Combinational"]
      /\ UNCHANGED <<instanceCnt, inputPinCnt, outputPinCnt, initCellCnt, layoutDimX, layoutDimY,
                     primIns, primOuts, scan>>
  BY DEF PlaceNodes, planParams, layout
<1>2. /\ primIns = <<>> /\ primOuts = <<>> /\ scan = [x |-> 0, y |-> 0]
      /\ initCellCnt \in Nat /\ inputPinCnt \in Nat /\ outputPinCnt \in Nat
  BY <1>1 DEF PlanInv
<1>3. layoutDimX \in Nat \ {0} /\ layoutDimY \in Nat \ {0}
  BY DEF SpecTypeOK, Staircase
<1>4. PICK c \in Nat \ {0} : c = binCnt
  <2>1. layoutDimX * layoutDimY \in Nat \ {0}
    BY <1>3
  <2> QED
    BY <2>1 DEF binCnt
<1>5. PICK a \in Nat : a = avgNodeCnt /\ initCellCnt <= a * c
  <2>1. CeilDiv(initCellCnt, c) \in Nat /\ initCellCnt <= CeilDiv(initCellCnt, c) * c
    BY <1>2, CeilDivBounds
  <2> QED
    BY <1>4, <2>1 DEF avgNodeCnt
<1>6. ASSUME NEW n \in Node PROVE n < a * c /\ n \div a \in 0..(c - 1) /\ n \in Nat
  <2>1. n \in Nat /\ n < initCellCnt
    BY <1>2 DEF Node
  <2>2. a * c \in Nat /\ a * c = c * a
    BY <1>5
  <2>3. n < a * c
    BY <1>2, <1>5, <2>1, <2>2
  <2>4. a # 0
    BY <2>1, <2>3
  <2>5. n \div a \in Nat /\ n \div a < c
    <3>1. a \in Nat \ {0} /\ n \in Nat
      BY <2>1, <2>4
    <3>2. n \div a \in Nat /\ \A y \in Nat \ {0} : n < y * a => n \div a < y
      BY <3>1, PlaceOfBin
    <3> QED
      BY <2>2, <2>3, <3>2
  <2> QED
    BY <2>1, <2>3, <2>5
<1>7. place' \in [Node -> 0..(c - 1)]
  <2>1. {m \in Node : m < avgNodeCnt * binCnt} = Node
    BY <1>4, <1>5, <1>6
  <2>2. place' = [n \in Node |-> n \div a]
    BY <1>1, <1>5, <2>1
  <2> QED
    BY <1>6, <2>2
<1>8. Node' = Node /\ binCnt' = c
  BY <1>1, <1>4 DEF Node, binCnt
<1>9. <<>> \in Seq(Node) /\ IsInjective(<<>>) /\ Range(<<>>) = {} /\ Len(<<>>) = 0
  BY DEF IsInjective, Range
<1>10. InputsTaken'
  <2>1. {n \in Node : place'[n] < 0} = {}
    BY <1>7
  <2>2. 0 < Wanted(inputPinCnt)
    BY <1>2 DEF Wanted
  <2>3. \A n \in Node : type'[n] # "PrimaryOut"
    BY <1>1
  <2>4. scan'.y = 0 /\ scan'.x = 0 /\ 0 \in 0..(layoutDimX - 1)
    BY <1>1, <1>2, <1>3
  <2> QED
    BY <1>1, <1>2, <1>8, <1>9, <2>1, <2>2, <2>3, <2>4 DEF InputsTaken
<1>11. /\ place' \in [Node' -> 0..(binCnt' - 1)] /\ DOMAIN type' = Node'
       /\ \A n \in Node' : (type'[n] = "PrimaryOut") <=> (n \in Range(primOuts'))
  BY <1>1, <1>2, <1>7, <1>8, <1>9
<1>12. scan' \in [x : Int, y : Int]
  BY <1>1, <1>2
<1> QED
  BY <1>1, <1>2, <1>8, <1>9, <1>10, <1>11, <1>12 DEF PlanInv, Vector, Planning

\* One bin of the front row
LEMMA InputsKeep ==
  ASSUME SpecTypeOK, PlanInv, ScanInputs
  PROVE  PlanInv'
<1> DEFINE c == NodesOf(scan.x, scan.y)
           w == Wanted(inputPinCnt)
<1>1. PICK t : t = Taken(primIns, c, inputPinCnt)
  OBVIOUS
<1>2. PICK enough \in BOOLEAN : enough <=> (t # <<>> /\ Len(primIns) + Len(t) >= inputPinCnt)
  <2>1. (t # <<>> /\ Len(primIns) + Len(t) >= inputPinCnt) \in BOOLEAN
    OBVIOUS
  <2> QED
    BY <2>1
<1>3. /\ stage = "inputs" /\ primIns' = primIns \o t /\ type' = Retype(t, "PrimaryIn")
      /\ enough => stage' = "outputs" /\ scan' = [x |-> layoutDimX - 1, y |-> layoutDimY - 1]
      /\ ~ enough => /\ scan' = [scan EXCEPT !.x = @ + 1]
                     /\ stage' = IF scan.x + 1 >= layoutDimX THEN "exit" ELSE stage
      /\ UNCHANGED <<instanceCnt, inputPinCnt, outputPinCnt, initCellCnt, layoutDimX, layoutDimY,
                     place, primOuts>>
  BY <1>1, <1>2 DEF ScanInputs, planParams, layout
<1>4. /\ scan.y = 0 /\ scan.x \in 0..(layoutDimX - 1) /\ Len(primIns) < w
      /\ Range(primIns) = {n \in Node : place[n] < scan.x}
      /\ primOuts = <<>> /\ \A n \in Node : type[n] # "PrimaryOut"
  BY <1>3 DEF PlanInv, InputsTaken
<1>5. /\ initCellCnt \in Nat /\ inputPinCnt \in Nat /\ outputPinCnt \in Nat
      /\ primIns \in Seq(Node) /\ IsInjective(primIns)
      /\ place \in [Node -> 0..(binCnt - 1)] /\ DOMAIN type = Node
      /\ \A n \in Range(primIns) : place[n] < layoutDimX /\ type[n] = "PrimaryIn"
  <2>1. \A n \in Range(primIns) : n \in Node
    BY <1>4
  <2> QED
    BY <1>3, <1>4, <2>1 DEF PlanInv, Vector, Planning
<1>6. layoutDimX \in Nat \ {0} /\ layoutDimY \in Nat \ {0} /\ w \in Nat
  BY <1>5 DEF SpecTypeOK, Staircase, Wanted
<1>7. \A n \in Node : place[n] \in Nat
  BY <1>5
<1>8. /\ c \in Seq(Node) /\ IsInjective(c)
      /\ Range(c) = {n \in Node : place[n] = scan.x}
  <2>1. scan.x \in Nat /\ scan.y \in Nat /\ scan.x + scan.y * layoutDimX = scan.x
    BY <1>4, <1>6
  <2> QED
    BY <1>3, <2>1, NodesAre DEF Planning
<1>9. t \in Seq(Node) /\ IsInjective(t) /\ TakenAre(t, primIns, c, inputPinCnt)
  BY <1>1, <1>4, <1>5, <1>8, TakenFromBin
<1> HIDE DEF c, w
<1>10. PICK pins : pins = primIns \o t
  OBVIOUS
<1>11. /\ pins \in Seq(Node) /\ IsInjective(pins) /\ Range(pins) = Range(primIns) \cup Range(t)
       /\ Len(pins) = Len(primIns) + Len(t)
  <2>1. Range(primIns) \cap Range(t) = {}
    <3> SUFFICES ASSUME NEW n, n \in Range(primIns), n \in Range(t) PROVE FALSE
      OBVIOUS
    <3>1. place[n] < scan.x
      BY <1>4
    <3>2. n \in Range(c)
      BY <1>9 DEF TakenAre
    <3>3. place[n] = scan.x
      BY <1>8, <3>2
    <3> QED
      BY <1>4, <1>6, <3>1, <3>3
  <2>2. IsInjective(pins)
    BY <1>5, <1>9, <1>10, <2>1, InjectiveConcat
  <2>3. Range(pins) = Range(primIns) \cup Range(t)
    BY <1>5, <1>9, <1>10, RangeOfConcat
  <2>4. pins \in Seq(Node) /\ Len(pins) = Len(primIns) + Len(t)
    BY <1>5, <1>9, <1>10, ConcatProperties
  <2> QED
    BY <2>2, <2>3, <2>4
<1>12. \A n \in Range(t) : n \in Node /\ place[n] = scan.x
  BY <1>8, <1>9 DEF TakenAre
<1>13. /\ DOMAIN type' = Node
       /\ \A n \in Node : type'[n] = IF n \in Range(t) THEN "PrimaryIn" ELSE type[n]
  BY <1>3, <1>5 DEF Retype
<1>14. \A n \in Range(pins) : n \in Node /\ place[n] < layoutDimX /\ type'[n] = "PrimaryIn"
  <2> SUFFICES ASSUME NEW n \in Range(pins)
               PROVE  n \in Node /\ place[n] < layoutDimX /\ type'[n] = "PrimaryIn"
    OBVIOUS
  <2>1. CASE n \in Range(t)
    <3>1. place[n] = scan.x /\ n \in Node
      BY <1>12, <2>1
    <3>2. scan.x < layoutDimX
      BY <1>4, <1>6
    <3> QED
      BY <1>13, <2>1, <3>1, <3>2
  <2>2. CASE n \in Range(primIns) /\ n \notin Range(t)
    <3>1. n \in Node
      BY <1>4, <2>2
    <3> QED
      BY <1>5, <1>13, <2>2, <3>1
  <2> QED
    BY <1>11, <2>1, <2>2
<1>15. \A n \in Node : type'[n] # "PrimaryOut"
  BY <1>4, <1>13
<1>16. Node' = Node /\ binCnt' = binCnt
  BY <1>3 DEF Node, binCnt
<1>17. <<>> \in Seq(Node) /\ IsInjective(<<>>) /\ Range(<<>>) = {} /\ Len(<<>>) = 0
  BY DEF IsInjective, Range
<1>18. /\ Vector(pins, Node) /\ Vector(primOuts', Node)
       /\ \A n \in Node : (type'[n] = "PrimaryOut") <=> (n \in Range(primOuts'))
  BY <1>3, <1>4, <1>11, <1>15, <1>17 DEF Vector
<1>19. CASE ~ enough
  <2>1. t = c /\ Len(pins) < w
    BY <1>2, <1>9, <1>11, <1>19 DEF TakenAre, w
  <2>2. /\ scan' = [scan EXCEPT !.x = @ + 1] /\ scan \in [x : Int, y : Int]
        /\ scan' \in [x : Int, y : Int]
    BY <1>3, <1>19 DEF PlanInv
  <2>3. Range(pins) = {n \in Node : place[n] < scan.x + 1}
    <3>1. \A n \in Node : place[n] < scan.x + 1 <=> (place[n] < scan.x \/ place[n] = scan.x)
      BY <1>4, <1>6, <1>7
    <3> QED
      BY <1>4, <1>8, <1>11, <2>1, <3>1
  <2>4. CASE scan.x + 1 >= layoutDimX
    <3>1. stage' = "exit"
      BY <1>3, <1>19, <2>4
    <3>2. scan.x + 1 = layoutDimX
      BY <1>4, <1>6, <2>4
    <3>3. FrontRow' = Range(pins)
      <4>1. \A n \in Node : place[n] < layoutDimX <=> place[n] \div layoutDimX = 0
        BY <1>6, <1>7, PlaceOfBin
      <4> QED
        BY <1>3, <1>16, <2>3, <3>2, <4>1 DEF FrontRow, BinY
    <3>4. Cardinality(FrontRow') = Len(pins)
      BY <1>11, <3>3, InjectiveCount
    <3>5. Wanted(inputPinCnt') > Cardinality(FrontRow')
      BY <1>3, <1>6, <1>11, <2>1, <3>4 DEF w
    <3> QED
      BY <1>3, <1>5, <1>10, <1>13, <1>14, <1>16, <1>18, <2>2, <3>1, <3>5 DEF PlanInv, Planning
  <2>5. CASE ~ (scan.x + 1 >= layoutDimX)
    <3>1. stage' = "inputs"
      BY <1>3, <1>19, <2>5
    <3>2. scan'.x = scan.x + 1 /\ scan'.y = 0 /\ scan.x + 1 \in 0..(layoutDimX - 1)
      BY <1>4, <1>6, <2>2, <2>5
    <3>3. InputsTaken'
      BY <1>3, <1>4, <1>10, <1>15, <1>16, <2>1, <2>3, <3>2 DEF InputsTaken, w
    <3> QED
      BY <1>3, <1>5, <1>10, <1>13, <1>14, <1>16, <1>18, <2>2, <3>1, <3>3 DEF PlanInv, Planning
  <2> QED
    BY <2>4, <2>5
<1>20. CASE enough
  <2>1. /\ Len(pins) = w /\ stage' = "outputs"
        /\ scan' = [x |-> layoutDimX - 1, y |-> layoutDimY - 1]
    BY <1>2, <1>3, <1>9, <1>11, <1>20 DEF TakenAre, w
  <2>3. scan' \in [x : Int, y : Int]
    BY <1>6, <2>1
  <2>2. OutputsTaken'
    <3>1. scan'.x = layoutDimX - 1 /\ scan'.y = layoutDimY - 1 /\ layoutDimY - 1 \in 0..(layoutDimY - 1)
      BY <1>6, <2>1
    <3>2. 0 < Wanted(outputPinCnt)
      BY <1>5 DEF Wanted
    <3>3. \A n \in Node : ~ (place[n] \div layoutDimX > layoutDimY - 1)
      <4> SUFFICES ASSUME NEW n \in Node PROVE ~ (place[n] \div layoutDimX > layoutDimY - 1)
        OBVIOUS
      <4>1. PICK p \in Nat : p = place[n]
        BY <1>7
      <4>2. PICK m \in Nat : m = layoutDimY * layoutDimX
        BY <1>6
      <4>3. m = binCnt
        BY <1>6, <4>2 DEF binCnt
      <4>4. p < layoutDimY * layoutDimX
        <5>1. p \in 0..(m - 1)
          BY <1>5, <4>1, <4>3
        <5> QED
          BY <4>2, <5>1
      <4>5. p \div layoutDimX \in Nat /\ \A y \in Nat \ {0} : p < y * layoutDimX => p \div layoutDimX < y
        BY <1>6, PlaceOfBin
      <4>6. p \div layoutDimX < layoutDimY
        BY <1>6, <4>4, <4>5
      <4> QED
        BY <1>6, <4>1, <4>5, <4>6
    <3>4. {n \in LastColumn : BinY(place[n]) > layoutDimY - 1} = {}
      BY <3>3 DEF LastColumn, BinY
    <3>5. ({n \in LastColumn : BinY(place[n]) > scan.y})' = {}
      BY <1>3, <1>16, <3>1, <3>4 DEF LastColumn, BinX, BinY
    <3> QED
      BY <1>3, <1>4, <1>17, <3>1, <3>2, <3>5 DEF OutputsTaken
  <2> QED
    BY <1>3, <1>5, <1>10, <1>13, <1>14, <1>16, <1>18, <2>1, <2>2, <2>3 DEF PlanInv, Planning, w
<1> QED
  BY <1>19, <1>20

\* One bin of the last column
LEMMA OutputsKeep ==
  ASSUME SpecTypeOK, PlanInv, ScanOutputs
  PROVE  PlanInv'
<1> DEFINE c == NodesOf(scan.x, scan.y)
           w == Wanted(outputPinCnt)
<1>1. PICK t : t = Taken(primOuts, c, outputPinCnt)
  OBVIOUS
<1>2. PICK enough \in BOOLEAN : enough <=> (t # <<>> /\ Len(primOuts) + Len(t) >= outputPinCnt)
  <2>1. (t # <<>> /\ Len(primOuts) + Len(t) >= outputPinCnt) \in BOOLEAN
    OBVIOUS
  <2> QED
    BY <2>1
<1>3. /\ stage = "outputs" /\ primOuts' = primOuts \o t /\ type' = Retype(t, "PrimaryOut")
      /\ enough => stage' = "done" /\ scan' = scan
      /\ ~ enough => /\ scan' = [scan EXCEPT !.y = @ - 1]
                     /\ stage' = IF scan.y - 1 < 0 THEN "exit" ELSE stage
      /\ UNCHANGED <<instanceCnt, inputPinCnt, outputPinCnt, initCellCnt, layoutDimX, layoutDimY,
                     place, primIns>>
  BY <1>1, <1>2 DEF ScanOutputs, planParams, layout
<1>4. /\ scan.x = layoutDimX - 1 /\ scan.y \in 0..(layoutDimY - 1) /\ Len(primOuts) < w
      /\ Range(primOuts) = {n \in LastColumn : BinY(place[n]) > scan.y}
  BY <1>3 DEF PlanInv, OutputsTaken
<1>5. /\ initCellCnt \in Nat /\ inputPinCnt \in Nat /\ outputPinCnt \in Nat
      /\ primIns \in Seq(Node) /\ IsInjective(primIns) /\ Len(primIns) = Wanted(inputPinCnt)
      /\ primOuts \in Seq(Node) /\ IsInjective(primOuts)
      /\ place \in [Node -> 0..(binCnt - 1)] /\ DOMAIN type = Node
      /\ \A n \in Node : (type[n] = "PrimaryOut") <=> (n \in Range(primOuts))
      /\ scan \in [x : Int, y : Int]
  BY <1>3 DEF PlanInv, Vector, Planning
<1>6. \A n \in Range(primIns) :
        /\ n \in Node /\ place[n] < layoutDimX
        /\ type[n] = "PrimaryIn" \/ (type[n] = "PrimaryOut" /\ place[n] = layoutDimX - 1)
  <2>1. \A n \in Range(primIns) : n \in Node
    BY <1>5 DEF Range
  <2> QED
    BY <2>1 DEF PlanInv
<1>7. layoutDimX \in Nat \ {0} /\ layoutDimY \in Nat \ {0} /\ w \in Nat
  BY <1>5 DEF SpecTypeOK, Staircase, Wanted
<1>8. ASSUME NEW n \in Node
      PROVE  /\ place[n] \in Nat /\ BinY(place[n]) \in Nat
             /\ place[n] < layoutDimX <=> BinY(place[n]) = 0
             /\ \A y \in Nat : (place[n] = (layoutDimX - 1) + y * layoutDimX) <=>
                                 (n \in LastColumn /\ BinY(place[n]) = y)
  <2>1. PICK p \in Nat : p = place[n]
    BY <1>5
  <2>2. /\ p \div layoutDimX \in Nat /\ (p < layoutDimX <=> p \div layoutDimX = 0)
        /\ \A y \in Nat : (p = (layoutDimX - 1) + y * layoutDimX) <=>
                            (p % layoutDimX = layoutDimX - 1 /\ p \div layoutDimX = y)
    BY <1>7, PlaceOfBin
  <2>3. BinY(p) = p \div layoutDimX
    BY DEF BinY
  <2>4. n \in LastColumn <=> p % layoutDimX = layoutDimX - 1
    BY <2>1 DEF LastColumn, BinX
  <2>5. BinY(place[n]) = p \div layoutDimX
    BY <2>1, <2>3
  <2>6. \A y \in Nat : (p = (layoutDimX - 1) + y * layoutDimX) <=>
                          (n \in LastColumn /\ p \div layoutDimX = y)
    BY <2>2, <2>4
  <2>7. p \div layoutDimX \in Nat /\ (p < layoutDimX <=> p \div layoutDimX = 0)
    BY <2>2
  <2> QED
    BY <2>1, <2>5, <2>6, <2>7
<1>9. /\ c \in Seq(Node) /\ IsInjective(c)
      /\ Range(c) = {n \in LastColumn : BinY(place[n]) = scan.y}
  <2>1. scan.x \in Nat /\ scan.y \in Nat
    BY <1>4, <1>7
  <2>2. /\ c \in Seq(Node) /\ IsInjective(c)
        /\ Range(c) = {n \in Node : place[n] = scan.x + scan.y * layoutDimX}
    BY <1>3, <2>1, NodesAre DEF Planning
  <2>3. LastColumn \subseteq Node
    BY DEF LastColumn
  <2> QED
    BY <1>4, <1>8, <2>1, <2>2, <2>3
<1>10. t \in Seq(Node) /\ IsInjective(t) /\ TakenAre(t, primOuts, c, outputPinCnt)
  BY <1>1, <1>4, <1>5, <1>9, TakenFromBin
<1> HIDE DEF c, w
<1>11. \A n \in Range(t) : n \in Node /\ n \in LastColumn /\ BinY(place[n]) = scan.y
  BY <1>9, <1>10 DEF TakenAre, LastColumn
<1>12. PICK pins : pins = primOuts \o t
  OBVIOUS
<1>13. /\ pins \in Seq(Node) /\ IsInjective(pins) /\ Range(pins) = Range(primOuts) \cup Range(t)
       /\ Len(pins) = Len(primOuts) + Len(t)
  <2>1. Range(primOuts) \cap Range(t) = {}
    <3> SUFFICES ASSUME NEW n, n \in Range(primOuts), n \in Range(t) PROVE FALSE
      OBVIOUS
    <3>1. BinY(place[n]) > scan.y /\ BinY(place[n]) = scan.y
      BY <1>4, <1>11
    <3> QED
      BY <1>4, <1>7, <3>1
  <2>2. IsInjective(pins)
    BY <1>5, <1>10, <1>12, <2>1, InjectiveConcat
  <2>3. Range(pins) = Range(primOuts) \cup Range(t)
    BY <1>5, <1>10, <1>12, RangeOfConcat
  <2>4. pins \in Seq(Node) /\ Len(pins) = Len(primOuts) + Len(t)
    BY <1>5, <1>10, <1>12, ConcatProperties
  <2> QED
    BY <2>2, <2>3, <2>4
<1>14. /\ DOMAIN type' = Node
       /\ \A n \in Node : type'[n] = IF n \in Range(t) THEN "PrimaryOut" ELSE type[n]
  BY <1>3, <1>5 DEF Retype
<1>15. \A n \in Node : (type'[n] = "PrimaryOut") <=> (n \in Range(pins))
  BY <1>5, <1>13, <1>14
<1>16. \A n \in Range(primIns) :
         /\ place[n] < layoutDimX
         /\ type'[n] = "PrimaryIn" \/ (type'[n] = "PrimaryOut" /\ place[n] = layoutDimX - 1)
  <2> SUFFICES ASSUME NEW n \in Range(primIns)
               PROVE  /\ place[n] < layoutDimX
                      /\ \/ type'[n] = "PrimaryIn"
                         \/ type'[n] = "PrimaryOut" /\ place[n] = layoutDimX - 1
    OBVIOUS
  <2>1. CASE n \in Range(t)
    <3>1. n \in Node /\ place[n] < layoutDimX /\ n \in LastColumn /\ place[n] \in Nat
      BY <1>6, <1>8, <1>11, <2>1
    <3>2. BinY(place[n]) = 0
      BY <1>8, <3>1
    <3>3. place[n] = (layoutDimX - 1) + 0 * layoutDimX
      BY <1>8, <3>1, <3>2
    <3>4. place[n] = layoutDimX - 1
      BY <1>7, <3>3
    <3> QED
      BY <1>14, <2>1, <3>1, <3>4
  <2>2. CASE n \notin Range(t)
    BY <1>6, <1>14, <2>2
  <2> QED
    BY <2>1, <2>2
<1>17. Node' = Node /\ binCnt' = binCnt /\ LastColumn' = LastColumn
  BY <1>3 DEF Node, binCnt, LastColumn, BinX
<1>18. /\ Vector(primIns', Node) /\ Vector(pins, Node)
       /\ Len(primIns') = Wanted(inputPinCnt')
  BY <1>3, <1>5, <1>13 DEF Vector
<1>19. scan' \in [x : Int, y : Int]
  BY <1>3, <1>5
<1>20. CASE ~ enough
  <2>1. t = c /\ Len(pins) < w
    BY <1>2, <1>10, <1>13, <1>20 DEF TakenAre, w
  <2>2. scan' = [scan EXCEPT !.y = @ - 1]
    BY <1>3, <1>20
  <2>3. Range(pins) = {n \in LastColumn : BinY(place[n]) > scan.y - 1}
    <3>1. \A n \in LastColumn : BinY(place[n]) > scan.y - 1
                             <=> (BinY(place[n]) > scan.y \/ BinY(place[n]) = scan.y)
      <4> SUFFICES ASSUME NEW n \in LastColumn
                   PROVE  BinY(place[n]) > scan.y - 1
                            <=> (BinY(place[n]) > scan.y \/ BinY(place[n]) = scan.y)
        OBVIOUS
      <4>1. BinY(place[n]) \in Nat /\ scan.y \in Nat
        BY <1>4, <1>7, <1>8 DEF LastColumn
      <4> QED
        BY <4>1
    <3> QED
      BY <1>4, <1>9, <1>13, <2>1, <3>1
  <2>4. CASE scan.y - 1 < 0
    <3>1. stage' = "exit"
      BY <1>3, <1>20, <2>4
    <3>2. scan.y = 0
      BY <1>4, <1>7, <2>4
    <3>3. LastColumn = Range(pins)
      <4>1. \A n \in LastColumn : BinY(place[n]) > scan.y - 1
        BY <1>8, <3>2 DEF LastColumn
      <4> QED
        BY <2>3, <4>1
    <3>4. Cardinality(LastColumn') = Len(pins)
      BY <1>13, <1>17, <3>3, InjectiveCount
    <3>5. Wanted(outputPinCnt') > Cardinality(LastColumn')
      BY <1>3, <1>7, <1>13, <2>1, <3>4 DEF w
    <3> QED
      BY <1>3, <1>5, <1>12, <1>14, <1>15, <1>16, <1>17, <1>18, <1>19, <3>1, <3>5 DEF PlanInv, Planning
  <2>5. CASE ~ (scan.y - 1 < 0)
    <3>1. stage' = "outputs"
      BY <1>3, <1>20, <2>5
    <3>2. scan'.x = layoutDimX - 1 /\ scan'.y = scan.y - 1 /\ scan.y - 1 \in 0..(layoutDimY - 1)
      BY <1>4, <1>5, <1>7, <2>2, <2>5
    <3>3. OutputsTaken'
      <4>1. ({n \in LastColumn : BinY(place[n]) > scan.y})' = Range(pins)
        BY <1>3, <1>17, <2>3, <3>2 DEF BinY
      <4> QED
        BY <1>3, <1>12, <2>1, <3>2, <4>1 DEF OutputsTaken, w
    <3> QED
      BY <1>3, <1>5, <1>12, <1>14, <1>15, <1>16, <1>17, <1>18, <1>19, <3>1, <3>3 DEF PlanInv, Planning
  <2> QED
    BY <2>4, <2>5
<1>21. CASE enough
  <2>1. Len(pins) = w /\ stage' = "done"
    BY <1>2, <1>3, <1>10, <1>13, <1>21 DEF TakenAre, w
  <2> QED
    BY <1>3, <1>5, <1>12, <1>14, <1>15, <1>16, <1>17, <1>18, <1>19, <2>1 DEF PlanInv, Planning, w
<1> QED
  BY <1>20, <1>21

LEMMA NextPlan == SpecTypeOK /\ CreateInv /\ PlanInv /\ [Next]_vars => PlanInv'
<1> SUFFICES ASSUME SpecTypeOK, CreateInv, PlanInv, [Next]_vars PROVE PlanInv'
  OBVIOUS
<1>1. Unplanned' => PlanInv'
  BY NothingPlanned, PTL
<1>2. ASSUME UNCHANGED planVars PROVE PlanInv'
  BY <1>2 DEF planVars, planParams, layout, PlanInv, Vector, Planning, InputsTaken, OutputsTaken,
       FrontRow, LastColumn, BinX, BinY, binCnt, Node
<1>3. CASE GrowLayout
  <2>1. stage' = "layout" /\ stage = "layout" /\ UNCHANGED <<planParams, primIns, primOuts, scan>>
    BY <1>3 DEF GrowLayout
  <2> QED
    BY <1>1, <2>1 DEF planParams, Unplanned, PlanInv
<1>4. CASE ReadSpec
  <2>1. /\ pc = "read" /\ instanceCnt' = Total(fanins) /\ initCellCnt' \in InitCellCnts(instanceCnt', 100)
        /\ inputPinCnt' = 1 /\ outputPinCnt' = 1 /\ stage' = "layout"
        /\ UNCHANGED <<primIns, primOuts, scan>>
    BY <1>4 DEF ReadSpec
  <2>2. stage = "unread" /\ kinds # <<>> /\ Total(fanins) = numInsts
    BY <2>1 DEF CreateInv, Creating, Pairs
  <2>3. PICK n \in Nat \ {0} : n = numInsts
    BY DEF SpecTypeOK
  <2>4. PICK cells : cells = initCellCnt'
    OBVIOUS
  <2>5. cells \in InitCellCnts(n, 100)
    BY <2>1, <2>2, <2>3, <2>4
  <2>6. cells \in Nat
    <3>1. 100 \in 0..100
      OBVIOUS
    <3> QED
      BY <2>5, <3>1, InitCellCntNat
  <2> QED
    BY <1>1, <2>1, <2>2, <2>4, <2>6 DEF Unplanned, PlanInv
<1>5. CASE PlaceNodes
  BY <1>5, PlaceKeeps
<1>6. CASE ScanInputs
  BY <1>6, InputsKeep
<1>7. CASE ScanOutputs
  BY <1>7, OutputsKeep
<1>8. CASE \/ GrowDims \/ BeginSearch \/ TurnSearch \/ EndSearch \/ CountValue \/ EndSampling
           \/ InitDistribution \/ UNCHANGED planVars
  BY <1>2, <1>8 DEF GrowDims, BeginSearch, TurnSearch, EndSearch, CountValue, EndSampling,
       InitDistribution
<1>9. CASE UNCHANGED vars
  BY <1>2, <1>9 DEF vars
<1> QED
  BY <1>3, <1>4, <1>5, <1>6, <1>7, <1>8, <1>9 DEF Next, Initialize, PlanNext

LEMMA NodesPlaced == PlanInv /\ SpecTypeOK => AllPlaced
BY DEF PlanInv, SpecTypeOK, AllPlaced, Planning

LEMMA PinsTaken == PlanInv => PinsDelivered
<1> SUFFICES ASSUME PlanInv PROVE PinsDelivered
  OBVIOUS
<1>1. CASE stage = "done"
  BY <1>1 DEF PlanInv, PinsDelivered, Planning, Vector
<1>2. CASE stage = "exit"
  BY <1>2 DEF PlanInv, PinsDelivered
<1> QED
  BY <1>1, <1>2 DEF PinsDelivered
-----------------------------------------------------------------------------
LEMMA InitInv == Init => IInv
BY InitType, InitCreate, InitLines, InitTarget, InitPlan DEF IInv

LEMMA NextInv == IInv /\ [Next]_vars => IInv'
<1> SUFFICES ASSUME IInv, [Next]_vars PROVE IInv'
  OBVIOUS
<1>1. SpecTypeOK'
  BY NextType DEF IInv
<1>2. CreateInv'
  BY <1>1, NextCreate DEF IInv
<1>3. LinesInv'
  BY NextLines DEF IInv
<1>4. TargetInv'
  BY NextTarget DEF IInv
<1>5. PlanInv'
  BY NextPlan DEF IInv
<1> QED
  BY <1>1, <1>2, <1>3, <1>4, <1>5 DEF IInv

LEMMA AlwaysIInv == Spec => []IInv
BY InitInv, NextInv, PTL DEF Spec

\* Whatever bounds createSpec and the reader are asked for, the sampling
\* loop of create_spec hands on every instance and every edge, and readSpec
\* takes the number of instances back from the file as it was asked for.
THEOREM AlwaysTotalsSurvive == Spec => []TotalsSurvive
<1>1. IInv => TotalsSurvive
  BY TotalsKept DEF IInv
<1> QED
  BY <1>1, AlwaysIInv, PTL

\* Distribution::init reads behind the end of its vector of ratios only for a
\* file written by hand that stops short of the largest value: never for a file
\* of create_spec, however large the layouts that both sides compute.
THEOREM AlwaysReadsInside == Spec => []ReadsInside
<1>1. IInv => ReadsInside
  BY InsideLines DEF IInv
<1> QED
  BY <1>1, AlwaysIInv, PTL

\* Rounding up, cut at what is left, shares out the total exactly: the sampling
\* vector of Distribution::init has an entry for each node or edge.
THEOREM AlwaysSamplesAddUp == Spec => []SamplesAddUp
<1>1. IInv => SamplesAddUp
  BY AllShared DEF IInv
<1> QED
  BY <1>1, AlwaysIInv, PTL

\* No target of Distribution::init is further from the exact share of its ratio
\* than the number of ratios above 0 up to it, for every file of lines in order.
THEOREM AlwaysTargetsClose == Spec => []TargetsClose
<1>1. IInv => TargetsClose
  BY CloseToShares DEF IInv
<1> QED
  BY <1>1, AlwaysIInv, PTL

\* Netlist::initialize leaves no node without a bin, for every number of
\* instances and every share of combinational cells.
THEOREM AlwaysAllPlaced == Spec => []AllPlaced
<1>1. IInv => AllPlaced
  BY NodesPlaced DEF IInv
<1> QED
  BY <1>1, AlwaysIInv, PTL

\* setPrimaryIO delivers the pins asked for, each once, in whatever layout, and
\* gives up only where the front row or the last column has too few nodes.
THEOREM AlwaysPinsDelivered == Spec => []PinsDelivered
<1>1. IInv => PinsDelivered
  BY PinsTaken DEF IInv
<1> QED
  BY <1>1, AlwaysIInv, PTL
-----------------------------------------------------------------------------
(***************************************************************************)
(* The search for lambda.  Averages rise or fall with lambda, so those too *)
(* large and those too small lie on two sides of a place of the grid, and  *)
(* the search steps towards it from either side.                           *)
(***************************************************************************)
SearchInv ==
  /\ status \in {"idle", "search", "found", "outside"}
  /\ pc = "search" <=> status # "idle"
  /\ status # "idle" =>
       /\ avgOf \in [Grid -> Int] /\ avgVal \in Int /\ lambda \in Grid
       /\ rising \in BOOLEAN /\ Monotone(avgOf, rising)

LEMMA SearchInvInit == Init => SearchInv
<1> SUFFICES ASSUME Init PROVE SearchInv
  OBVIOUS
<1>1. pc \in {"lines", "layout", "dims"}
  BY DEF Init, LinesByHand, DistInit, CountsByHand, Created
<1>2. status = "idle"
  BY DEF Init, SearchInit
<1> QED
  BY <1>1, <1>2 DEF SearchInv

\* One turn stays on the grid.
LEMMA TurnKeepsSearch == SearchInv /\ TurnSearch => SearchInv'
<1> SUFFICES ASSUME SearchInv, TurnSearch PROVE SearchInv'
  OBVIOUS
<1>1. /\ pc = "search" /\ pc' = pc /\ status = "search"
      /\ status' \in {"search", "found", "outside"} /\ lambda' \in {lambda} \cup Grid
      /\ avgOf' = avgOf /\ avgVal' = avgVal /\ rising' = rising
  BY DEF TurnSearch, Search
<1> QED
  BY <1>1 DEF SearchInv, Monotone

LEMMA SearchInvNext == SearchInv /\ [Next]_vars => SearchInv'
<1> SUFFICES ASSUME SearchInv, [Next]_vars PROVE SearchInv'
  OBVIOUS
<1>1. ASSUME UNCHANGED searchVars, pc # "search", pc' # "search" PROVE SearchInv'
  BY <1>1 DEF SearchInv, searchVars
<1>2. CASE GrowDims
  BY <1>1, <1>2 DEF GrowDims
<1>3. CASE BeginSearch
  <2>1. /\ pc' = "search" /\ status' = "search" /\ rising' = (kind = "FANIN")
        /\ avgOf' \in Averages /\ Monotone(avgOf', rising') /\ avgVal' \in Targets
        /\ lambda' = Start
    BY <1>3 DEF BeginSearch, Begin
  <2>2. avgOf' \in [Grid -> Int] /\ avgVal' \in Int /\ lambda' \in Grid
    BY <2>1, SearchAssumption
  <2>3. rising' \in BOOLEAN
    BY <2>1
  <2> QED
    BY <2>1, <2>2, <2>3 DEF SearchInv, Monotone
<1>4. CASE TurnSearch
  BY <1>4, TurnKeepsSearch
<1>5. CASE EndSearch
  BY <1>5 DEF EndSearch, End, SearchInv
<1>6. CASE CountValue
  BY <1>1, <1>6 DEF CountValue
<1>7. CASE EndSampling
  BY <1>1, <1>7 DEF EndSampling
<1>8. CASE ReadSpec
  BY <1>1, <1>8 DEF ReadSpec
<1>9. CASE Initialize
  BY <1>1, <1>9 DEF Initialize, distVars
<1>10. CASE InitDistribution
  BY <1>1, <1>10 DEF InitDistribution
<1>11. CASE DistNext /\ UNCHANGED <<createVars, planVars, searchVars>>
  BY <1>1, <1>11 DEF DistNext, ReadLine, EndLines, SetTarget, ReadBehindEnd, SetCount,
                     GetSamplingVector
<1>12. CASE UNCHANGED vars
  BY <1>12 DEF vars, searchVars, distVars, SearchInv, Monotone
<1> QED
  BY <1>2, <1>3, <1>4, <1>5, <1>6, <1>7, <1>8, <1>9, <1>10, <1>11, <1>12 DEF Next

\* While it searches, the program does nothing else.
LEMMA OnlyTurns ==
  ASSUME SearchInv, status = "search", Next
  PROVE  Search
<1>1. pc = "search"
  BY DEF SearchInv
<1> QED
  BY <1>1 DEF Next, GrowDims, BeginSearch, TurnSearch, EndSearch, End, CountValue, EndSampling,
       ReadSpec, Initialize, InitDistribution, DistNext, ReadLine, EndLines, SetTarget,
       ReadBehindEnd, SetCount, GetSamplingVector

\* Where two neighbours lie on either side, no average is close to the one asked for,
\* and all of those up to the first one are on its side.
LEMMA TwoSides ==
  ASSUME SearchInv, status # "idle", Jumps
  PROVE  \E l \in Lowest..(Highest - 1) : \A x \in Grid :
           /\ ~ Close(avgOf[x] - avgVal)
           /\ ((avgOf[x] - avgVal > 0) = rising) <=> x > l
<1>1. PICK l \in Lowest..(Highest - 1) :
        /\ ~ Close(avgOf[l] - avgVal) /\ ~ Close(avgOf[l + 1] - avgVal)
        /\ (avgOf[l] > avgVal) # (avgOf[l + 1] > avgVal)
  BY DEF Jumps
<1>2. /\ avgOf \in [Grid -> Int] /\ avgVal \in Int /\ rising \in BOOLEAN
      /\ Monotone(avgOf, rising)
  BY DEF SearchInv
<1>3. Lowest \in Int /\ Highest \in Int /\ Tol \in Nat \ {0}
  BY SearchAssumption
<1>4. l \in Grid /\ l + 1 \in Grid /\ l < l + 1 /\ l \in Int
  BY <1>3 DEF Grid
<1>5. \A x \in Grid : avgOf[x] \in Int /\ x \in Int
  BY <1>2, <1>3 DEF Grid
<1>6. \A x \in Grid : /\ Close(avgOf[x] - avgVal) <=> /\ avgOf[x] - avgVal < Tol
                                                      /\ avgVal - avgOf[x] < Tol
  BY <1>2, <1>3, <1>5 DEF Close, Abs
<1> SUFFICES ASSUME NEW x \in Grid
             PROVE  /\ ~ Close(avgOf[x] - avgVal)
                    /\ ((avgOf[x] - avgVal > 0) = rising) <=> x > l
  OBVIOUS
<1>7. x = l \/ x = l + 1 \/ x < l \/ l + 1 < x
  BY <1>4, <1>5
<1>8. /\ avgOf[l] \in Int /\ avgOf[l + 1] \in Int /\ avgOf[x] \in Int /\ x \in Int
      /\ x > l <=> x = l + 1 \/ l + 1 < x
  BY <1>4, <1>5
<1>9. CASE rising = TRUE
  <2>1. \A i, j \in Grid : i < j => avgOf[i] <= avgOf[j]
    BY <1>2, <1>9 DEF Monotone
  <2>2. avgOf[l] <= avgOf[l + 1]
    BY <1>4, <2>1
  <2>3. avgOf[l] + Tol <= avgVal /\ avgVal + Tol <= avgOf[l + 1]
    BY <1>1, <1>2, <1>3, <1>4, <1>6, <1>8, <2>2
  <2>4. IF x > l THEN avgVal + Tol <= avgOf[x] ELSE avgOf[x] + Tol <= avgVal
    <3>1. CASE x > l
      <4>1. avgOf[l + 1] <= avgOf[x]
        BY <1>4, <1>8, <2>1, <3>1
      <4> QED
        BY <1>2, <1>3, <1>8, <2>3, <3>1, <4>1
    <3>2. CASE ~ (x > l)
      <4>1. avgOf[x] <= avgOf[l]
        BY <1>4, <1>7, <1>8, <2>1, <3>2
      <4> QED
        BY <1>2, <1>3, <1>8, <2>3, <3>2, <4>1
    <3> QED
      BY <3>1, <3>2
  <2>5. avgOf[x] - avgVal > 0 <=> x > l
    BY <1>2, <1>3, <1>8, <2>4
  <2>6. ~ Close(avgOf[x] - avgVal)
    BY <1>2, <1>3, <1>6, <1>8, <2>4
  <2> QED
    BY <1>9, <2>5, <2>6
<1>10. CASE rising = FALSE
  <2>1. \A i, j \in Grid : i < j => avgOf[j] <= avgOf[i]
    BY <1>2, <1>10 DEF Monotone
  <2>2. avgOf[l + 1] <= avgOf[l]
    BY <1>4, <2>1
  <2>3. avgOf[l + 1] + Tol <= avgVal /\ avgVal + Tol <= avgOf[l]
    BY <1>1, <1>2, <1>3, <1>4, <1>6, <1>8, <2>2
  <2>4. IF x > l THEN avgOf[x] + Tol <= avgVal ELSE avgVal + Tol <= avgOf[x]
    <3>1. CASE x > l
      <4>1. avgOf[x] <= avgOf[l + 1]
        BY <1>4, <1>8, <2>1, <3>1
      <4> QED
        BY <1>2, <1>3, <1>8, <2>3, <3>1, <4>1
    <3>2. CASE ~ (x > l)
      <4>1. avgOf[l] <= avgOf[x]
        BY <1>4, <1>7, <1>8, <2>1, <3>2
      <4> QED
        BY <1>2, <1>3, <1>8, <2>3, <3>2, <4>1
    <3> QED
      BY <3>1, <3>2
  <2>5. ~ (avgOf[x] - avgVal > 0) <=> x > l
    BY <1>2, <1>3, <1>8, <2>4
  <2>6. ~ Close(avgOf[x] - avgVal)
    BY <1>2, <1>3, <1>6, <1>8, <2>4
  <2>7. ((avgOf[x] - avgVal > 0) = FALSE) <=> ~ (avgOf[x] - avgVal > 0)
    OBVIOUS
  <2>8. ((avgOf[x] - avgVal > 0) = rising) <=> ((avgOf[x] - avgVal > 0) = FALSE)
    BY <1>10
  <2> QED
    BY <2>5, <2>6, <2>7, <2>8
<1> QED
  BY <1>2, <1>9, <1>10

\* A search between two such neighbours turns round before it leaves the grid.
LEMMA TurnsRound ==
  ASSUME SearchInv, status = "search", Jumps, Search
  PROVE  status' = "search" /\ Jumps'
<1>1. PICK l \in Lowest..(Highest - 1) : \A x \in Grid :
        /\ ~ Close(avgOf[x] - avgVal)
        /\ ((avgOf[x] - avgVal > 0) = rising) <=> x > l
  BY TwoSides
<1>2. lambda \in Grid /\ Lowest \in Int /\ Highest \in Int
  BY SearchAssumption DEF SearchInv
<1>3. ~ Close(error)
  BY <1>1, <1>2 DEF error
<1>4. Step = IF lambda > l THEN -1 ELSE 1
  BY <1>1, <1>2 DEF Step, error
<1>5. lambda + Step \in Grid
  BY <1>2, <1>4 DEF Grid
<1>6. status' = "search" /\ avgOf' = avgOf /\ avgVal' = avgVal
  BY <1>3, <1>5 DEF Search
<1> QED
  BY <1>6 DEF Jumps

\* The search of makeFoissonDistribution and makeExpDistribution never comes back once
\* the average asked for lies between those of two neighbouring lambdas and neither of
\* them is close enough: for every table of averages, every start and every tolerance.
THEOREM AlwaysRunsOn == Spec => SearchRunsOn
<1> DEFINE Caught == status = "search" /\ Jumps
<1>1. SearchInv /\ Caught /\ [Next]_vars => Caught'
  <2> SUFFICES ASSUME SearchInv, status = "search", Jumps, [Next]_vars
               PROVE  status' = "search" /\ Jumps'
    OBVIOUS
  <2>1. CASE Next
    BY <2>1, OnlyTurns, TurnsRound
  <2>2. CASE UNCHANGED vars
    BY <2>2 DEF vars, searchVars, Jumps
  <2> QED
    BY <2>1, <2>2
<1>2. SearchInv /\ Caught => pc = "search"
  BY DEF SearchInv
<1>3. Spec => [](Caught => [](pc = "search"))
  <2> HIDE DEF Caught
  <2> QED
    BY <1>1, <1>2, SearchInvInit, SearchInvNext, PTL DEF Spec
<1> QED
  BY <1>3 DEF SearchRunsOn

\* Steps that are fine enough jump over nothing.
LEMMA FineMeets ==
  ASSUME SearchInv, status # "idle", Fine
  PROVE  ~ Jumps
<1> SUFFICES ASSUME NEW l \in Lowest..(Highest - 1),
                    ~ Close(avgOf[l] - avgVal), ~ Close(avgOf[l + 1] - avgVal),
                    (avgOf[l] > avgVal) # (avgOf[l + 1] > avgVal)
             PROVE  FALSE
  BY DEF Jumps
<1>1. Lowest \in Int /\ Highest \in Int /\ Tol \in Nat \ {0}
  BY SearchAssumption
<1>2. l \in Grid /\ l + 1 \in Grid
  BY <1>1 DEF Grid
<1>3. avgOf[l] \in Int /\ avgOf[l + 1] \in Int /\ avgVal \in Int
  BY <1>2 DEF SearchInv
<1>4. PICK a, b : a = avgOf[l] /\ b = avgOf[l + 1]
  OBVIOUS
<1>5. Abs(b - a) < 2 * Tol
  BY <1>4 DEF Fine
<1>6. b - a < 2 * Tol /\ a - b < 2 * Tol
  BY <1>1, <1>3, <1>4, <1>5 DEF Abs
<1>7. /\ a - avgVal >= Tol \/ avgVal - a >= Tol
      /\ b - avgVal >= Tol \/ avgVal - b >= Tol
  BY <1>1, <1>3, <1>4 DEF Close, Abs
<1>8. (a > avgVal) # (b > avgVal)
  BY <1>4
<1> QED
  BY <1>1, <1>3, <1>4, <1>6, <1>7, <1>8

\* Between averages below and above the one asked for the search never runs off.
LEMMA StaysOnGrid ==
  ASSUME SearchInv, status = "search", Reachable, ~ Close(error)
  PROVE  lambda + Step \in Grid /\ Step \in {-1, 1}
<1>1. Lowest \in Int /\ Highest \in Int /\ Tol \in Nat \ {0}
  BY SearchAssumption
<1>2. /\ avgOf \in [Grid -> Int] /\ avgVal \in Int /\ rising \in BOOLEAN
      /\ Monotone(avgOf, rising) /\ lambda \in Grid
  BY DEF SearchInv
<1>3. PICK lo \in Grid, hi \in Grid : avgOf[lo] <= avgVal /\ avgVal <= avgOf[hi]
  BY <1>2 DEF Reachable
<1>4. /\ avgOf[lambda] \in Int /\ avgOf[lo] \in Int /\ avgOf[hi] \in Int
      /\ lambda \in Int /\ lo \in Int /\ hi \in Int
  BY <1>1, <1>2, <1>3 DEF Grid
<1>5. avgOf[lambda] - avgVal # 0
  <2>1. Close(0)
    BY <1>1 DEF Close, Abs
  <2> QED
    BY <2>1 DEF error
<1>6. CASE rising = TRUE
  <2>1. \A i, j \in Grid : i < j => avgOf[i] <= avgOf[j]
    BY <1>2, <1>6 DEF Monotone
  <2>2. CASE avgOf[lambda] - avgVal > 0
    <3>1. Step = -1
      BY <1>6, <2>2 DEF Step, error
    <3>2. lo < lambda
      <4>1. avgOf[lo] < avgOf[lambda]
        BY <1>2, <1>3, <1>4, <2>2
      <4>2. lo # lambda /\ ~ (lambda < lo)
        BY <1>2, <1>3, <1>4, <2>1, <4>1
      <4> QED
        BY <1>4, <4>2
    <3> QED
      BY <1>1, <1>2, <1>3, <1>4, <3>1, <3>2 DEF Grid
  <2>3. CASE ~ (avgOf[lambda] - avgVal > 0)
    <3>1. Step = 1
      BY <1>6, <2>3 DEF Step, error
    <3>2. lambda < hi
      <4>1. avgOf[lambda] < avgOf[hi]
        BY <1>2, <1>3, <1>4, <1>5, <2>3
      <4>2. hi # lambda /\ ~ (hi < lambda)
        BY <1>2, <1>3, <1>4, <2>1, <4>1
      <4> QED
        BY <1>4, <4>2
    <3> QED
      BY <1>1, <1>2, <1>3, <1>4, <3>1, <3>2 DEF Grid
  <2> QED
    BY <2>2, <2>3
<1>7. CASE rising = FALSE
  <2>1. \A i, j \in Grid : i < j => avgOf[j] <= avgOf[i]
    BY <1>2, <1>7 DEF Monotone
  <2>2. CASE avgOf[lambda] - avgVal > 0
    <3>1. Step = 1
      BY <1>7, <2>2 DEF Step, error
    <3>2. lambda < lo
      <4>1. avgOf[lo] < avgOf[lambda]
        BY <1>2, <1>3, <1>4, <2>2
      <4>2. lo # lambda /\ ~ (lo < lambda)
        BY <1>2, <1>3, <1>4, <2>1, <4>1
      <4> QED
        BY <1>4, <4>2
    <3> QED
      BY <1>1, <1>2, <1>3, <1>4, <3>1, <3>2 DEF Grid
  <2>3. CASE ~ (avgOf[lambda] - avgVal > 0)
    <3>1. Step = -1
      <4>1. (error > 0) = FALSE
        BY <2>3 DEF error
      <4>2. (error > 0) = rising
        BY <1>7, <4>1
      <4> QED
        BY <4>2 DEF Step
    <3>2. hi < lambda
      <4>1. avgOf[lambda] < avgOf[hi]
        BY <1>2, <1>3, <1>4, <1>5, <2>3
      <4>2. hi # lambda /\ ~ (lambda < hi)
        BY <1>2, <1>3, <1>4, <2>1, <4>1
      <4> QED
        BY <1>4, <4>2
    <3> QED
      BY <1>1, <1>2, <1>3, <1>4, <3>1, <3>2 DEF Grid
  <2> QED
    BY <2>2, <2>3
<1> QED
  BY <1>2, <1>6, <1>7

\* The steps left on the grid in the direction of the search
StepsLeft == IF Step = 1 THEN Highest - lambda ELSE lambda - Lowest

\* A turn finds the parameter, or steps to where the next turn will find it, or has
\* one step less to go: it neither runs off the grid nor turns round.
Nearer ==
  status = "search" /\ Reachable /\ Fine =>
    \/ status' = "found"
    \/ status' = "search" /\ Close(error')
    \/ status' = "search" /\ StepsLeft \in Nat /\ StepsLeft' \in Nat /\ StepsLeft' < StepsLeft

\* What the first half of SearchEnds rests on: create_spec gets nearer to a parameter
\* with every turn where the average can be reached and the steps are fine enough.
THEOREM AlwaysNearer == Spec => [][Nearer]_vars
<1>1. SearchInv /\ [Next]_vars => [Nearer]_vars
  <2> SUFFICES ASSUME SearchInv, Next, status = "search", Reachable, Fine
               PROVE  \/ status' = "found"
                      \/ status' = "search" /\ Close(error')
                      \/ /\ status' = "search" /\ StepsLeft \in Nat
                         /\ StepsLeft' \in Nat /\ StepsLeft' < StepsLeft
    BY DEF Nearer
  <2>1. Search
    BY OnlyTurns
  <2>2. CASE Close(error)
    BY <2>1, <2>2 DEF Search
  <2>3. CASE ~ Close(error) /\ ~ Close(error')
    <3>1. lambda + Step \in Grid /\ Step \in {-1, 1}
      BY <2>3, StaysOnGrid
    <3>2. /\ status' = "search" /\ lambda' = lambda + Step
          /\ avgOf' = avgOf /\ avgVal' = avgVal /\ rising' = rising
      BY <2>1, <2>3, <3>1 DEF Search
    <3>3. PICK l1 : l1 = lambda'
      OBVIOUS
    <3>4. /\ Lowest \in Int /\ Highest \in Int
          /\ lambda \in Grid /\ lambda \in Int /\ l1 \in Grid /\ l1 = lambda + Step
      BY <3>1, <3>2, <3>3, SearchAssumption DEF SearchInv, Grid
    <3>5. /\ avgOf \in [Grid -> Int] /\ avgVal \in Int
      BY DEF SearchInv
    <3>6. /\ ~ Close(avgOf[lambda] - avgVal) /\ ~ Close(avgOf[l1] - avgVal)
      BY <2>3, <3>2, <3>3 DEF error
    <3>7. (avgOf[lambda] > avgVal) = (avgOf[l1] > avgVal)
      <4>1. ~ Jumps
        BY FineMeets
      <4>2. CASE Step = 1
        <5>1. lambda \in Lowest..(Highest - 1) /\ l1 = lambda + 1
          BY <3>4, <4>2 DEF Grid
        <5> QED
          BY <3>6, <4>1, <5>1 DEF Jumps
      <4>3. CASE Step = -1
        <5>1. l1 \in Lowest..(Highest - 1) /\ lambda = l1 + 1
          BY <3>4, <4>3 DEF Grid
        <5> QED
          BY <3>6, <4>1, <5>1 DEF Jumps
      <4> QED
        BY <3>1, <4>2, <4>3
    <3>8. (avgOf[lambda] - avgVal > 0) = (avgOf[l1] - avgVal > 0)
      BY <3>4, <3>5, <3>7
    <3>9. Step' = Step
      BY <3>2, <3>3, <3>8 DEF Step, error
    <3>10. /\ StepsLeft = IF Step = 1 THEN Highest - lambda ELSE lambda - Lowest
           /\ StepsLeft' = IF Step = 1 THEN Highest - l1 ELSE l1 - Lowest
      BY <3>3, <3>9 DEF StepsLeft
    <3>11. PICK s0, s1, d : s0 = StepsLeft /\ s1 = StepsLeft' /\ d = Step
      OBVIOUS
    <3>12. s0 \in Nat /\ s1 \in Nat /\ s1 < s0
      BY <3>1, <3>4, <3>10, <3>11 DEF Grid
    <3> QED
      BY <3>2, <3>11, <3>12
  <2>4. CASE ~ Close(error) /\ Close(error')
    <3>1. lambda + Step \in Grid
      BY <2>4, StaysOnGrid
    <3> QED
      BY <2>1, <2>4, <3>1 DEF Search
  <2> QED
    BY <2>2, <2>3, <2>4
<1> QED
  BY <1>1, SearchInvInit, SearchInvNext, PTL DEF Spec
=============================================================================
