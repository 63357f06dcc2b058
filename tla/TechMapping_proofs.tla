------------------------- MODULE TechMapping_proofs --------------------------
(***************************************************************************)
(* Proofs about TechMapping, for every graph, library and set of shares.   *)
(*                                                                         *)
(* The inductive invariant IInv follows the loops: while masters are       *)
(* assigned, those given are of the kind of their nodes (Assigned); both   *)
(* ends of a connection know each other (Connected); what a handled node   *)
(* has for its neighbours is what it needs (TermsRight); the nets made are *)
(* those of the used output terms met so far, each under a name of its own *)
(* (NetsRight); the pins written have the nets that name them (PinsRight). *)
(***************************************************************************)
EXTENDS TechMapping, Common_proofs

\* The nodes: clock and reset are behind the others.
LEMMA NodeFacts ==
  /\ Cnt \in Nat
  /\ clkIn \in Node /\ rstIn \in Node /\ clkIn # rstIn /\ clkIn > Cnt /\ rstIn > Cnt
  /\ Gates \subseteq 1..Cnt /\ 1..Cnt \subseteq Node /\ Node \subseteq Nat
  /\ \A n \in Node : n \in 1..Cnt \/ n = clkIn \/ n = rstIn
  /\ IsFiniteSet(Gates) /\ IsFiniteSet(MasterSet)
<1>1. Cnt \in Nat
  BY NodeAssumption
<1>2. Gates \subseteq 1..Cnt
  BY DEF Gates
<1>3. IsFiniteSet(1..Cnt)
  BY <1>1, FS_Interval
<1>4. IsFiniteSet(Gates)
  BY <1>2, <1>3, FS_Subset
<1>5. IsFiniteSet(MasterSet)
  <2>1. Masters \in [1..Len(Masters) -> MasterSet] /\ Len(Masters) \in Nat
    BY MasterAssumption
  <2>2. IsFiniteSet(1..Len(Masters))
    BY <2>1, FS_Interval
  <2>3. Masters \in Surjection(1..Len(Masters), MasterSet)
    BY <2>1 DEF Surjection, MasterSet, Range
  <2> QED
    BY <2>2, <2>3, FS_Surjection
<1> QED
  BY <1>1, <1>2, <1>4, <1>5 DEF Node, clkIn, rstIn

\* The remainder of a vector's index stays inside the vector.
LEMMA Remainder ==
  ASSUME NEW a \in Nat, NEW len \in Nat \ {0}
  PROVE  /\ a % len \in Nat
         /\ (a % len) + 1 \in 1..len
         /\ (a + 1) % len \in Nat
<1>1. a % len \in 0..(len - 1) /\ (a + 1) % len \in 0..(len - 1)
  OBVIOUS
<1> QED
  BY <1>1

\* The masters of a kind are all those of that kind, and no other.
LEMMA MastersOfKind ==
  ASSUME NEW kind
  PROVE  /\ MastersOf(kind) \in Seq(MasterSet)
         /\ Range(MastersOf(kind)) = {m \in MasterSet : <<Ins[m], HasClk(m)>> = kind}
         /\ IsFiniteSet(Range(MastersOf(kind)))
<1> DEFINE S == {i \in DOMAIN Masters : <<Ins[Masters[i]], HasClk(Masters[i])>> = kind}
           at == Ascending(S)
           list == MastersOf(kind)
<1>1. Masters \in [1..Len(Masters) -> MasterSet] /\ Len(Masters) \in Nat
  BY MasterAssumption
<1>2. S \in SUBSET Nat /\ IsFiniteSet(S) /\ S \subseteq DOMAIN Masters
  <2>1. IsFiniteSet(1..Len(Masters)) /\ S \in SUBSET (1..Len(Masters))
    BY <1>1, FS_Interval
  <2> QED
    BY <1>1, <2>1, FS_Subset
<1>3. at \in Seq(S) /\ Range(at) = S
  <2> HIDE DEF S
  <2> QED
    BY <1>2, AscendingLists
<1>4. list = [k \in DOMAIN at |-> Masters[at[k]]]
  BY DEF MastersOf
<1> HIDE DEF at, list
<1>5. /\ at \in [1..Len(at) -> S] /\ Len(at) \in Nat
      /\ \A k \in 1..Len(at) : at[k] \in DOMAIN Masters
  <2> HIDE DEF S, at
  <2>1. at \in [1..Len(at) -> S] /\ Len(at) \in Nat
    BY <1>3
  <2> QED
    BY <1>2, <2>1
<1>6. list \in [1..Len(at) -> MasterSet]
  <2> HIDE DEF S
  <2> QED
    BY <1>1, <1>4, <1>5
<1>7. list \in Seq(MasterSet)
  BY <1>5, <1>6
<1>8. \A m \in Range(list) : m \in MasterSet /\ <<Ins[m], HasClk(m)>> = kind
  BY <1>4, <1>5, <1>6 DEF Range
<1>9. ASSUME NEW m \in MasterSet, <<Ins[m], HasClk(m)>> = kind PROVE m \in Range(list)
  <2>1. PICK i \in DOMAIN Masters : Masters[i] = m
    BY DEF MasterSet, Range
  <2>2. i \in S
    BY <1>9, <2>1
  <2>3. PICK k \in DOMAIN at : at[k] = i
    <3> HIDE DEF S
    <3> QED
      BY <1>3, <2>2 DEF Range
  <2>4. k \in DOMAIN list /\ list[k] = m
    BY <1>4, <2>1, <2>3
  <2> QED
    BY <2>4 DEF Range
<1>10. IsFiniteSet(Range(list))
  <2>1. Range(list) \in SUBSET MasterSet
    BY <1>8
  <2> QED
    BY <2>1, NodeFacts, FS_Subset
<1> QED
  BY <1>7, <1>8, <1>9, <1>10 DEF list

\* The order of the loops is total: one waiting node comes first.
LEMMA NextNodeWaits ==
  ASSUME \A n \in Gates : Len(sources[n]) \in Nat, Waiting # {}
  PROVE  NextNode \in Waiting
<1> DEFINE fans == {Len(sources[n]) : n \in Waiting}
<1>1. Waiting \subseteq Gates
  BY DEF Waiting
<1>2. PICK f \in fans : \A g \in fans : f <= g
  <2>1. fans \in SUBSET Nat /\ fans # {}
    BY <1>1
  <2> HIDE DEF fans
  <2> QED
    BY <2>1, NatLeast
<1> DEFINE first == {n \in Waiting : Len(sources[n]) = f}
           regs == {n \in first : Type[n] = Sequential}
           best == IF regs # {} THEN regs ELSE first
<1>3. first # {} /\ best # {} /\ best \subseteq Waiting /\ best \subseteq Nat
  BY <1>1, NodeFacts
<1>4. PICK n \in best : \A m \in best : n <= m
  <2> HIDE DEF best
  <2> QED
    BY <1>3, NatLeast
<1>5. ASSUME NEW m \in Waiting \ {n} PROVE Before(n, m)
  <2>1. /\ Kind(n)[1] = f /\ Kind(m)[1] = Len(sources[m]) /\ f <= Len(sources[m])
        /\ Kind(n)[2] = (Type[n] = Sequential) /\ Kind(m)[2] = (Type[m] = Sequential)
    BY <1>2, <1>4 DEF Kind
  <2>2. f \in Nat /\ Len(sources[m]) \in Nat /\ n \in Nat /\ m \in Nat /\ m # n
    BY <1>1, <1>2, <1>3, NodeFacts
  <2>3. CASE f < Len(sources[m])
    BY <2>1, <2>3 DEF Before
  <2>4. CASE m \in best
    <3>1. Kind(n) = Kind(m)
      BY <1>4, <2>4 DEF Kind
    <3>2. n < m
      BY <1>4, <2>2, <2>4
    <3> QED
      BY <3>1, <3>2 DEF Before
  <2>5. CASE f = Len(sources[m]) /\ m \notin best
    <3>1. Type[n] = Sequential /\ Type[m] # Sequential
      BY <1>4, <2>5
    <3> QED
      BY <2>1, <2>5, <3>1 DEF Before
  <2> QED
    BY <2>1, <2>2, <2>3, <2>4, <2>5
<1>6. \E k \in Waiting : \A m \in Waiting \ {k} : Before(k, m)
  <2> HIDE DEF best
  <2> QED
    BY <1>3, <1>4, <1>5
<1> QED
  BY <1>6 DEF NextNode
-----------------------------------------------------------------------------
Pcs == {"assign", "terms", "nets", "write", "done", "crash", "exit"}

TypeOK ==
  /\ sources \in [Node -> Seq(Node)] /\ sinks \in [Node -> Seq(1..Cnt)]
  /\ master \in [Gates -> MasterSet \cup {NoMaster}]
  /\ turn \in [Kinds -> Nat]
  /\ DOMAIN term = Node
  /\ netCnt \in Nat
  /\ pos \in 1..(Cnt + 3)
  /\ pc \in Pcs

\* The nodes whose terms are handed out
Handled ==
  IF pc \in {"assign", "crash"} THEN {}
  ELSE IF pc \in {"terms", "exit"} THEN 1..(pos - 1) ELSE Node

\* While masters are assigned, a node has a master of its kind.
Assigned ==
  /\ pc \in {"assign", "crash"} =>
       \A n \in Gates : /\ Kind(n) \in Kinds
                        /\ master[n] # NoMaster => master[n] \in Range(MastersOf(Kind(n)))
  /\ IF pc \in {"assign", "crash"} THEN pos = 1 ELSE Waiting = {}

\* Both ends of a connection know each other; clock and reset only those handled.
Connected ==
  /\ \A n \in Node \ Handled : IsInjective(sources[n])
  /\ \A m, n \in Node : m \in Range(sources[n]) <=> n \in Range(sinks[m])
  /\ \A n \in Node : Range(sources[n]) \cap {clkIn, rstIn} =
                       IF n \in Handled THEN Range(Controls(n)) ELSE {}

\* What a node that was handled has for its neighbours
HandedRight(n) ==
  /\ DOMAIN term[n] = Range(sources[n]) \cup Range(sinks[n])
  /\ \A m \in Range(sinks[n]) : term[n][m] \in Range(OutTerms(n))
  /\ \A m \in Range(sources[n]) :
       IF m = clkIn THEN term[n][m] = Clock(Clks[master[n]])
       ELSE IF m = rstIn THEN term[n][m] = Reset(Rsts[master[n]])
       ELSE m \in Range(sinks[n]) \/ term[n][m] \in Range(InTerms(n))
  /\ \A l, m \in (Range(sources[n]) \cap (1..Cnt)) \ Range(sinks[n]) : term[n][l] = term[n][m] => l = m
  /\ \A t \in Range(InTerms(n)) :
       \E m \in Range(sources[n]) : m \in 1..Cnt /\ (m \notin Range(sinks[n]) => term[n][m] = t)
  /\ IsInput(n) => Range(sources[n]) = {}
  /\ IsOutput(n) => Range(sinks[n]) = {} /\ \A l, m \in Range(sources[n]) : l = m

TermsRight == \A n \in Handled : HandedRight(n)

\* A used output term <<node, term>> whose net was made
IsMade(d) ==
  /\ d = <<d[1], d[2]>> /\ d[1] \in Node /\ d[2] \in UsedTerms(d[1])
  /\ \/ pc \in {"write", "done"}
     \/ pc = "nets" /\ (d[1] < pos \/ (d[1] = pos /\ d[2] \notin outTerms))

LoadsOf(d) == {<<m, term[m][d[1]]>> : m \in {m \in Range(sinks[d[1]]) : term[d[1]][m] = d[2]}}

Named(name, d) ==
  IF IsInput(d[1]) THEN name = Port(d[1])
  ELSE \/ \E o \in Range(sinks[d[1]]) : IsOutput(o) /\ term[d[1]][o] = d[2] /\ name = Port(o)
       \/ \E k \in 0..(netCnt - 1) : name = <<"net", k>>

NetsRight ==
  /\ pc \in {"nets", "write", "done"} => 
       /\ \A name \in DOMAIN nets : \E d :
            nets[name] = [driver |-> d, loads |-> LoadsOf(d)] /\ IsMade(d) /\ Named(name, d)
       /\ \A a, b \in DOMAIN nets : nets[a].driver = nets[b].driver => a = b
       /\ \A n \in Node : \A t \in UsedTerms(n) :
            IsMade(<<n, t>>) => \E name \in DOMAIN nets : nets[name].driver = <<n, t>>
  /\ pc = "nets" => pos \in Node /\ outTerms \subseteq UsedTerms(pos)
  /\ pc \notin {"nets", "write", "done"} => nets = <<>> /\ netCnt = 0

PinsRight ==
  pc = "done" =>
    \A n \in Gates :
      /\ \A p \in pins[n] : /\ p[1] \in Range(term[n])
                            /\ \A name \in DOMAIN nets : Holders(n, p[1]) = {name} => p[2] = name
      /\ \A t \in Range(term[n]) : \E p \in pins[n] : p[1] = t

IInv == TypeOK /\ Assigned /\ Connected /\ TermsRight /\ NetsRight /\ PinsRight
-----------------------------------------------------------------------------
\* The shares of a kind, rounded up, are at least its nodes, and the node that
\* waits has none of them: some master has fewer nodes than its share.
LEMMA RoomWhileAssigning ==
  ASSUME TypeOK, Assigned
  PROVE  RoomLeft
<1> SUFFICES ASSUME pc = "assign", Waiting # {},
                    Range(MastersOf(Kind(NextNode))) # {}
             PROVE  \E m \in Range(MastersOf(Kind(NextNode))) : HasRoom(Kind(NextNode), m)
  BY DEF RoomLeft
<1> DEFINE kind == Kind(NextNode)
           S == Range(MastersOf(kind))
           N == Cardinality(NodesOf(kind))
           used == [m \in S |-> Used(m)]
           target == [m \in S |-> Target(kind, m)]
           share == [m \in S |-> Share[m]]
<1>1. /\ IsFiniteSet(S) /\ S # {}
      /\ S = {m \in MasterSet : <<Ins[m], HasClk(m)>> = kind}
  BY MastersOfKind
<1>2. NextNode \in Waiting
  <2>1. \A n \in Gates : Len(sources[n]) \in Nat
    BY NodeFacts DEF TypeOK
  <2> QED
    BY <2>1, NextNodeWaits
<1>3. IsFiniteSet(NodesOf(kind)) /\ N \in Nat
  <2>1. NodesOf(kind) \in SUBSET Gates
    BY DEF NodesOf
  <2> QED
    BY <2>1, NodeFacts, FS_Subset, FS_CardinalityType
<1> HIDE DEF kind
<1>4. \A m \in S : Share[m] \in Nat \ {0}
  BY <1>1, MasterAssumption
<1>5. SumFunctionOnSet(share, S) = SumFunctionOnSet(Share, S)
  <2>1. \A m \in S : share[m] \in Int /\ share[m] = Share[m]
    BY <1>4
  <2> HIDE DEF S, share
  <2> QED
    BY <1>1, <2>1, SumSame
<1>6. \A m \in S : target[m] = CeilDiv(Share[m] * N, SumFunctionOnSet(Share, S))
  BY DEF Target
<1>7. /\ \A m \in S : target[m] \in Nat
      /\ SumFunctionOnSet(target, S) \in Nat
      /\ N <= SumFunctionOnSet(target, S)
  <2> HIDE DEF target, S, N
  <2> QED
    BY <1>1, <1>3, <1>4, <1>6, SharesSuffice
<1>8. SumFunctionOnSet(used, S) = Cardinality(Having(Gates, master, S))
  <2>1. \A m \in S : used[m] = Cardinality(Having(Gates, master, {m}))
    <3>1. \A m : {n \in Gates : master[n] = m} = Having(Gates, master, {m})
      BY DEF Having
    <3> QED
      BY <3>1 DEF Used
  <2>2. IsFiniteSet(S) /\ IsFiniteSet(Gates)
    BY <1>1, NodeFacts
  <2> HIDE DEF used, S
  <2> QED
    BY <2>1, <2>2, SumOfCounts
<1>9. Cardinality(Having(Gates, master, S)) < N
  <2> DEFINE with == {n \in Gates : master[n] \in S}
  <2>1. NextNode \in NodesOf(kind) /\ NextNode \notin with
    BY <1>1, <1>2, MasterAssumption DEF NodesOf, Waiting, kind
  <2>2. with \in SUBSET NodesOf(kind)
    <3> SUFFICES ASSUME NEW n \in Gates, master[n] \in S PROVE Kind(n) = kind
      BY DEF NodesOf
    <3>1. master[n] # NoMaster
      BY <1>1, MasterAssumption
    <3>2. master[n] \in Range(MastersOf(Kind(n)))
      BY <3>1 DEF Assigned
    <3>3. <<Ins[master[n]], HasClk(master[n])>> = Kind(n)
      BY <3>2, MastersOfKind
    <3> QED
      BY <1>1, <3>3
  <2> HIDE DEF with
  <2>3. IsFiniteSet(with) /\ Cardinality(with) <= N /\ with # NodesOf(kind)
    BY <1>3, <2>1, <2>2, FS_Subset
  <2>4. Cardinality(with) # N /\ Cardinality(with) \in Nat
    BY <1>3, <2>2, <2>3, FS_Subset, FS_CardinalityType
  <2> QED
    BY <1>3, <2>3, <2>4 DEF with, Having
<1> SUFFICES ASSUME \A m \in S : ~ HasRoom(kind, m) PROVE FALSE
  BY DEF kind
<1>10. \A m \in S : used[m] \in Int /\ target[m] \in Int /\ target[m] <= used[m]
  <2> SUFFICES ASSUME NEW m \in S
               PROVE  used[m] \in Int /\ target[m] \in Int /\ target[m] <= used[m]
    OBVIOUS
  <2>1. IsFiniteSet({n \in Gates : master[n] = m})
    BY NodeFacts, FS_Subset
  <2>2. used[m] \in Nat
    BY <2>1, FS_CardinalityType DEF Used
  <2>3. target[m] \in Nat
    BY <1>7
  <2>4. ~ (used[m] < target[m])
    BY DEF HasRoom
  <2> HIDE DEF used, target
  <2> QED
    BY <2>2, <2>3, <2>4
<1>11. SumFunctionOnSet(target, S) <= SumFunctionOnSet(used, S)
  <2> HIDE DEF used, target, S
  <2> QED
    BY <1>1, <1>10, SumAtMost
<1>12. Cardinality(Having(Gates, master, S)) \in Nat
  <2>1. IsFiniteSet(Having(Gates, master, S))
    BY NodeFacts, FS_Subset DEF Having
  <2> QED
    BY <2>1, FS_CardinalityType
<1> HIDE DEF used, target, S, N
<1> QED
  BY <1>3, <1>7, <1>8, <1>9, <1>11, <1>12
-----------------------------------------------------------------------------
\* The connections that mapping starts from are known at both ends.
LEMMA InitInv == Init => IInv
<1> SUFFICES ASSUME Init PROVE IInv
  OBVIOUS
<1>1. PICK edges \in Netlists :
        /\ sources = [n \in Node |-> Ascending({m \in 1..Cnt : <<m, n>> \in edges})]
        /\ sinks = [n \in Node |-> Ascending({m \in 1..Cnt : <<n, m>> \in edges})]
  BY DEF Init
<1> DEFINE In(n) == {m \in 1..Cnt : <<m, n>> \in edges}
           Out(n) == {m \in 1..Cnt : <<n, m>> \in edges}
<1>2. ASSUME NEW S \in SUBSET (1..Cnt)
      PROVE  /\ Ascending(S) \in Seq(1..Cnt) /\ IsInjective(Ascending(S))
             /\ Range(Ascending(S)) = S
             /\ Len(Ascending(S)) \in 0..Cnt
  <2>1. S \in SUBSET Nat /\ IsFiniteSet(1..Cnt) /\ Cardinality(1..Cnt) = Cnt
    BY NodeFacts, FS_Interval
  <2>2. IsFiniteSet(S) /\ Cardinality(S) <= Cnt /\ Cardinality(S) \in Nat
    BY <2>1, FS_Subset, FS_CardinalityType
  <2>3. /\ Ascending(S) \in Seq(S) /\ IsInjective(Ascending(S))
        /\ Range(Ascending(S)) = S
        /\ Len(Ascending(S)) = Cardinality(S)
    BY <2>1, <2>2, AscendingLists
  <2>4. Ascending(S) \in Seq(1..Cnt)
    BY <2>3, VectorOfMore
  <2> QED
    BY <2>2, <2>3, <2>4, NodeFacts
<1>3. \A n \in Node : sources[n] = Ascending(In(n)) /\ sinks[n] = Ascending(Out(n))
  BY <1>1
<1>4. \A n : In(n) \in SUBSET (1..Cnt) /\ Out(n) \in SUBSET (1..Cnt)
  OBVIOUS
<1>5. \A n \in Node :
        /\ sources[n] \in Seq(1..Cnt) /\ sinks[n] \in Seq(1..Cnt)
        /\ IsInjective(sources[n]) /\ IsInjective(sinks[n])
        /\ Range(sources[n]) = In(n) /\ Range(sinks[n]) = Out(n)
        /\ Len(sources[n]) \in 0..Cnt
  <2> HIDE DEF In, Out
  <2> QED
    BY <1>2, <1>3, <1>4
<1>6. edges \subseteq (1..Cnt) \X (1..Cnt)
  BY NodeAssumption
<1>7. TypeOK
  <2>1. DOMAIN sources = Node /\ DOMAIN sinks = Node /\ sources = [n \in Node |-> sources[n]]
        /\ sinks = [n \in Node |-> sinks[n]]
    BY <1>1
  <2>2. \A n \in Node : sources[n] \in Seq(Node)
    BY <1>5, NodeFacts
  <2>3. sources \in [Node -> Seq(Node)] /\ sinks \in [Node -> Seq(1..Cnt)]
    BY <1>5, <2>1, <2>2
  <2>4. /\ master = [n \in Gates |-> NoMaster] /\ turn = [kind \in Kinds |-> 0]
        /\ term = [n \in Node |-> <<>>] /\ netCnt = 0 /\ pos = 1 /\ pc = "assign"
    BY DEF Init
  <2>5. 1 \in 1..(Cnt + 3)
    BY NodeFacts
  <2> QED
    BY <2>3, <2>4, <2>5 DEF TypeOK, Pcs
<1>8. Assigned
  BY <1>5, NodeFacts DEF Assigned, Init, Kind, Kinds
<1>9. Connected
  <2>1. \A m, n \in Node : m \in Range(sources[n]) <=> n \in Range(sinks[m])
    <3> SUFFICES ASSUME NEW m \in Node, NEW n \in Node
                 PROVE  m \in In(n) <=> n \in Out(m)
      <4> HIDE DEF In, Out
      <4> QED
        BY <1>5
    <3> QED
      BY <1>6
  <2>2. \A n \in Node : Range(sources[n]) \cap {clkIn, rstIn} = {}
    <3>1. clkIn \notin 1..Cnt /\ rstIn \notin 1..Cnt
      BY NodeFacts
    <3> HIDE DEF In, Out
    <3> QED
      BY <1>4, <1>5, <3>1
  <2>3. Handled = {}
    BY DEF Handled, Init
  <2> QED
    BY <1>5, <2>1, <2>2, <2>3 DEF Connected
<1>10. TermsRight
  BY DEF TermsRight, Handled, Init
<1>11. NetsRight /\ PinsRight
  BY DEF NetsRight, PinsRight, Init
<1> QED
  BY <1>7, <1>8, <1>9, <1>10, <1>11 DEF IInv

\* The nodes that were handled stay as they are.
LEMMA Kept ==
  ASSUME NEW n \in Node, HandedRight(n), master' = master,
         sources'[n] = sources[n], sinks'[n] = sinks[n], term'[n] = term[n]
  PROVE  HandedRight(n)'
<1>1. InTerms(n)' = InTerms(n) /\ OutTerms(n)' = OutTerms(n)
  BY DEF InTerms, OutTerms
<1> QED
  BY <1>1 DEF HandedRight, IsInput, IsOutput

\* Handled nodes are nodes.
LEMMA HandledNodes ==
  ASSUME TypeOK
  PROVE  Handled \subseteq Node
BY NodeFacts DEF TypeOK, Handled, Node

\* A step that hands out no terms
LEMMA GraphKept ==
  ASSUME TypeOK, Connected, TermsRight, UNCHANGED <<graph, term>>, Handled' = Handled,
         Handled # {} => master' = master
  PROVE  Connected' /\ TermsRight'
<1>1. Connected'
  <2>1. \A n \in Handled : Controls(n)' = Controls(n)
    BY DEF Controls
  <2> QED
    BY <2>1 DEF Connected, graph
<1>2. TermsRight'
  <2> SUFFICES ASSUME NEW n \in Handled PROVE HandedRight(n)'
    BY DEF TermsRight
  <2>1. n \in Node /\ HandedRight(n)
    BY HandledNodes DEF TermsRight
  <2> QED
    BY <2>1, Kept DEF graph
<1> QED
  BY <1>1, <1>2

\* The master found is of the node's kind.
LEMMA AssignMasterInv ==
  ASSUME IInv, AssignMaster
  PROVE  IInv'
<1> DEFINE n == NextNode
           list == MastersOf(Kind(n))
           At(k) == list[((turn[Kind(n)] + k) % Len(list)) + 1]
<1>1. /\ pc = "assign" /\ Waiting # {}
      /\ UNCHANGED <<graph, term, naming, pos, pins>>
  BY DEF AssignMaster
<1>2. n \in Waiting /\ n \in Gates /\ Kind(n) \in Kinds
  <2>1. \A i \in Gates : Len(sources[i]) \in Nat
    BY NodeFacts DEF IInv, TypeOK
  <2>2. n \in Waiting
    BY <1>1, <2>1, NextNodeWaits
  <2> QED
    BY <1>1, <2>2 DEF Waiting, IInv, Assigned
<1>3. pc' \in {"assign", "crash"}
  BY <1>1 DEF AssignMaster
<1>4. /\ master' \in [Gates -> MasterSet \cup {NoMaster}]
      /\ turn' \in [Kinds -> Nat]
      /\ \A i \in Gates : master'[i] = master[i] \/ master'[i] \in Range(MastersOf(Kind(i)))
  <2>1. CASE UNCHANGED <<master, turn>>
    BY <2>1 DEF IInv, TypeOK
  <2>2. CASE list # <<>> /\ ~ UNCHANGED <<master, turn>>
    <3>1. PICK k \in 0..(Len(list) - 1) :
            /\ master' = [master EXCEPT ![n] = At(k)]
            /\ turn' = [turn EXCEPT ![Kind(n)] = Advance(@, k, Len(list))]
      BY <2>2 DEF AssignMaster
    <3>2. /\ list \in Seq(MasterSet) /\ Len(list) \in Nat \ {0}
          /\ Range(list) \subseteq MasterSet
      <4>1. list \in Seq(MasterSet)
        BY MastersOfKind
      <4> HIDE DEF list
      <4> QED
        BY <2>2, <4>1 DEF Range
    <3> DEFINE i == ((turn[Kind(n)] + k) % Len(list)) + 1
    <3>3. turn[Kind(n)] \in Nat
      BY <1>2 DEF IInv, TypeOK
    <3> HIDE DEF list
    <3>4. i \in 1..Len(list) /\ Advance(turn[Kind(n)], k, Len(list)) \in Nat
      <4> DEFINE a == turn[Kind(n)] + k
                 len == Len(list)
      <4>1. /\ a \in Nat /\ a + 1 \in Nat /\ len \in Nat \ {0}
            /\ Advance(turn[Kind(n)], k, len) = (turn[Kind(n)] + k + 1) % len
        BY <3>2, <3>3 DEF Advance
      <4>2. turn[Kind(n)] + k + 1 = a + 1
        BY <3>3
      <4> HIDE DEF a, len
      <4>3. (a % len) + 1 \in 1..len /\ (a + 1) % len \in Nat
        BY <4>1, Remainder
      <4> QED
        BY <4>1, <4>2, <4>3 DEF a, len
    <3>5. At(k) \in Range(list) /\ At(k) \in MasterSet
      <4>1. At(k) = list[i]
        OBVIOUS
      <4> HIDE DEF i
      <4> QED
        BY <3>2, <3>4, <4>1 DEF Range
    <3> HIDE DEF At, n
    <3>6. turn' \in [Kinds -> Nat]
      BY <1>2, <3>1, <3>4 DEF IInv, TypeOK
    <3>7. master' \in [Gates -> MasterSet \cup {NoMaster}]
      BY <1>2, <3>1, <3>5 DEF IInv, TypeOK
    <3>8. \A j \in Gates : master'[j] = IF j = n THEN At(k) ELSE master[j]
      BY <3>1 DEF IInv, TypeOK
    <3> QED
      BY <3>5, <3>6, <3>7, <3>8 DEF list
  <2> QED
    BY <2>1, <2>2 DEF AssignMaster
<1>5. \A i : Kind(i)' = Kind(i)
  BY <1>1 DEF Kind, graph
<1>6. TypeOK'
  BY <1>1, <1>3, <1>4 DEF IInv, TypeOK, graph, naming, Pcs
<1>7. Assigned'
  <2> SUFFICES ASSUME NEW i \in Gates
               PROVE  /\ Kind(i) \in Kinds
                      /\ master'[i] # NoMaster => master'[i] \in Range(MastersOf(Kind(i)))
    BY <1>1, <1>3, <1>5 DEF Assigned, IInv
  <2> QED
    BY <1>1, <1>4 DEF IInv, Assigned
<1>8. Connected' /\ TermsRight'
  <2>1. Handled = {} /\ Handled' = {}
    BY <1>1, <1>3 DEF Handled
  <2> QED
    BY <1>1, <2>1, GraphKept DEF IInv
<1>9. NetsRight' /\ PinsRight'
  BY <1>1, <1>3 DEF NetsRight, PinsRight, IInv, naming
<1> QED
  BY <1>6, <1>7, <1>8, <1>9 DEF IInv

\* The loop over the nodes starts when all have a master.
LEMMA StartTermsInv ==
  ASSUME IInv, StartTerms
  PROVE  IInv'
<1>1. /\ pc = "assign" /\ Waiting = {} /\ pc' = "terms" /\ pos = 1
      /\ UNCHANGED <<graph, master, turn, term, naming, pos, pins>>
  BY DEF StartTerms, IInv, Assigned
<1>2. TypeOK'
  BY <1>1 DEF IInv, TypeOK, graph, naming, Pcs
<1>3. Assigned'
  BY <1>1 DEF Assigned, Waiting
<1>4. Connected' /\ TermsRight'
  <2>1. Handled = {} /\ Handled' = {}
    BY <1>1 DEF Handled
  <2> QED
    BY <1>1, <2>1, GraphKept DEF IInv
<1>5. NetsRight' /\ PinsRight'
  BY <1>1 DEF NetsRight, PinsRight, IInv, naming
<1> QED
  BY <1>2, <1>3, <1>4, <1>5 DEF IInv
-----------------------------------------------------------------------------
\* Terms of a node, once every gate has a master
LEMMA TermsOfNode ==
  ASSUME TypeOK, Waiting = {}, NEW n \in Node
  PROVE  /\ Len(InTerms(n)) \in Nat /\ DOMAIN InTerms(n) = 1..Len(InTerms(n))
         /\ IsInjective(InTerms(n))
         /\ Len(OutTerms(n)) \in Nat /\ DOMAIN OutTerms(n) = 1..Len(OutTerms(n))
         /\ OutTerms(n) # <<>> => Len(OutTerms(n)) > 0
         /\ IsInput(n) => Len(InTerms(n)) = 0
         /\ IsOutput(n) => Len(InTerms(n)) = 1 /\ OutTerms(n) = <<>>
<1>1. CASE n \in Gates
  <2>1. master[n] \in MasterSet
    BY <1>1 DEF TypeOK, Waiting
  <2>2. Ins[master[n]] \in Nat /\ Outs[master[n]] \in Nat
    BY <2>1, MasterAssumption
  <2> DEFINE k == Ins[master[n]]
             o == Outs[master[n]]
  <2>3. InTerms(n) = [i \in 1..k |-> Input(i)] /\ OutTerms(n) = [i \in 1..o |-> Output(i)]
    BY <1>1 DEF InTerms, OutTerms
  <2>4. ~ IsInput(n) /\ ~ IsOutput(n)
    BY <1>1, NodeFacts DEF IsInput, IsOutput, Gates, Sequential
  <2> HIDE DEF k, o
  <2>5. Len(InTerms(n)) = k /\ Len(OutTerms(n)) = o
    BY <2>2, <2>3 DEF k, o
  <2>6. IsInjective(InTerms(n))
    BY <2>3 DEF IsInjective, Input
  <2> QED
    BY <2>2, <2>3, <2>4, <2>5, <2>6 DEF k, o
<1>2. CASE n \notin Gates /\ IsOutput(n)
  <2>1. InTerms(n) = <<PIN>> /\ OutTerms(n) = <<>>
    BY <1>2 DEF InTerms, OutTerms, IsOutput
  <2>2. ~ IsInput(n)
    BY <1>2, NodeFacts DEF IsInput, IsOutput
  <2> QED
    BY <2>1, <2>2 DEF IsInjective
<1>3. CASE n \notin Gates /\ ~ IsOutput(n)
  <2>1. InTerms(n) = <<>> /\ OutTerms(n) = <<PIN>>
    BY <1>3 DEF InTerms, OutTerms, IsOutput
  <2> QED
    BY <1>3, <2>1 DEF IsInjective
<1> QED
  BY <1>1, <1>2, <1>3

\* The loads of a node get an output each.
LEMMA OutTermGiven ==
  ASSUME TypeOK, Waiting = {}, NEW n \in Node, OutTerms(n) # <<>>,
         NEW m \in Range(sinks[n])
  PROVE  OutTerm(n, m) \in Range(OutTerms(n))
<1> DEFINE L == Len(sinks[n])
           O == Len(OutTerms(n))
           run == CeilDiv(L, O)
           i == CHOOSE j \in DOMAIN sinks[n] : sinks[n][j] = m
           q == (i - 1) \div run
<1>1. L \in Nat /\ DOMAIN sinks[n] = 1..L
  BY DEF TypeOK
<1>2. O \in Nat \ {0} /\ DOMAIN OutTerms(n) = 1..O
  BY TermsOfNode
<1>3. i \in 1..L
  <2>1. \E j \in DOMAIN sinks[n] : sinks[n][j] = m
    BY DEF Range
  <2> QED
    BY <1>1, <2>1
<1> HIDE DEF L, O, i
<1>4. run \in Nat /\ L <= run * O
  BY <1>1, <1>2, CeilDivBounds
<1> HIDE DEF run
<1>5. run # 0
  BY <1>1, <1>2, <1>3, <1>4
<1>6. q \in Nat /\ q * run <= i - 1
  BY <1>1, <1>3, <1>4, <1>5, QuotientBounds
<1> HIDE DEF q
<1>7. q < O
  <2> SUFFICES ASSUME O <= q PROVE FALSE
    BY <1>2, <1>6
  <2>1. run * O <= run * q /\ run * q = q * run
    BY <1>2, <1>4, <1>6
  <2> DEFINE ro == run * O
             qr == q * run
  <2>2. ro \in Int /\ qr \in Int /\ ro <= qr /\ qr <= i - 1 /\ L <= ro
    BY <1>2, <1>4, <1>6, <2>1
  <2> HIDE DEF ro, qr
  <2> QED
    BY <1>1, <1>3, <2>2
<1>8. OutTerm(n, m) = OutTerms(n)[q + 1]
  BY DEF OutTerm, q, run, i, L, O
<1> QED
  BY <1>2, <1>6, <1>7, <1>8 DEF Range

\* The drivers of a node take its inputs, each one of its own.
LEMMA InTermsGiven ==
  ASSUME TypeOK, Waiting = {}, NEW n \in Node, Len(InTerms(n)) = Len(sources[n]),
         IsInjective(sources[n])
  PROVE  /\ \A m \in Range(sources[n]) : InTerm(n, m) \in Range(InTerms(n))
         /\ \A l, m \in Range(sources[n]) : InTerm(n, l) = InTerm(n, m) => l = m
         /\ \A t \in Range(InTerms(n)) : \E m \in Range(sources[n]) : InTerm(n, m) = t
<1> DEFINE At(m) == CHOOSE i \in DOMAIN sources[n] : sources[n][i] = m
           D == DOMAIN sources[n]
<1>1. DOMAIN InTerms(n) = D /\ IsInjective(InTerms(n))
  BY TermsOfNode DEF TypeOK
<1>2. \A m \in Range(sources[n]) : At(m) \in D /\ sources[n][At(m)] = m
  BY DEF Range
<1>3. \A i \in D : At(sources[n][i]) = i /\ sources[n][i] \in Range(sources[n])
  BY DEF IsInjective, Range
<1>4. \A m : InTerm(n, m) = InTerms(n)[At(m)]
  BY DEF InTerm
<1> HIDE DEF At, D
<1>5. \A m \in Range(sources[n]) : InTerm(n, m) \in Range(InTerms(n))
  BY <1>1, <1>2, <1>4 DEF Range
<1>6. \A l, m \in Range(sources[n]) : InTerm(n, l) = InTerm(n, m) => l = m
  BY <1>1, <1>2, <1>4 DEF IsInjective
<1>7. ASSUME NEW t \in Range(InTerms(n))
      PROVE  \E m \in Range(sources[n]) : InTerm(n, m) = t
  <2>1. PICK i \in D : InTerms(n)[i] = t
    BY <1>1 DEF Range
  <2> QED
    BY <1>3, <1>4, <2>1
<1> QED
  BY <1>5, <1>6, <1>7

\* Clock and reset of a node
LEMMA ControlsOf ==
  ASSUME NEW n \in Node, Waiting = {}, TypeOK
  PROVE  /\ Controls(n) \in Seq({clkIn, rstIn})
         /\ Range(Controls(n)) \subseteq {clkIn, rstIn}
         /\ n \notin Gates => Range(Controls(n)) = {}
         /\ n \in Gates => /\ clkIn \in Range(Controls(n)) <=> Clks[master[n]] > 0
                           /\ rstIn \in Range(Controls(n)) <=> Rsts[master[n]] > 0
<1>1. CASE n \notin Gates
  <2>1. Controls(n) = <<>>
    BY <1>1 DEF Controls
  <2> QED
    BY <1>1, <2>1 DEF Range
<1>2. CASE n \in Gates
  <2>1. master[n] \in MasterSet
    BY <1>2 DEF TypeOK, Waiting
  <2>2. PICK c \in Nat, r \in Nat : c = Clks[master[n]] /\ r = Rsts[master[n]]
    BY <2>1, MasterAssumption
  <2> DEFINE D == {clkIn, rstIn}
  <2>2a. clkIn \in D /\ rstIn \in D
    OBVIOUS
  <2> HIDE DEF D
  <2>3. PICK a \in Seq(D) : a = [i \in 1..c |-> clkIn]
    <3>1. [i \in 1..c |-> clkIn] \in [1..c -> D]
      BY <2>2a
    <3>2. [i \in 1..c |-> clkIn] \in Seq(D)
      BY <2>2, <3>1, SeqOfFunction
    <3> QED
      BY <3>2
  <2>4. PICK b \in Seq(D) : b = [i \in 1..r |-> rstIn]
    <3>1. [i \in 1..r |-> rstIn] \in [1..r -> D]
      BY <2>2a
    <3>2. [i \in 1..r |-> rstIn] \in Seq(D)
      BY <2>2, <3>1, SeqOfFunction
    <3> QED
      BY <3>2
  <2>5. Controls(n) = a \o b
    BY <1>2, <2>2, <2>3, <2>4 DEF Controls
  <2>6. /\ \A m \in Range(a) : m = clkIn
        /\ clkIn \in Range(a) <=> c > 0
    <3>1. c > 0 <=> 1 \in 1..c
      BY <2>2
    <3>2. c > 0 <=> \E i \in 1..c : TRUE
      BY <2>2
    <3> QED
      BY <2>3, <3>1, <3>2 DEF Range
  <2>7. /\ \A m \in Range(b) : m = rstIn
        /\ rstIn \in Range(b) <=> r > 0
    <3>1. r > 0 <=> 1 \in 1..r
      BY <2>2
    <3>2. r > 0 <=> \E i \in 1..r : TRUE
      BY <2>2
    <3> QED
      BY <2>4, <3>1, <3>2 DEF Range
  <2>8. a \o b \in Seq(D) /\ Range(a \o b) = Range(a) \cup Range(b)
    <3>1. a \in Seq(D) /\ b \in Seq(D)
      BY <2>3, <2>4
    <3>2. a \o b \in Seq(D)
      BY <3>1
    <3> QED
      BY <3>1, <3>2, RangeOfConcat
  <2>9. clkIn # rstIn
    BY NodeFacts
  <2> QED
    BY <1>2, <2>2, <2>5, <2>6, <2>7, <2>8, <2>9 DEF D
<1> QED
  BY <1>1, <1>2

\* A node is a load of the clock and of the reset if it has such pins.
LEMMA FedOf ==
  ASSUME NEW n \in Node, Waiting = {}, TypeOK, NEW m \in Node
  PROVE  /\ Fed(n, m) \in Seq({n})
         /\ m \in Range(Controls(n)) => Range(Fed(n, m)) = {n}
         /\ m \notin Range(Controls(n)) => Fed(n, m) = <<>>
<1> DEFINE at == {j \in DOMAIN Controls(n) : Controls(n)[j] = m}
<1>1. DOMAIN Controls(n) = 1..Len(Controls(n)) /\ Len(Controls(n)) \in Nat
  BY ControlsOf
<1>2. IsFiniteSet(at) /\ Cardinality(at) \in Nat
  <2>1. PICK len \in Nat : len = Len(Controls(n))
    BY <1>1
  <2>2. IsFiniteSet(1..len) /\ at \in SUBSET (1..len)
    BY <1>1, <2>1, FS_Interval
  <2> HIDE DEF at
  <2> QED
    BY <2>2, FS_Subset, FS_CardinalityType
<1>3. m \in Range(Controls(n)) <=> at # {}
  BY DEF Range
<1>4. at # {} <=> Cardinality(at) # 0
  <2> HIDE DEF at
  <2> QED
    BY <1>2, FS_EmptySet
<1>5. PICK k \in Nat : k = Cardinality(at)
  BY <1>2
<1>6. Fed(n, m) = [i \in 1..k |-> n]
  BY <1>5 DEF Fed
<1>7. Fed(n, m) \in Seq({n})
  BY <1>6
<1>8. k = 0 => Fed(n, m) = <<>>
  BY <1>6
<1>9. k # 0 => Range(Fed(n, m)) = {n}
  <2> SUFFICES ASSUME k # 0 PROVE Range(Fed(n, m)) = {n}
    OBVIOUS
  <2>1. 1 \in 1..k
    OBVIOUS
  <2> QED
    BY <1>6, <2>1 DEF Range
<1> QED
  BY <1>3, <1>4, <1>5, <1>7, <1>8, <1>9

\* A load is never the clock or the reset; a driver is any node.
LEMMA SinksOfNode ==
  ASSUME TypeOK, NEW n \in Node
  PROVE  /\ Range(sinks[n]) \subseteq 1..Cnt /\ Range(sources[n]) \subseteq Node
         /\ DOMAIN sinks[n] = 1..Len(sinks[n]) /\ Len(sinks[n]) \in Nat
<1> DEFINE R == 1..Cnt
<1>1. sinks[n] \in Seq(R) /\ sources[n] \in Seq(Node)
  BY DEF TypeOK
<1> HIDE DEF R
<1>2. /\ sinks[n] \in [1..Len(sinks[n]) -> R] /\ Len(sinks[n]) \in Nat
      /\ sources[n] \in [1..Len(sources[n]) -> Node]
  BY <1>1
<1>3. Range(sinks[n]) \subseteq R /\ Range(sources[n]) \subseteq Node
  BY <1>2 DEF Range
<1> QED
  BY <1>2, <1>3 DEF R

\* What mappingTerms of Node does to a node that passes its checks
LEMMA HandedOutRight ==
  ASSUME TypeOK, Connected, Waiting = {}, NEW n \in Node, n \notin Handled,
         Len(InTerms(n)) = Len(sources[n]),
         sinks[n] # <<>> => OutTerms(n) # <<>>
  PROVE  /\ Range(sources[n]) \subseteq 1..Cnt
         /\ DOMAIN HandedOut(n) =
              Range(sources[n]) \cup Range(sinks[n]) \cup Range(Controls(n))
         /\ \A m \in Range(sinks[n]) : HandedOut(n)[m] \in Range(OutTerms(n))
         /\ \A m \in Range(Controls(n)) :
              HandedOut(n)[m] = IF m = clkIn THEN Clock(Clks[master[n]]) ELSE Reset(Rsts[master[n]])
         /\ \A m \in Range(sources[n]) \ Range(sinks[n]) :
              HandedOut(n)[m] \in Range(InTerms(n))
         /\ \A l, m \in Range(sources[n]) \ Range(sinks[n]) :
              HandedOut(n)[l] = HandedOut(n)[m] => l = m
         /\ \A t \in Range(InTerms(n)) : \E m \in Range(sources[n]) :
              m \notin Range(sinks[n]) => HandedOut(n)[m] = t
         /\ IsInput(n) => Range(sources[n]) = {}
         /\ IsOutput(n) => Range(sinks[n]) = {} /\ \A l, m \in Range(sources[n]) : l = m
<1> DEFINE h == HandedOut(n)
<1>1. Range(sources[n]) \subseteq 1..Cnt
  <2>1. Range(sources[n]) \cap {clkIn, rstIn} = {}
    BY DEF Connected
  <2>2. Range(sources[n]) \subseteq Node
    BY DEF TypeOK, Range
  <2> QED
    BY <2>1, <2>2, NodeFacts
<1>2. Range(sinks[n]) \subseteq 1..Cnt
  BY SinksOfNode
<1>3. \A m \in 1..Cnt : m # clkIn /\ m # rstIn /\ m <= Cnt
  BY NodeFacts
<1>4. DOMAIN h = Range(sources[n]) \cup Range(sinks[n]) \cup Range(Controls(n))
  BY DEF HandedOut
<1>5. \A m \in Range(sinks[n]) : h[m] = OutTerm(n, m)
  BY <1>2, <1>3 DEF HandedOut
<1>6. \A m \in Range(sources[n]) \ Range(sinks[n]) : h[m] = InTerm(n, m)
  BY <1>1, <1>3 DEF HandedOut
<1>7. \A m \in Range(Controls(n)) :
            h[m] = IF m = clkIn THEN Clock(Clks[master[n]]) ELSE Reset(Rsts[master[n]])
  <2>1. Range(Controls(n)) \subseteq {clkIn, rstIn} /\ clkIn # rstIn /\ clkIn > Cnt /\ rstIn > Cnt
        /\ Cnt \in Nat /\ clkIn \in Nat /\ rstIn \in Nat
    BY ControlsOf, NodeFacts
  <2>2. ~ (clkIn <= Cnt) /\ ~ (rstIn <= Cnt)
    BY <2>1
  <2> QED
    BY <2>1, <2>2 DEF HandedOut
<1> HIDE DEF h
<1>8. \A m \in Range(sinks[n]) : h[m] \in Range(OutTerms(n))
  <2> SUFFICES ASSUME NEW m \in Range(sinks[n]) PROVE h[m] \in Range(OutTerms(n))
    OBVIOUS
  <2>1. sinks[n] # <<>>
    BY DEF Range
  <2> QED
    BY <1>5, <2>1, OutTermGiven
<1>9. /\ \A m \in Range(sources[n]) : InTerm(n, m) \in Range(InTerms(n))
      /\ \A l, m \in Range(sources[n]) : InTerm(n, l) = InTerm(n, m) => l = m
      /\ \A t \in Range(InTerms(n)) : \E m \in Range(sources[n]) : InTerm(n, m) = t
  BY InTermsGiven DEF Connected
<1>10. \A t \in Range(InTerms(n)) : \E m \in Range(sources[n]) :
         m \notin Range(sinks[n]) => h[m] = t
  BY <1>6, <1>9
<1>11. \A l, m \in Range(sources[n]) \ Range(sinks[n]) : h[l] = h[m] => l = m
  BY <1>6, <1>9
<1>12. DOMAIN sources[n] = 1..Len(sources[n])
  BY DEF TypeOK
<1>13. IsInput(n) => Range(sources[n]) = {}
  <2> SUFFICES ASSUME IsInput(n) PROVE Range(sources[n]) = {}
    OBVIOUS
  <2>1. Len(sources[n]) = 0
    BY TermsOfNode
  <2> QED
    BY <1>12, <2>1 DEF Range
<1>14. IsOutput(n) => Range(sinks[n]) = {} /\ \A l, m \in Range(sources[n]) : l = m
  <2> SUFFICES ASSUME IsOutput(n)
               PROVE  Range(sinks[n]) = {} /\ \A l, m \in Range(sources[n]) : l = m
    OBVIOUS
  <2>1. Len(sources[n]) = 1 /\ OutTerms(n) = <<>>
    BY TermsOfNode
  <2>2. sinks[n] = <<>>
    BY <2>1
  <2>3. DOMAIN sources[n] = {1}
    BY <1>12, <2>1
  <2> QED
    BY <2>2, <2>3 DEF Range
<1> QED
  BY <1>1, <1>4, <1>6, <1>7, <1>8, <1>9, <1>10, <1>11, <1>13, <1>14 DEF h

\* Its checks fail, and the program ends.
LEMMA MapTermsExits ==
  ASSUME IInv, MapTerms, pc' = "exit"
  PROVE  IInv'
<1>1. /\ pc = "terms" /\ UNCHANGED <<graph, term, pos, master, turn, naming, pins>>
  BY DEF MapTerms
<1>2. TypeOK'
  BY <1>1 DEF IInv, TypeOK, graph, naming, Pcs
<1>3. Assigned'
  BY <1>1 DEF IInv, Assigned, Waiting
<1>4. Connected' /\ TermsRight'
  <2>1. Handled' = Handled
    BY <1>1 DEF Handled
  <2> QED
    BY <1>1, <2>1, GraphKept DEF IInv
<1>5. NetsRight' /\ PinsRight'
  BY <1>1 DEF NetsRight, PinsRight, IInv, naming
<1> QED
  BY <1>2, <1>3, <1>4, <1>5 DEF IInv

\* Handing out terms adds the clock and the reset to the node's drivers and the
\* node to their loads, and leaves the nodes handled before alone.
LEMMA MapTermsInv ==
  ASSUME IInv, MapTerms
  PROVE  IInv'
<1>1. CASE pc' = "exit"
  BY <1>1, MapTermsExits
<1> SUFFICES ASSUME pc' # "exit" PROVE IInv'
  BY <1>1
<1>2. PICK n \in Node : n = pos
  BY DEF MapTerms
<1> DEFINE C == Range(Controls(n))
<1>3. /\ pc = "terms" /\ pc' = "terms"
      /\ Len(InTerms(n)) = Len(sources[n])
      /\ sinks[n] # <<>> => OutTerms(n) # <<>>
      /\ term' = [term EXCEPT ![n] = HandedOut(n)]
      /\ sources' = [sources EXCEPT ![n] = @ \o Controls(n)]
      /\ sinks' = [m \in Node |-> sinks[m] \o Fed(n, m)]
      /\ pos' = n + 1
      /\ UNCHANGED <<master, turn, naming, pins>>
  BY <1>2 DEF MapTerms
<1>4. /\ TypeOK /\ Connected /\ TermsRight /\ Waiting = {}
      /\ Handled = 1..(n - 1) /\ Handled' = 1..n /\ n \notin Handled
      /\ Handled \subseteq Node /\ n \in Nat
  <2>1. TypeOK /\ Connected /\ TermsRight /\ Waiting = {}
    BY <1>3 DEF IInv, Assigned
  <2>2. n \in Nat
    BY NodeFacts
  <2> QED
    BY <1>2, <1>3, <2>1, <2>2, HandledNodes DEF Handled
<1>5. /\ Controls(n) \in Seq({clkIn, rstIn})
      /\ C \subseteq {clkIn, rstIn}
      /\ n \notin Gates => C = {}
  BY <1>4, ControlsOf
<1>6. C # {} => n \in 1..Cnt
  BY <1>5, NodeFacts
<1>7. \A k \in Node : k <= n => k \notin C
  BY <1>5, <1>6, NodeFacts
<1> HIDE DEF C
<1>8. sources[n] \in Seq(Node) /\ \A k \in Node : sinks[k] \in Seq(1..Cnt)
  BY <1>4 DEF TypeOK
<1>9. Range(sources[n]) \cap {clkIn, rstIn} = {}
  BY <1>4 DEF Connected
<1>10. Controls(n) \in Seq(Node)
  BY <1>5, NodeFacts, VectorOfMore
<1>11. /\ sources'[n] = sources[n] \o Controls(n)
       /\ \A k \in Node : k # n => sources'[k] = sources[k]
       /\ DOMAIN sources' = Node
  BY <1>3, <1>4 DEF TypeOK
<1>12. sources'[n] \in Seq(Node) /\ Range(sources'[n]) = Range(sources[n]) \cup C
  BY <1>8, <1>10, <1>11, RangeOfConcat, ConcatProperties DEF C
<1>12a. \A k \in Node : k \notin C => sinks'[k] = sinks[k]
  <2> SUFFICES ASSUME NEW k \in Node, k \notin C PROVE sinks'[k] = sinks[k]
    OBVIOUS
  <2>1. Fed(n, k) = <<>>
    BY <1>4, FedOf DEF C
  <2>2. sinks'[k] = sinks[k] \o <<>>
    BY <1>3, <2>1
  <2>3. PICK s \in Seq(1..Cnt) : s = sinks[k]
    BY <1>8
  <2> QED
    BY <2>2, <2>3
<1>13. \A k \in Node :
         /\ sinks'[k] \in Seq(1..Cnt)
         /\ Range(sinks'[k]) = IF k \in C THEN Range(sinks[k]) \cup {n} ELSE Range(sinks[k])
  <2> SUFFICES ASSUME NEW k \in Node
               PROVE  /\ sinks'[k] \in Seq(1..Cnt)
                      /\ Range(sinks'[k]) = IF k \in C THEN Range(sinks[k]) \cup {n}
                                            ELSE Range(sinks[k])
    OBVIOUS
  <2>1. CASE k \notin C
    BY <1>8, <1>12a, <2>1
  <2>2. CASE k \in C
    <3> DEFINE R == 1..Cnt
    <3>1. n \in R /\ {n} \subseteq R
      BY <1>6, <2>2
    <3>2. Fed(n, k) \in Seq({n}) /\ Range(Fed(n, k)) = {n}
      BY <1>4, <2>2, FedOf DEF C
    <3> HIDE DEF R
    <3>3. PICK f \in Seq(R) : f = Fed(n, k)
      BY <3>1, <3>2, VectorOfMore
    <3>4. PICK s \in Seq(R) : s = sinks[k]
      BY <1>8 DEF R
    <3>5. sinks'[k] = s \o f
      BY <1>3, <3>3, <3>4
    <3>6. s \o f \in Seq(R) /\ Range(s \o f) = Range(s) \cup Range(f)
      BY RangeOfConcat, ConcatProperties
    <3> QED
      BY <2>2, <3>2, <3>3, <3>4, <3>5, <3>6 DEF R
  <2> QED
    BY <2>1, <2>2
<1>14. \A k \in Node : k <= n => sinks'[k] = sinks[k]
  BY <1>7, <1>12a
<1>15. TypeOK'
  <2>1. sources' \in [Node -> Seq(Node)]
    <3>1. \A k \in Node : sources'[k] \in Seq(Node)
      BY <1>4, <1>11, <1>12 DEF TypeOK
    <3>2. sources' = [k \in Node |-> sources'[k]]
      BY <1>3, <1>4 DEF TypeOK
    <3> QED
      BY <3>1, <3>2
  <2>2. sinks' \in [Node -> Seq(1..Cnt)]
    <3>1. sinks' = [k \in Node |-> sinks'[k]]
      BY <1>3
    <3> QED
      BY <1>13, <3>1
  <2>3. DOMAIN term' = Node /\ pos' \in 1..(Cnt + 3)
    <3>1. n \in 1..(Cnt + 2) /\ Cnt \in Nat
      BY NodeFacts DEF Node
    <3> QED
      BY <1>3, <1>4, <3>1 DEF TypeOK
  <2> QED
    BY <1>3, <1>4, <2>1, <2>2, <2>3 DEF TypeOK, naming, Pcs
<1>16. Assigned'
  BY <1>3, <1>4 DEF Assigned, Waiting
<1>17. Connected'
  <2>1. \A k \in Node \ Handled' : IsInjective(sources'[k])
    <3> SUFFICES ASSUME NEW k \in Node, k \notin Handled' PROVE IsInjective(sources'[k])
      OBVIOUS
    <3>1. k # n /\ k \notin Handled
      BY <1>4, NodeFacts DEF Node
    <3> QED
      BY <1>4, <1>11, <3>1 DEF Connected
  <2>2. ASSUME NEW l \in Node, NEW k \in Node
        PROVE  l \in Range(sources'[k]) <=> k \in Range(sinks'[l])
    <3>1. l \in Range(sources[k]) <=> k \in Range(sinks[l])
      BY <1>4 DEF Connected
    <3>2. l \in Range(sources'[k]) <=> l \in Range(sources[k]) \/ (k = n /\ l \in C)
      BY <1>11, <1>12
    <3>3. k \in Range(sinks'[l]) <=> k \in Range(sinks[l]) \/ (k = n /\ l \in C)
      BY <1>13
    <3> QED
      BY <3>1, <3>2, <3>3
  <2>3. ASSUME NEW k \in Node
        PROVE  Range(sources'[k]) \cap {clkIn, rstIn} =
                 IF k \in Handled' THEN Range(Controls(k))' ELSE {}
    <3>1. Controls(k)' = Controls(k)
      BY <1>3 DEF Controls
    <3>2. CASE k = n
      <4>1. n \in Handled'
        BY <1>4 DEF Node
      <4>2. Range(sources'[n]) \cap {clkIn, rstIn} = C
        BY <1>5, <1>9, <1>12
      <4> QED
        BY <3>1, <3>2, <4>1, <4>2 DEF C
    <3>3. CASE k # n
      <4>1. k \in Handled' <=> k \in Handled
        BY <1>4, <3>3, NodeFacts
      <4> QED
        BY <1>4, <1>11, <3>1, <3>3, <4>1 DEF Connected
    <3> QED
      BY <3>2, <3>3
  <2> QED
    BY <1>13, <2>1, <2>2, <2>3 DEF Connected
<1>18. TermsRight'
  <2> SUFFICES ASSUME NEW k \in Handled' PROVE HandedRight(k)'
    BY DEF TermsRight
  <2>1. k \in Node /\ k <= n /\ (k = n \/ k \in Handled)
    BY <1>4, NodeFacts DEF Node
  <2>2. CASE k # n
    <3>1. HandedRight(k)
      BY <1>4, <2>1, <2>2 DEF TermsRight
    <3>2. sources'[k] = sources[k] /\ sinks'[k] = sinks[k] /\ term'[k] = term[k]
      BY <1>3, <1>4, <1>11, <1>14, <2>1, <2>2 DEF TypeOK
    <3> QED
      BY <1>3, <2>1, <3>1, <3>2, Kept
  <2>3. CASE k = n
    <3> DEFINE h == HandedOut(n)
    <3>1. /\ Range(sources[n]) \subseteq 1..Cnt
          /\ DOMAIN h = Range(sources[n]) \cup Range(sinks[n]) \cup C
          /\ \A m \in Range(sinks[n]) : h[m] \in Range(OutTerms(n))
          /\ \A m \in C :
            h[m] = IF m = clkIn THEN Clock(Clks[master[n]]) ELSE Reset(Rsts[master[n]])
          /\ \A m \in Range(sources[n]) \ Range(sinks[n]) : h[m] \in Range(InTerms(n))
          /\ \A l, m \in Range(sources[n]) \ Range(sinks[n]) : h[l] = h[m] => l = m
          /\ \A t \in Range(InTerms(n)) : \E m \in Range(sources[n]) :
               m \notin Range(sinks[n]) => h[m] = t
          /\ IsInput(n) => Range(sources[n]) = {}
          /\ IsOutput(n) => Range(sinks[n]) = {} /\ \A l, m \in Range(sources[n]) : l = m
      BY <1>3, <1>4, HandedOutRight DEF C
    <3> HIDE DEF h
    <3>2. term'[n] = h /\ sinks'[n] = sinks[n]
      BY <1>3, <1>4, <1>14 DEF TypeOK, h
    <3>3. InTerms(n)' = InTerms(n) /\ OutTerms(n)' = OutTerms(n)
      BY <1>3 DEF InTerms, OutTerms
    <3>4. IsInput(n) \/ IsOutput(n) => C = {}
      <4>1. IsInput(n) \/ IsOutput(n) => n \notin Gates
        BY NodeFacts DEF IsInput, IsOutput, Gates, Sequential
      <4> QED
        BY <1>5, <4>1
    <3>5. /\ Range(sinks[n]) \subseteq 1..Cnt
          /\ \A m \in 1..Cnt : m \notin C /\ m # clkIn /\ m # rstIn
          /\ clkIn # rstIn /\ clkIn \notin 1..Cnt /\ rstIn \notin 1..Cnt
      BY <1>4, <1>5, SinksOfNode, NodeFacts
    <3>6. DOMAIN term'[n] = Range(sources'[n]) \cup Range(sinks'[n])
      BY <1>12, <3>1, <3>2
    <3>7. \A m \in Range(sinks'[n]) : term'[n][m] \in Range(OutTerms(n)')
      BY <3>1, <3>2, <3>3
    <3>8. \A m \in Range(sources'[n]) :
            IF m = clkIn THEN term'[n][m] = Clock(Clks[master'[n]])
            ELSE IF m = rstIn THEN term'[n][m] = Reset(Rsts[master'[n]])
            ELSE m \in Range(sinks'[n]) \/ term'[n][m] \in Range(InTerms(n)')
      <4> SUFFICES ASSUME NEW m \in Range(sources'[n])
                   PROVE  IF m = clkIn THEN h[m] = Clock(Clks[master[n]])
                          ELSE IF m = rstIn THEN h[m] = Reset(Rsts[master[n]])
                          ELSE m \in Range(sinks[n]) \/ h[m] \in Range(InTerms(n))
        BY <1>3, <3>2, <3>3
      <4>1. CASE m \in C
        BY <1>5, <3>1, <3>5, <4>1
      <4>2. CASE m \in Range(sources[n])
        BY <3>1, <3>5, <4>2
      <4> QED
        BY <1>12, <4>1, <4>2
    <3>9. \A l, m \in (Range(sources'[n]) \cap (1..Cnt)) \ Range(sinks'[n]) :
            term'[n][l] = term'[n][m] => l = m
      <4>1. Range(sources'[n]) \cap (1..Cnt) = Range(sources[n])
        BY <1>12, <3>1, <3>5
      <4> QED
        BY <3>1, <3>2, <4>1
    <3>10. \A t \in Range(InTerms(n)') : \E m \in Range(sources'[n]) :
             m \in 1..Cnt /\ (m \notin Range(sinks'[n]) => term'[n][m] = t)
      BY <1>12, <3>1, <3>2, <3>3
    <3>11. /\ IsInput(n) => Range(sources'[n]) = {}
           /\ IsOutput(n) => Range(sinks'[n]) = {} /\ \A l, m \in Range(sources'[n]) : l = m
      BY <1>12, <3>1, <3>2, <3>4
    <3>12. HandedRight(n)'
      BY <3>6, <3>7, <3>8, <3>9, <3>10, <3>11 DEF HandedRight, IsInput, IsOutput
    <3> QED
      BY <2>3, <3>12
  <2> QED
    BY <2>2, <2>3
<1>19. NetsRight' /\ PinsRight'
  BY <1>3 DEF NetsRight, PinsRight, IInv, naming
<1> QED
  BY <1>15, <1>16, <1>17, <1>18, <1>19 DEF IInv
-----------------------------------------------------------------------------
Netting == pc \in {"nets", "write", "done"}

\* From StartNets on the graph and the terms of all nodes are final.
LEMMA NettingFacts ==
  ASSUME IInv, Netting
  PROVE  /\ TypeOK /\ Waiting = {} /\ Handled = Node /\ Connected
         /\ \A n \in Node : HandedRight(n)
<1>1. pc \notin {"assign", "crash", "terms", "exit"}
  BY DEF Netting
<1> QED
  BY <1>1 DEF IInv, Assigned, Handled, TermsRight

\* What the steps that build nets leave alone
LEMMA NettingKept ==
  ASSUME IInv, Netting, Netting', pc' \in Pcs, UNCHANGED <<graph, master, turn, term>>,
         netCnt' \in Nat, pos' \in 1..(Cnt + 3)
  PROVE  /\ TypeOK' /\ Assigned' /\ Connected' /\ TermsRight'
         /\ \A n : UsedTerms(n)' = UsedTerms(n)
         /\ \A d : LoadsOf(d)' = LoadsOf(d)
<1>1. TypeOK'
  BY DEF IInv, TypeOK, graph
<1>2. Assigned'
  <2>1. Waiting' = Waiting /\ Waiting = {}
    BY NettingFacts DEF Waiting
  <2> QED
    BY <2>1 DEF Assigned, Netting
<1>3. Connected' /\ TermsRight'
  <2>1. Handled = Node /\ Handled' = Node
    BY DEF Netting, Handled
  <2> QED
    BY <2>1, GraphKept DEF IInv
<1>4. /\ \A n : UsedTerms(n)' = UsedTerms(n)
      /\ \A d : LoadsOf(d)' = LoadsOf(d)
  BY DEF UsedTerms, LoadsOf, graph
<1> QED
  BY <1>1, <1>2, <1>3, <1>4

\* The loop over the nets starts with none.
LEMMA StartNetsInv ==
  ASSUME IInv, StartNets
  PROVE  IInv'
<1>1. /\ pc = "terms" /\ pos \notin Node /\ pc' = "nets" /\ pos' = 1
      /\ outTerms' = UsedTerms(1)
      /\ UNCHANGED <<graph, master, turn, term, nets, netCnt, pins>>
  BY DEF StartNets
<1>2. TypeOK'
  BY <1>1, NodeFacts DEF IInv, TypeOK, graph, Pcs
<1>3. Assigned'
  BY <1>1 DEF IInv, Assigned, Waiting
<1>4. Connected' /\ TermsRight'
  <2>1. pos = Cnt + 3 /\ Handled = Node /\ Handled' = Node
    BY <1>1, NodeFacts DEF IInv, TypeOK, Handled, Node
  <2> QED
    BY <1>1, <2>1, GraphKept DEF IInv
<1>5. NetsRight'
  <2>1. nets' = <<>> /\ DOMAIN nets' = {}
    BY <1>1 DEF IInv, NetsRight
  <2>2. UsedTerms(1)' = UsedTerms(1) /\ 1 \in Node
    BY <1>1, NodeFacts DEF UsedTerms, graph, Node
  <2>3. ASSUME NEW n \in Node, NEW t \in UsedTerms(n)' PROVE ~ IsMade(<<n, t>>)'
    <3>1. n = 1 \/ n > 1
      BY NodeFacts DEF Node
    <3>2. ~ (n < 1)
      BY <3>1, NodeFacts
    <3> QED
      BY <1>1, <2>2, <2>3, <3>1, <3>2 DEF IsMade
  <2> QED
    BY <1>1, <2>1, <2>2, <2>3 DEF NetsRight
<1>6. PinsRight'
  BY <1>1 DEF PinsRight
<1> QED
  BY <1>2, <1>3, <1>4, <1>5, <1>6 DEF IInv

\* The ends of a connection whose net is built
LEMMA EndsOf ==
  ASSUME IInv, Netting, NEW n \in Node, NEW m \in Range(sinks[n])
  PROVE  /\ m \in 1..Cnt /\ m \in Node /\ n \in Range(sources[m])
         /\ ~ IsOutput(n) /\ ~ IsInput(m)
         /\ IsInput(n) => term[n][m] = PIN
         /\ \A k \in Node : IsOutput(m) /\ m \in Range(sinks[k]) => k = n
<1>1. HandedRight(n) /\ TypeOK /\ Connected /\ Waiting = {}
  BY NettingFacts
<1>2. m \in 1..Cnt /\ m \in Node
  BY <1>1, SinksOfNode, NodeFacts
<1>3. HandedRight(m)
  BY <1>2, NettingFacts
<1>4. \A k \in Node : k \in Range(sources[m]) <=> m \in Range(sinks[k])
  BY <1>1, <1>2 DEF Connected
<1>5. ~ IsOutput(n) /\ ~ IsInput(m)
  BY <1>1, <1>3, <1>4 DEF HandedRight
<1>6. IsInput(n) => term[n][m] = PIN
  <2> SUFFICES ASSUME IsInput(n) PROVE term[n][m] = PIN
    OBVIOUS
  <2>1. n \notin Gates
    BY NodeFacts DEF IsInput, Gates, Sequential
  <2>2. OutTerms(n) = <<PIN>>
    BY <1>5, <2>1 DEF OutTerms, IsOutput
  <2>3. term[n][m] \in Range(<<PIN>>)
    BY <1>1, <2>2 DEF HandedRight
  <2>4. Range(<<PIN>>) = {PIN}
    BY DEF Range
  <2> QED
    BY <2>3, <2>4
<1> QED
  BY <1>2, <1>3, <1>4, <1>5, <1>6 DEF HandedRight

\* A new net has a name that no other net has.
LEMMA NameIsNew ==
  ASSUME IInv, pc = "nets", NEW n \in Node, NEW t \in UsedTerms(n), ~ IsMade(<<n, t>>),
         NEW name,
         IF IsInput(n) THEN name = Port(n)
         ELSE \/ \E p \in Range(sinks[n]) :
                   IsOutput(p) /\ term[n][p] = t /\ name = Port(p)
              \/ name = <<"net", netCnt>>
  PROVE  name \notin DOMAIN nets
<1> SUFFICES ASSUME name \in DOMAIN nets PROVE FALSE
  OBVIOUS
<1>1. PICK k, u : nets[name].driver = <<k, u>> /\ IsMade(<<k, u>>) /\ Named(name, <<k, u>>)
  <2>1. PICK d : nets[name].driver = d /\ IsMade(d) /\ Named(name, d)
    BY DEF IInv, NetsRight
  <2> QED
    BY <2>1 DEF IsMade
<1>2. k \in Node /\ u \in UsedTerms(k) /\ <<k, u>> # <<n, t>>
  BY <1>1 DEF IsMade
<1>3. Netting
  BY DEF Netting
<1>4. PICK m \in Range(sinks[n]) : term[n][m] = t
  BY DEF UsedTerms
<1>5. PICK o \in Range(sinks[k]) : term[k][o] = u
  BY <1>2 DEF UsedTerms
<1>6. /\ \A a, b : Port(a) = Port(b) => a = b
      /\ \A a, b : Port(a) # <<"net", b>>
  BY DEF Port
<1>7. CASE IsInput(n) /\ name = Port(n)
  <2>1. IsInput(k)
    <3> SUFFICES ASSUME ~ IsInput(k) PROVE FALSE
      OBVIOUS
    <3>1. PICK p \in Range(sinks[k]) : name = Port(p)
      BY <1>1, <1>6, <1>7 DEF Named
    <3>2. p = n
      BY <1>6, <1>7, <3>1
    <3>3. ~ IsInput(p)
      BY <1>2, <1>3, <3>1, EndsOf
    <3> QED
      BY <1>7, <3>2, <3>3
  <2>2. k = n
    BY <1>1, <1>6, <1>7, <2>1 DEF Named
  <2>3. t = PIN /\ u = PIN
    BY <1>2, <1>3, <1>4, <1>5, <1>7, <2>1, EndsOf
  <2> QED
    BY <1>2, <2>2, <2>3
<1>8. CASE ~ IsInput(n) /\ \E p \in Range(sinks[n]) : IsOutput(p) /\ term[n][p] = t /\ name = Port(p)
  <2>1. PICK p \in Range(sinks[n]) : IsOutput(p) /\ term[n][p] = t /\ name = Port(p)
    BY <1>8
  <2>2. ~ IsInput(p)
    BY <1>3, EndsOf
  <2>3. ~ IsInput(k)
    BY <1>1, <1>6, <2>1, <2>2 DEF Named
  <2>4. PICK q \in Range(sinks[k]) : term[k][q] = u /\ name = Port(q)
    BY <1>1, <1>6, <2>1, <2>3 DEF Named
  <2>5. q = p
    BY <1>6, <2>1, <2>4
  <2>6. k = n
    BY <1>2, <1>3, <2>1, <2>4, <2>5, EndsOf
  <2> QED
    BY <1>2, <2>1, <2>4, <2>5, <2>6
<1>9. CASE ~ IsInput(n) /\ name = <<"net", netCnt>>
  <2>1. PICK j \in 0..(netCnt - 1) : name = <<"net", j>>
    BY <1>1, <1>6, <1>9 DEF Named
  <2>2. j = netCnt
    BY <1>9, <2>1
  <2> QED
    BY <2>2 DEF IInv, TypeOK
<1> QED
  BY <1>7, <1>8, <1>9

\* The net built is new, has the loads of its output term, and leaves the others
\* as they are.
LEMMA BuildNetInv ==
  ASSUME IInv, NEW t \in outTerms, BuildNet(t)
  PROVE  IInv'
<1>1. PICK n \in Node : n = pos
  BY DEF BuildNet, IInv, NetsRight
<1> DEFINE loads == {i \in DOMAIN sinks[n] : term[n][sinks[n][i]] = t}
           outs == {i \in loads : IsOutput(sinks[n][i])}
           ends == {<<sinks[n][i], term[sinks[n][i]][n]>> : i \in loads}
           d == <<n, t>>
<1>17. PICK name : name = NetName(n, outs)
  OBVIOUS
<1>2. /\ pc = "nets" /\ t \in UsedTerms(n) /\ outTerms \subseteq UsedTerms(n)
      /\ TypeOK /\ NetsRight /\ Netting /\ Netting'
  BY <1>1 DEF BuildNet, IInv, NetsRight, Netting
<1>3. /\ netCnt' = NextNumber(~ IsInput(n) /\ outs = {})
      /\ outTerms' = outTerms \ {t}
      /\ UNCHANGED <<graph, master, turn, term, pos, pins, pc>>
  BY <1>1 DEF BuildNet
<1>4. /\ ends = LoadsOf(d)
      /\ \A i \in loads : sinks[n][i] \in Range(sinks[n])
  BY DEF LoadsOf, Range
<1>5. outs # {} => \E p \in Range(sinks[n]) :
        IsOutput(p) /\ term[n][p] = t /\ Port(sinks[n][Max(outs)]) = Port(p)
  <2> SUFFICES ASSUME outs # {} PROVE Max(outs) \in outs
    BY <1>4
  <2>1. outs \in SUBSET (1..Len(sinks[n])) /\ Len(sinks[n]) \in Nat
    BY <1>2, SinksOfNode
  <2> HIDE DEF outs
  <2>2. IsFiniteSet(outs) /\ \A i \in outs : i \in Nat
    <3> DEFINE len == Len(sinks[n])
    <3>1. len \in Nat /\ outs \subseteq 1..len
      BY <2>1
    <3> HIDE DEF len
    <3>2. IsFiniteSet(1..len)
      BY <3>1, FS_Interval
    <3>3. IsFiniteSet(outs)
      BY <3>1, <3>2, FS_Subset
    <3> QED
      BY <3>1, <3>3
  <2>3. PICK i \in outs : \A j \in outs : j <= i
    <3> DEFINE f == [j \in outs |-> j]
    <3>1. \A j \in outs : f[j] \in Nat
      BY <2>2
    <3>2. \E i \in outs : \A j \in outs : f[j] <= f[i]
      <4> HIDE DEF f
      <4> QED
        BY <2>2, <3>1, Largest
    <3> QED
      BY <3>2
  <2>4. \A j \in outs : i >= j
    BY <2>2, <2>3
  <2> QED
    BY <2>4 DEF Max
<1>6. IF IsInput(n) THEN name = Port(n)
      ELSE \/ \E p \in Range(sinks[n]) : IsOutput(p) /\ term[n][p] = t /\ name = Port(p)
           \/ name = <<"net", netCnt>> /\ netCnt' = netCnt + 1
  BY <1>3, <1>5, <1>17 DEF NetName, NextNumber
<1>7. netCnt \in Nat /\ netCnt' \in Nat /\ netCnt <= netCnt'
  BY <1>2, <1>3 DEF TypeOK, NextNumber
<1>8. ~ IsMade(d)
  <2>1. n \in Nat /\ ~ (n < n)
    BY NodeFacts
  <2>2. d[1] = n /\ d[2] = t
    OBVIOUS
  <2> HIDE DEF d
  <2> QED
    BY <1>1, <1>2, <2>1, <2>2 DEF IsMade
<1>9. name \notin DOMAIN nets
  BY <1>2, <1>6, <1>8, NameIsNew
<1>10. nets' = [x \in DOMAIN nets \cup {name} |->
                  IF x = name THEN [driver |-> d, loads |-> ends] ELSE nets[x]]
  <2> DEFINE old == IF name \in DOMAIN nets THEN nets[name] ELSE [driver |-> d, loads |-> {}]
             net == [old EXCEPT !.loads = @ \cup ends]
  <2>1. nets' = [x \in DOMAIN nets \cup {name} |-> IF x = name THEN net ELSE nets[x]]
    BY <1>1, <1>17, ZenonT(60) DEF BuildNet
  <2>2. old = [driver |-> d, loads |-> {}]
    BY <1>9
  <2> HIDE DEF old, ends
  <2>3. net = [driver |-> d, loads |-> ends]
    BY <2>2
  <2> QED
    BY <2>1, <2>3
<1> HIDE DEF ends, outs, loads
<1>11. /\ DOMAIN nets' = DOMAIN nets \cup {name}
       /\ nets'[name] = [driver |-> d, loads |-> LoadsOf(d)]
       /\ \A x \in DOMAIN nets : nets'[x] = nets[x]
  BY <1>4, <1>9, <1>10
<1>12. /\ TypeOK' /\ Assigned' /\ Connected' /\ TermsRight'
       /\ \A k : UsedTerms(k)' = UsedTerms(k)
       /\ \A e : LoadsOf(e)' = LoadsOf(e)
  BY <1>2, <1>3, <1>7, NettingKept DEF TypeOK
<1>13. /\ IsMade(d)'
       /\ \A e : IsMade(e) => IsMade(e)'
       /\ \A k \in Node : \A u : IsMade(<<k, u>>)' => IsMade(<<k, u>>) \/ <<k, u>> = d
  <2>1. IsMade(d)'
    BY <1>1, <1>2, <1>3, <1>12 DEF IsMade
  <2>2. \A e : IsMade(e) => IsMade(e)'
    BY <1>2, <1>3, <1>12 DEF IsMade
  <2>3. ASSUME NEW k \in Node, NEW u, IsMade(<<k, u>>)', <<k, u>> # d PROVE IsMade(<<k, u>>)
    <3>1. /\ u \in UsedTerms(k)
          /\ k < pos \/ (k = pos /\ u \notin outTerms')
      BY <1>2, <1>3, <1>12, <2>3 DEF IsMade
    <3>2. k = pos => u \notin outTerms
      <4> SUFFICES ASSUME k = pos, u \in outTerms PROVE FALSE
        OBVIOUS
      <4>1. k = n /\ u # t
        BY <1>1, <2>3
      <4>2. k \in Nat /\ ~ (k < k)
        BY NodeFacts
      <4> QED
        BY <1>3, <3>1, <4>1, <4>2
    <3> QED
      BY <1>2, <3>1, <3>2 DEF IsMade
  <2> QED
    BY <2>1, <2>2, <2>3
<1>14. /\ Named(name, d)'
       /\ \A x, e : Named(x, e) => Named(x, e)'
  <2>1. \A x, e : Named(x, e) => Named(x, e)'
    <3> SUFFICES ASSUME NEW x, NEW e, Named(x, e) PROVE Named(x, e)'
      OBVIOUS
    <3>1. \A k \in 0..(netCnt - 1) : k \in 0..(netCnt' - 1)
      <4>1. \A a, b \in Nat : a <= b => \A k \in 0..(a - 1) : k \in 0..(b - 1)
        OBVIOUS
      <4> QED
        BY <1>7, <4>1
    <3> QED
      BY <1>3, <3>1 DEF Named, IsInput, IsOutput, graph, Port
  <2>2. Named(name, d)'
    <3>1. netCnt' = netCnt + 1 => netCnt \in 0..(netCnt' - 1)
      BY <1>7
    <3> QED
      BY <1>3, <1>6, <3>1 DEF Named, IsInput, IsOutput, graph, Port
  <2> QED
    BY <2>1, <2>2
<1>15. NetsRight'
  <2>1. ASSUME NEW x \in DOMAIN nets'
        PROVE  \E e : nets'[x] = [driver |-> e, loads |-> LoadsOf(e)'] /\ IsMade(e)' /\ Named(x, e)'
    <3>1. CASE x = name
      BY <1>11, <1>12, <1>13, <1>14, <3>1
    <3>2. CASE x \in DOMAIN nets
      <4>1. PICK e : nets[x] = [driver |-> e, loads |-> LoadsOf(e)] /\ IsMade(e) /\ Named(x, e)
        BY <1>2, <3>2 DEF NetsRight
      <4>2. nets'[x] = nets[x]
        BY <1>11, <3>2
      <4> QED
        BY <1>12, <1>13, <1>14, <4>1, <4>2
    <3> QED
      BY <1>11, <3>1, <3>2
  <2>2. ASSUME NEW a \in DOMAIN nets', NEW b \in DOMAIN nets', nets'[a].driver = nets'[b].driver
        PROVE  a = b
    <3>1. \A x \in DOMAIN nets : nets'[x].driver # d
      BY <1>2, <1>8, <1>11 DEF NetsRight
    <3>2. nets'[name].driver = d
      BY <1>11
    <3>3. CASE a \in DOMAIN nets /\ b \in DOMAIN nets
      BY <1>2, <1>11, <2>2, <3>3 DEF NetsRight
    <3> QED
      BY <1>11, <2>2, <3>1, <3>2, <3>3
  <2>3. ASSUME NEW k \in Node, NEW u \in UsedTerms(k)', IsMade(<<k, u>>)'
        PROVE  \E x \in DOMAIN nets' : nets'[x].driver = <<k, u>>
    <3>1. CASE <<k, u>> = d
      BY <1>11, <3>1
    <3>2. CASE IsMade(<<k, u>>)
      <4>1. PICK x \in DOMAIN nets : nets[x].driver = <<k, u>>
        BY <1>2, <1>12, <2>3, <3>2 DEF NetsRight
      <4> QED
        BY <1>11, <4>1
    <3> QED
      BY <1>13, <2>3, <3>1, <3>2
  <2>4. pos' \in Node /\ outTerms' \subseteq UsedTerms(pos)'
    <3>1. pos' = n /\ outTerms' \subseteq UsedTerms(n)'
      BY <1>1, <1>2, <1>3, <1>12
    <3> QED
      BY <3>1 DEF UsedTerms
  <2> QED
    BY <1>2, <1>3, <2>1, <2>2, <2>3, <2>4 DEF NetsRight
<1>16. PinsRight'
  BY <1>2, <1>3 DEF PinsRight
<1> QED
  BY <1>12, <1>15, <1>16 DEF IInv

\* When its last output term is taken, all nets of a node are made.
LEMMA NextSourceInv ==
  ASSUME IInv, NextSource
  PROVE  IInv'
<1>1. /\ pc = "nets" /\ outTerms = {} /\ pos \in Node /\ pos \in Nat /\ Cnt \in Nat
      /\ TypeOK /\ NetsRight
      /\ UNCHANGED <<graph, master, turn, term, nets, netCnt, pins>>
  BY NodeFacts DEF NextSource, IInv, NetsRight
<1>2. \/ /\ pos + 1 \in Node /\ pc' = "nets"
         /\ pos' = pos + 1 /\ outTerms' = UsedTerms(pos + 1)
      \/ /\ pos = Cnt + 2 /\ pc' = "write" /\ pos' = pos /\ outTerms' = outTerms
  <2>1. CASE pos + 1 \in Node
    BY <1>1, <2>1 DEF NextSource
  <2>2. CASE pos + 1 \notin Node
    <3>1. pos = Cnt + 2
      BY <1>1, <2>2 DEF Node
    <3> QED
      BY <1>1, <2>2, <3>1 DEF NextSource
  <2> QED
    BY <2>1, <2>2
<1>3. Netting /\ Netting' /\ pc' \in Pcs /\ pos' \in 1..(Cnt + 3)
  BY <1>1, <1>2 DEF Netting, Pcs, Node, TypeOK
<1>4. /\ TypeOK' /\ Assigned' /\ Connected' /\ TermsRight'
      /\ \A k : UsedTerms(k)' = UsedTerms(k)
      /\ \A e : LoadsOf(e)' = LoadsOf(e)
  BY <1>1, <1>3, NettingKept DEF TypeOK
<1>5. \A e : IsMade(e)' <=> IsMade(e)
  <2> SUFFICES ASSUME NEW e, e = <<e[1], e[2]>>, e[1] \in Node, e[2] \in UsedTerms(e[1])
               PROVE  IsMade(e)' <=> IsMade(e)
    BY <1>4 DEF IsMade
  <2>1. e[1] \in Nat /\ e[1] <= Cnt + 2 /\ e[2] \in UsedTerms(e[1])'
    BY <1>1, <1>4 DEF Node
  <2>2. IsMade(e) <=> e[1] <= pos
    BY <1>1, <2>1 DEF IsMade
  <2>3. CASE pc' = "nets"
    <3>1. pos' = pos + 1 /\ outTerms' = UsedTerms(pos + 1)
      BY <1>2, <2>3
    <3>2. IsMade(e)' <=> e[1] < pos + 1 \/ (e[1] = pos + 1 /\ e[2] \notin UsedTerms(pos + 1))
      BY <2>1, <2>3, <3>1 DEF IsMade
    <3> QED
      BY <1>1, <2>1, <2>2, <3>2
  <2>4. CASE pc' = "write"
    <3>1. IsMade(e)'
      BY <2>1, <2>4 DEF IsMade
    <3>2. pos = Cnt + 2
      BY <1>2, <2>4
    <3> QED
      BY <2>1, <2>2, <3>1, <3>2
  <2> QED
    BY <1>2, <2>3, <2>4
<1>6. \A x, e : Named(x, e)' <=> Named(x, e)
  BY <1>1 DEF Named, IsInput, IsOutput, graph, Port
<1>7. NetsRight'
  <2>1. pc' = "nets" => pos' \in Node /\ outTerms' \subseteq UsedTerms(pos)'
    <3> SUFFICES ASSUME pc' = "nets" PROVE pos' \in Node /\ outTerms' \subseteq UsedTerms(pos)'
      OBVIOUS
    <3>1. PICK k : k = pos + 1 /\ k \in Node /\ pos' = k /\ outTerms' = UsedTerms(k)
      BY <1>2
    <3>2. UsedTerms(k)' = UsedTerms(k)
      BY <1>4
    <3> QED
      BY <3>1, <3>2 DEF UsedTerms
  <2> QED
    BY <1>1, <1>2, <1>4, <1>5, <1>6, <2>1 DEF NetsRight
<1>8. PinsRight'
  BY <1>2 DEF PinsRight
<1> QED
  BY <1>4, <1>7, <1>8 DEF IInv

\* The order in which nets are met does not matter to a pin with one net.
LEMMA WriteVerilogInv ==
  ASSUME IInv, WriteVerilog
  PROVE  IInv'
<1>1. /\ pc = "write" /\ pc' = "done" /\ NetsRight /\ TypeOK
      /\ UNCHANGED <<graph, master, turn, term, naming, pos>>
  BY DEF WriteVerilog, IInv
<1>2. Netting /\ Netting' /\ pc' \in Pcs
  BY <1>1 DEF Netting, Pcs
<1>3. /\ TypeOK' /\ Assigned' /\ Connected' /\ TermsRight'
      /\ \A k : UsedTerms(k)' = UsedTerms(k)
      /\ \A e : LoadsOf(e)' = LoadsOf(e)
  BY <1>1, <1>2, NettingKept DEF TypeOK, naming
<1>4. /\ \A e : IsMade(e)' <=> IsMade(e)
      /\ \A x, e : Named(x, e)' <=> Named(x, e)
  BY <1>1, <1>3 DEF IsMade, Named, IsInput, IsOutput, graph, Port, naming
<1>5. NetsRight'
  BY <1>1, <1>3, <1>4 DEF NetsRight, naming
<1>6. PinsRight'
  <2>1. PICK order :
          pins' = [n \in Gates |->
                     {<<t, Latest(order, Holders(n, t))>> : t \in Range(term[n])}]
    BY DEF WriteVerilog
  <2>2. \A n \in Gates : pins'[n] = {<<t, Latest(order, Holders(n, t))>> : t \in Range(term[n])}
    BY <2>1
  <2>3. \A name : Latest(order, {name}) = name
    BY FS_Singleton DEF Latest
  <2>4. \A n, t : Holders(n, t)' = Holders(n, t)
    BY <1>1 DEF Holders, naming
  <2> SUFFICES ASSUME NEW n \in Gates
               PROVE  /\ \A p \in pins'[n] :
                           /\ p[1] \in Range(term[n])
                           /\ \A name \in DOMAIN nets : Holders(n, p[1]) = {name} => p[2] = name
                      /\ \A t \in Range(term[n]) : \E p \in pins'[n] : p[1] = t
    BY <1>1, <2>4 DEF PinsRight, naming
  <2>5. ASSUME NEW p \in pins'[n]
        PROVE  /\ p[1] \in Range(term[n])
               /\ \A name \in DOMAIN nets : Holders(n, p[1]) = {name} => p[2] = name
    <3>1. PICK t \in Range(term[n]) : p = <<t, Latest(order, Holders(n, t))>>
      BY <2>2
    <3> QED
      BY <2>3, <3>1
  <2>6. ASSUME NEW t \in Range(term[n]) PROVE \E p \in pins'[n] : p[1] = t
    <3>1. <<t, Latest(order, Holders(n, t))>> \in pins'[n]
      BY <2>2
    <3> QED
      BY <3>1
  <2> QED
    BY <2>5, <2>6
<1> QED
  BY <1>3, <1>5, <1>6 DEF IInv

\* Every step keeps the invariant.
LEMMA NextInv == IInv /\ [Next]_vars => IInv'
<1> SUFFICES ASSUME IInv, [Next]_vars PROVE IInv'
  OBVIOUS
<1>1. CASE AssignMaster
  BY <1>1, AssignMasterInv
<1>2. CASE StartTerms
  BY <1>2, StartTermsInv
<1>3. CASE MapTerms
  BY <1>3, MapTermsInv
<1>4. CASE StartNets
  BY <1>4, StartNetsInv
<1>5. ASSUME NEW t \in outTerms, BuildNet(t) PROVE IInv'
  BY <1>5, BuildNetInv
<1>6. CASE NextSource
  BY <1>6, NextSourceInv
<1>7. CASE WriteVerilog
  BY <1>7, WriteVerilogInv
<1>8. CASE UNCHANGED vars
  <2>1. /\ UNCHANGED <<sources, sinks, master, turn, term, nets, netCnt, pos, outTerms, pins, pc>>
    BY <1>8 DEF vars, graph, naming
  <2>2. TypeOK' /\ Assigned'
    BY <2>1 DEF IInv, TypeOK, Assigned, Kind, Waiting
  <2>3. Connected' /\ TermsRight'
    <3>1. Handled' = Handled
      BY <2>1 DEF Handled
    <3> QED
      BY <2>1, <3>1, GraphKept DEF IInv, graph
  <2>4. /\ \A k : UsedTerms(k)' = UsedTerms(k)
        /\ \A e : LoadsOf(e)' = LoadsOf(e)
    BY <2>1 DEF UsedTerms, LoadsOf
  <2>5. /\ \A e : IsMade(e)' <=> IsMade(e)
        /\ \A x, e : Named(x, e)' <=> Named(x, e)
    BY <2>1, <2>4 DEF IsMade, Named, IsInput, IsOutput, Port
  <2>6. NetsRight'
    <3>1. UsedTerms(pos)' = UsedTerms(pos)
      BY <2>1 DEF UsedTerms
    <3> QED
      BY <2>1, <2>4, <2>5, <3>1 DEF IInv, NetsRight
  <2>7. PinsRight'
    <3>1. \A n, t : Holders(n, t)' = Holders(n, t)
      BY <2>1 DEF Holders
    <3> QED
      BY <2>1, <3>1 DEF IInv, PinsRight
  <2> QED
    BY <2>2, <2>3, <2>6, <2>7 DEF IInv
<1> QED
  BY <1>1, <1>2, <1>3, <1>4, <1>5, <1>6, <1>7, <1>8 DEF Next

\* technologyMapping and writeVerilog keep types, kinds of masters, both ends of
\* a connection, terms, nets and pins as IInv says, in every reachable state.
THEOREM MappingInvariant == Spec => []IInv
<1> QED
  BY InitInv, NextInv, PTL DEF Spec

\* The while loop of the assignment, which has no other way out, always finds a
\* master whose share is not used up.
THEOREM SearchFindsRoom == Spec => []RoomLeft
<1>1. IInv => RoomLeft
  BY RoomWhileAssigning DEF IInv
<1> QED
  BY <1>1, MappingInvariant, PTL
-----------------------------------------------------------------------------
\* A node that is no port is an instance.
LEMMA GateUnlessPort ==
  ASSUME NEW n \in Node, ~ IsInput(n), ~ IsOutput(n)
  PROVE  n \in Gates
<1>1. n \in 1..Cnt
  BY NodeFacts DEF IsInput
<1>2. n <= Cnt
  BY <1>1, NodeFacts
<1> QED
  BY <1>1, <1>2, NodeAssumption DEF IsInput, IsOutput, Gates, Sequential

\* No neighbour is a driver and a load.
LEMMA OneWay ==
  ASSUME IInv, Netting, NoMutual, NEW n \in Node, NEW m \in Range(sources[n])
  PROVE  m \notin Range(sinks[n])
<1> SUFFICES ASSUME m \in Range(sinks[n]) PROVE FALSE
  OBVIOUS
<1>1. m \in Node /\ n \in Range(sources[m]) /\ ~ IsOutput(n) /\ ~ IsInput(m)
  BY EndsOf
<1>2. n \in Range(sinks[m])
  BY <1>1, NettingFacts DEF Connected
<1>3. ~ IsOutput(m) /\ ~ IsInput(n)
  BY <1>1, <1>2, EndsOf
<1>4. m \in Gates /\ n \in Gates
  BY <1>1, <1>3, GateUnlessPort
<1> QED
  BY <1>2, <1>4 DEF NoMutual, Mutual

\* The terms of an instance: outputs to its loads, inputs to its drivers
LEMMA GateTerms ==
  ASSUME IInv, Netting, NoMutual, NEW n \in Gates
  PROVE  /\ DOMAIN term[n] = Range(sources[n]) \cup Range(sinks[n])
         /\ master[n] \in MasterSet
         /\ \A m \in Range(sinks[n]) : \E i \in 1..Outs[master[n]] : term[n][m] = Output(i)
         /\ \A m \in Range(sources[n]) :
              \/ m = clkIn /\ term[n][m] = Clock(Clks[master[n]])
              \/ m = rstIn /\ term[n][m] = Reset(Rsts[master[n]])
              \/ m \in 1..Cnt /\ \E i \in 1..Ins[master[n]] : term[n][m] = Input(i)
         /\ \A l, m \in Range(sources[n]) : term[n][l] = term[n][m] => l = m
         /\ \A i \in 1..Ins[master[n]] : \E m \in Range(sources[n]) : term[n][m] = Input(i)
<1>1. n \in Node /\ HandedRight(n) /\ TypeOK /\ Waiting = {}
  BY NodeFacts, NettingFacts
<1>2. master[n] \in MasterSet
  BY <1>1 DEF TypeOK, Waiting
<1>3. \A m \in Range(sources[n]) : m \notin Range(sinks[n]) /\ m \in Node
  BY <1>1, OneWay, SinksOfNode
<1>4. /\ InTerms(n) = [i \in 1..Ins[master[n]] |-> Input(i)]
      /\ OutTerms(n) = [i \in 1..Outs[master[n]] |-> Output(i)]
  BY DEF InTerms, OutTerms
<1>5. /\ Range(InTerms(n)) = {Input(i) : i \in 1..Ins[master[n]]}
      /\ Range(OutTerms(n)) = {Output(i) : i \in 1..Outs[master[n]]}
  BY <1>4 DEF Range
<1>6. ASSUME NEW m \in Range(sources[n])
      PROVE  \/ m = clkIn /\ term[n][m] = Clock(Clks[master[n]])
             \/ m = rstIn /\ term[n][m] = Reset(Rsts[master[n]])
             \/ m \in 1..Cnt /\ \E i \in 1..Ins[master[n]] : term[n][m] = Input(i)
  <2>1. m \in 1..Cnt \/ m = clkIn \/ m = rstIn
    BY <1>3, NodeFacts
  <2>2. CASE m \in 1..Cnt
    <3>1. m # clkIn /\ m # rstIn
      BY <2>2, NodeFacts
    <3>2. term[n][m] \in Range(InTerms(n))
      BY <1>1, <1>3, <3>1 DEF HandedRight
    <3> QED
      BY <1>5, <2>2, <3>2
  <2> QED
    BY <1>1, <2>1, <2>2, NodeFacts DEF HandedRight
<1>7. ASSUME NEW l \in Range(sources[n]), NEW m \in Range(sources[n]), term[n][l] = term[n][m]
      PROVE  l = m
  <2>1. CASE l \in 1..Cnt /\ m \in 1..Cnt
    BY <1>1, <1>3, <1>7, <2>1 DEF HandedRight
  <2>2. \A i, j, k : Clock(i) # Reset(j) /\ Clock(i) # Input(k) /\ Reset(j) # Input(k)
    BY DEF Clock, Reset, Input
  <2> QED
    BY <1>6, <1>7, <2>1, <2>2
<1>8. ASSUME NEW i \in 1..Ins[master[n]]
      PROVE  \E m \in Range(sources[n]) : term[n][m] = Input(i)
  <2>1. Input(i) \in Range(InTerms(n))
    BY <1>5
  <2> QED
    BY <1>1, <1>3, <2>1 DEF HandedRight
<1>9. \A m \in Range(sinks[n]) : \E i \in 1..Outs[master[n]] : term[n][m] = Output(i)
  BY <1>1, <1>5 DEF HandedRight
<1> QED
  BY <1>1, <1>2, <1>6, <1>7, <1>8, <1>9 DEF HandedRight

\* The one net of a used output term, and what it is called
LEMMA NetOfTerm ==
  ASSUME IInv, pc = "done", NEW n \in Node, NEW t \in UsedTerms(n)
  PROVE  \E name \in DOMAIN nets :
           /\ nets[name] = [driver |-> <<n, t>>, loads |-> LoadsOf(<<n, t>>)]
           /\ Named(name, <<n, t>>)
           /\ \A x \in DOMAIN nets : nets[x].driver = <<n, t>> => x = name
<1>1. NetsRight
  BY DEF IInv
<1>2. IsMade(<<n, t>>)
  BY DEF IsMade
<1>3. PICK name \in DOMAIN nets : nets[name].driver = <<n, t>>
  BY <1>1, <1>2 DEF NetsRight
<1>4. PICK d : nets[name] = [driver |-> d, loads |-> LoadsOf(d)] /\ Named(name, d)
  BY <1>1, <1>3 DEF NetsRight
<1>5. d = <<n, t>>
  BY <1>3, <1>4
<1>6. \A x \in DOMAIN nets : nets[x].driver = <<n, t>> => x = name
  BY <1>1, <1>3 DEF NetsRight
<1> QED
  BY <1>3, <1>4, <1>5, <1>6

\* The nets that name a pin: its own, or those of its drivers by that pin
LEMMA HoldersAre ==
  ASSUME IInv, pc = "done", NEW n \in Node, NEW t, NEW x
  PROVE  x \in Holders(n, t) <=>
           /\ x \in DOMAIN nets
           /\ \E k \in Node : \E u :
                /\ nets[x].driver = <<k, u>> /\ u \in UsedTerms(k)
                /\ \/ k = n /\ u = t
                   \/ n \in Range(sinks[k]) /\ term[k][n] = u /\ term[n][k] = t
<1> SUFFICES ASSUME x \in DOMAIN nets
             PROVE  <<n, t>> \in nets[x].loads \cup {nets[x].driver} <=>
                      \E k \in Node : \E u :
                        /\ nets[x].driver = <<k, u>> /\ u \in UsedTerms(k)
                        /\ \/ k = n /\ u = t
                           \/ n \in Range(sinks[k]) /\ term[k][n] = u /\ term[n][k] = t
  BY DEF Holders
<1>1. PICK d : nets[x] = [driver |-> d, loads |-> LoadsOf(d)] /\ IsMade(d)
  BY DEF IInv, NetsRight
<1>2. PICK k, u : k \in Node /\ u \in UsedTerms(k) /\ d = <<k, u>>
  BY <1>1 DEF IsMade
<1>3. <<n, t>> \in LoadsOf(d) <=> n \in Range(sinks[k]) /\ term[k][n] = u /\ term[n][k] = t
  <2>1. LoadsOf(d) = {<<m, term[m][k]>> : m \in {m \in Range(sinks[k]) : term[k][m] = u}}
    BY <1>2 DEF LoadsOf
  <2> QED
    BY <2>1
<1>4. <<n, t>> = d <=> k = n /\ u = t
  BY <1>2
<1> QED
  BY <1>1, <1>2, <1>3, <1>4

\* A used output of an instance is on its own net only.
LEMMA OutputHeld ==
  ASSUME IInv, pc = "done", NoMutual, NEW n \in Gates, NEW i, Output(i) \in Range(term[n])
  PROVE  /\ Output(i) \in UsedTerms(n)
         /\ \E name \in DOMAIN nets :
              /\ Holders(n, Output(i)) = {name}
              /\ nets[name].driver = <<n, Output(i)>>
              /\ Named(name, <<n, Output(i)>>)
<1> DEFINE t == Output(i)
<1>1. Netting /\ n \in Node
  BY NodeFacts DEF Netting
<1>2. \A j : Output(i) # Clock(j) /\ Output(i) # Reset(j) /\ Output(i) # Input(j)
  BY DEF Output, Clock, Reset, Input
<1>3. \A m \in Range(sources[n]) : term[n][m] # t
  BY <1>1, <1>2, GateTerms
<1>4. t \in UsedTerms(n)
  <2>1. PICK m \in DOMAIN term[n] : term[n][m] = t
    BY DEF Range
  <2>2. m \in Range(sinks[n])
    BY <1>1, <1>3, <2>1, GateTerms
  <2> QED
    BY <2>1, <2>2 DEF UsedTerms
<1>5. PICK name \in DOMAIN nets :
        /\ nets[name].driver = <<n, t>> /\ Named(name, <<n, t>>)
        /\ \A x \in DOMAIN nets : nets[x].driver = <<n, t>> => x = name
  <2> HIDE DEF t
  <2>1. PICK name \in DOMAIN nets :
           /\ nets[name] = [driver |-> <<n, t>>, loads |-> LoadsOf(<<n, t>>)]
           /\ Named(name, <<n, t>>)
           /\ \A x \in DOMAIN nets : nets[x].driver = <<n, t>> => x = name
    BY <1>1, <1>4, NetOfTerm
  <2> QED
    BY <2>1
<1> HIDE DEF t
<1>6. \A k \in Node : n \in Range(sinks[k]) => k \in Range(sources[n])
  BY <1>1, EndsOf
<1>7. \A x : x \in Holders(n, t) <=> x = name
  BY <1>1, <1>3, <1>4, <1>5, <1>6, HoldersAre
<1> QED
  BY <1>4, <1>5, <1>7 DEF t

\* The term an instance has for a driver is on the net of that driver only.
LEMMA InputHeld ==
  ASSUME IInv, pc = "done", NoMutual, NEW n \in Gates, NEW m \in Range(sources[n])
  PROVE  /\ m \in Node /\ n \in Range(sinks[m])
         /\ \E name \in DOMAIN nets :
              /\ Holders(n, term[n][m]) = {name}
              /\ nets[name].driver = <<m, term[m][n]>>
              /\ Named(name, <<m, term[m][n]>>)
<1> DEFINE t == term[n][m]
           u == term[m][n]
<1>1. Netting /\ n \in Node /\ TypeOK /\ Connected
  BY NodeFacts, NettingFacts DEF Netting
<1>2. m \in Node /\ n \in Range(sinks[m])
  BY <1>1, SinksOfNode DEF Connected
<1>3. u \in UsedTerms(m)
  BY <1>2 DEF UsedTerms
<1>4. PICK name \in DOMAIN nets :
        /\ nets[name].driver = <<m, u>> /\ Named(name, <<m, u>>)
        /\ \A x \in DOMAIN nets : nets[x].driver = <<m, u>> => x = name
  <2> HIDE DEF u
  <2>1. PICK name \in DOMAIN nets :
           /\ nets[name] = [driver |-> <<m, u>>, loads |-> LoadsOf(<<m, u>>)]
           /\ Named(name, <<m, u>>)
           /\ \A x \in DOMAIN nets : nets[x].driver = <<m, u>> => x = name
    BY <1>2, <1>3, NetOfTerm
  <2> QED
    BY <2>1
<1>5. t \notin UsedTerms(n)
  <2>1. \A i, j : Output(i) # Clock(j) /\ Output(i) # Reset(j) /\ Output(i) # Input(j)
    BY DEF Output, Clock, Reset, Input
  <2> QED
    BY <1>1, <2>1, GateTerms DEF UsedTerms
<1>6. \A k \in Node : n \in Range(sinks[k]) => k \in Range(sources[n])
  BY <1>1, EndsOf
<1>7. \A k \in Range(sources[n]) : term[n][k] = t => k = m
  BY <1>1, GateTerms
<1>8. \A x : x \in Holders(n, t) <=> x = name
  <2> SUFFICES ASSUME NEW x PROVE x \in Holders(n, t) <=> x = name
    OBVIOUS
  <2> HIDE DEF t
  <2>1. x \in Holders(n, t) <=>
           /\ x \in DOMAIN nets
           /\ \E k \in Node : \E v :
                /\ nets[x].driver = <<k, v>> /\ v \in UsedTerms(k)
                /\ \/ k = n /\ v = t
                   \/ n \in Range(sinks[k]) /\ term[k][n] = v /\ term[n][k] = t
    BY <1>1, HoldersAre
  <2>2. ASSUME x \in Holders(n, t) PROVE x = name
    <3>1. PICK k, v :
            /\ k \in Node
            /\ x \in DOMAIN nets /\ nets[x].driver = <<k, v>> /\ v \in UsedTerms(k)
            /\ \/ k = n /\ v = t
               \/ n \in Range(sinks[k]) /\ term[k][n] = v /\ term[n][k] = t
      BY <2>1, <2>2
    <3>2. k = m /\ v = u
      BY <1>5, <1>6, <1>7, <3>1
    <3> QED
      BY <1>4, <3>1, <3>2
  <2>3. ASSUME x = name PROVE x \in Holders(n, t)
    BY <1>2, <1>3, <1>4, <2>1, <2>3 DEF t
  <2> QED
    BY <2>2, <2>3
<1> QED
  BY <1>2, <1>4, <1>8

\* A pin that a single net names is written with that net, and only with it.
LEMMA PinOnNet ==
  ASSUME IInv, pc = "done", NEW n \in Gates, NEW t
  PROVE  /\ t \notin Range(term[n]) => NetsOn(n, t) = {}
         /\ \A name \in DOMAIN nets :
              t \in Range(term[n]) /\ Holders(n, t) = {name} => NetsOn(n, t) = {name}
<1>1. /\ \A p \in pins[n] : /\ p[1] \in Range(term[n])
                            /\ \A name \in DOMAIN nets : Holders(n, p[1]) = {name} => p[2] = name
      /\ t \in Range(term[n]) => \E p \in pins[n] : p[1] = t
  BY DEF IInv, PinsRight
<1>2. \A x : x \in NetsOn(n, t) <=> \E p \in pins[n] : p[1] = t /\ p[2] = x
  BY DEF NetsOn
<1> QED
  BY <1>1, <1>2

\* An instance's outputs are written on the nets it drives.
LEMMA NetsDriven ==
  ASSUME IInv, pc = "done", NoMutual, NEW n \in Gates, NEW x
  PROVE  x \in NetsOut(n) <=> x \in DOMAIN nets /\ nets[x].driver[1] = n
<1>1. Netting /\ n \in Node /\ NetsRight
  BY NodeFacts DEF Netting, IInv
<1>2. x \in NetsOut(n) <=> \E i \in 1..Outs[master[n]] : x \in NetsOn(n, Output(i))
  BY DEF NetsOut
<1>3. ASSUME x \in NetsOut(n) PROVE x \in DOMAIN nets /\ nets[x].driver[1] = n
  <2>1. PICK i \in 1..Outs[master[n]] : x \in NetsOn(n, Output(i))
    BY <1>2, <1>3
  <2>2. Output(i) \in Range(term[n])
    BY <2>1, PinOnNet
  <2>3. PICK name \in DOMAIN nets :
          /\ Holders(n, Output(i)) = {name}
          /\ nets[name].driver = <<n, Output(i)>>
    BY <2>2, OutputHeld
  <2>4. x = name
    BY <2>1, <2>2, <2>3, PinOnNet
  <2> QED
    BY <2>3, <2>4
<1>4. ASSUME x \in DOMAIN nets, nets[x].driver[1] = n PROVE x \in NetsOut(n)
  <2>1. PICK t : nets[x].driver = <<n, t>> /\ t \in UsedTerms(n)
    BY <1>1, <1>4 DEF NetsRight, IsMade
  <2>2. PICK m \in Range(sinks[n]) : t = term[n][m]
    BY <2>1 DEF UsedTerms
  <2>3. PICK i \in 1..Outs[master[n]] : t = Output(i)
    BY <1>1, <2>2, GateTerms
  <2>4. t \in Range(term[n])
    BY <1>1, <2>2, GateTerms DEF Range
  <2>5. PICK name \in DOMAIN nets :
          /\ Holders(n, Output(i)) = {name}
          /\ nets[name].driver = <<n, Output(i)>>
    BY <2>3, <2>4, OutputHeld
  <2>6. x = name
    BY <1>1, <1>4, <2>1, <2>3, <2>5 DEF NetsRight
  <2> QED
    BY <1>2, <2>3, <2>4, <2>5, <2>6, PinOnNet
<1> QED
  BY <1>3, <1>4

\* An instance's pin for a driver is written on the driver's net, and a net of
\* an input has its name.
LEMMA DriverReached ==
  ASSUME IInv, pc = "done", NoMutual, NEW n \in Gates, NEW m \in Range(sources[n])
  PROVE  /\ m \in Node /\ ~ IsOutput(m)
         /\ \E name \in DOMAIN nets :
              /\ NetsOn(n, term[n][m]) = {name}
              /\ nets[name].driver[1] = m
              /\ IsInput(m) => name = Port(m)
<1>1. Netting /\ n \in Node
  BY NodeFacts DEF Netting
<1>2. m \in Node /\ n \in Range(sinks[m])
  BY InputHeld
<1>3. PICK name \in DOMAIN nets :
        /\ Holders(n, term[n][m]) = {name}
        /\ nets[name].driver = <<m, term[m][n]>>
        /\ Named(name, <<m, term[m][n]>>)
  BY InputHeld
<1>4. term[n][m] \in Range(term[n])
  BY <1>1, GateTerms DEF Range
<1>5. NetsOn(n, term[n][m]) = {name}
  BY <1>3, <1>4, PinOnNet
<1>6. ~ IsOutput(m)
  BY <1>1, <1>2, EndsOf
<1>7. nets[name].driver[1] = m /\ (IsInput(m) => name = Port(m))
  BY <1>3 DEF Named
<1> QED
  BY <1>2, <1>5, <1>6, <1>7
-----------------------------------------------------------------------------
\* A driver's pin and its load's pin for it are on the net of that output term.
LEMMA EdgesInv == IInv => EdgesWritten
<1> SUFFICES ASSUME IInv, pc = "done", NoMutual,
                    NEW n \in Gates, NEW m \in Range(sources[n]) \ {clkIn, rstIn}
             PROVE  (IF m \in Gates THEN NetsOut(m) ELSE {Port(m)}) \cap NetsIn(n) # {}
  BY DEF EdgesWritten
<1>1. Netting
  BY DEF Netting
<1>2. PICK i \in 1..Ins[master[n]] : term[n][m] = Input(i)
  BY <1>1, GateTerms
<1>3. m \in Node /\ ~ IsOutput(m)
  BY DriverReached
<1>4. PICK name \in DOMAIN nets :
        /\ NetsOn(n, term[n][m]) = {name}
        /\ nets[name].driver[1] = m
        /\ IsInput(m) => name = Port(m)
  BY DriverReached
<1>5. name \in NetsIn(n)
  <2>1. name \in NetsOn(n, Input(i))
    BY <1>2, <1>4
  <2> QED
    BY <2>1 DEF NetsIn
<1>6. CASE m \in Gates
  <2>1. name \in NetsOut(m)
    BY <1>4, <1>6, NetsDriven
  <2> QED
    BY <1>5, <1>6, <2>1
<1>7. CASE m \notin Gates
  <2>1. IsInput(m)
    BY <1>3, <1>7, GateUnlessPort
  <2>2. name = Port(m)
    BY <1>4, <2>1
  <2> QED
    BY <1>5, <1>7, <2>2
<1> QED
  BY <1>6, <1>7

\* A net has one output term of one node; it has the name of a port of the design
\* that drives it only if that node is the port.
LEMMA DriverInv == IInv => OneDriver
<1> SUFFICES ASSUME IInv, pc = "done", NoMutual, NEW name \in DOMAIN nets
             PROVE  Cardinality({n \in Node : IsInput(n) /\ Port(n) = name})
                      + Cardinality({n \in Gates : name \in NetsOut(n)}) = 1
  BY DEF OneDriver
<1> DEFINE ports == {n \in Node : IsInput(n) /\ Port(n) = name}
           outputs == {n \in Gates : name \in NetsOut(n)}
<1>1. Netting
  BY DEF Netting
<1>2. PICK k \in Node : nets[name].driver[1] = k /\ \E u : /\ u \in UsedTerms(k)
                                                         /\ Named(name, <<k, u>>)
  BY DEF IInv, NetsRight, IsMade
<1>3. PICK u : u \in UsedTerms(k) /\ Named(name, <<k, u>>)
  BY <1>2
<1>4. ~ IsOutput(k)
  <2>1. PICK m : m \in Range(sinks[k])
    BY <1>3 DEF UsedTerms
  <2> QED
    BY <1>1, <2>1, EndsOf
<1>5. outputs = {n \in Gates : n = k}
  BY <1>2, NetsDriven
<1>6. CASE IsInput(k)
  <2>1. k \notin Gates
    <3>1. \A n \in Gates : n \in 1..Cnt /\ Type[n] # "PrimaryIn"
      BY DEF Gates, Sequential
    <3> QED
      BY <1>6, <3>1, NodeFacts DEF IsInput
  <2>2. outputs = {}
    BY <1>5, <2>1
  <2>3. name = Port(k)
    BY <1>3, <1>6 DEF Named
  <2>4. ports = {k}
    BY <1>6, <2>3 DEF Port
  <2> HIDE DEF ports, outputs
  <2>5. Cardinality(ports) = 1 /\ Cardinality(outputs) = 0
    BY <2>2, <2>4, FS_Singleton, FS_EmptySet
  <2> QED
    BY <2>5 DEF ports, outputs
<1>7. CASE ~ IsInput(k)
  <2>1. outputs = {k}
    BY <1>4, <1>5, <1>7, GateUnlessPort
  <2>2. ports = {}
    <3> SUFFICES ASSUME NEW n \in Node, IsInput(n), Port(n) = name PROVE FALSE
      OBVIOUS
    <3>1. \A j : <<"net", j>> # Port(n)
      BY DEF Port
    <3>2. PICK o \in Range(sinks[k]) : IsOutput(o) /\ Port(o) = Port(n)
      BY <1>3, <1>7, <3>1 DEF Named
    <3>3. o = n
      BY <3>2 DEF Port
    <3> QED
      BY <1>1, <3>2, <3>3, EndsOf
  <2> HIDE DEF ports, outputs
  <2>3. Cardinality(ports) = 0 /\ Cardinality(outputs) = 1
    BY <2>1, <2>2, FS_Singleton, FS_EmptySet
  <2> QED
    BY <2>3 DEF ports, outputs
<1> QED
  BY <1>6, <1>7

\* The terms of an instance, whether or not it drives one of its drivers
LEMMA GatePins ==
  ASSUME IInv, Netting, NEW n \in Gates
  PROVE  /\ DOMAIN term[n] = Range(sources[n]) \cup Range(sinks[n])
         /\ master[n] \in MasterSet
         /\ \A m \in Range(sinks[n]) : \E i : term[n][m] = Output(i)
         /\ \A m \in DOMAIN term[n] :
              \/ m = clkIn /\ term[n][m] = Clock(Clks[master[n]])
              \/ m = rstIn /\ term[n][m] = Reset(Rsts[master[n]])
              \/ \E i : term[n][m] = Input(i) \/ term[n][m] = Output(i)
<1>1. n \in Node /\ HandedRight(n) /\ TypeOK /\ Waiting = {}
  BY NodeFacts, NettingFacts
<1>2. master[n] \in MasterSet
  BY <1>1 DEF TypeOK, Waiting
<1>3. /\ \A t \in Range(InTerms(n)) : \E i : t = Input(i)
      /\ \A t \in Range(OutTerms(n)) : \E i : t = Output(i)
  <2>1. /\ InTerms(n) = [i \in 1..Ins[master[n]] |-> Input(i)]
        /\ OutTerms(n) = [i \in 1..Outs[master[n]] |-> Output(i)]
    BY DEF InTerms, OutTerms
  <2> QED
    BY <2>1 DEF Range
<1>4. \A m \in Range(sinks[n]) : \E i : term[n][m] = Output(i)
  BY <1>1, <1>3 DEF HandedRight
<1>5. ASSUME NEW m \in Range(sources[n]) \ Range(sinks[n])
      PROVE  \/ m = clkIn /\ term[n][m] = Clock(Clks[master[n]])
             \/ m = rstIn /\ term[n][m] = Reset(Rsts[master[n]])
             \/ \E i : term[n][m] = Input(i)
  BY <1>1, <1>3 DEF HandedRight
<1> QED
  BY <1>1, <1>2, <1>4, <1>5 DEF HandedRight

\* The last clock pin of an instance is on the net of the clock only, and the last
\* reset pin on that of the reset.
LEMMA ControlHeld ==
  ASSUME IInv, pc = "done", NEW n \in Gates, NEW c \in Range(sources[n]),
         c \in {clkIn, rstIn}
  PROVE  NetsOn(n, term[n][c]) = {Port(c)}
<1>1. Netting /\ n \in Node /\ TypeOK /\ Connected
  BY NodeFacts, NettingFacts DEF Netting
<1> DEFINE t == term[n][c]
           u == term[c][n]
<1>2. c \in Node /\ n \in Range(sinks[c]) /\ IsInput(c)
  BY <1>1, NodeFacts DEF Connected, IsInput
<1>3. c \notin Range(sinks[n])
  BY <1>1, SinksOfNode, NodeFacts
<1>4. c \in DOMAIN term[n]
  BY <1>1, GatePins
<1>5. \A i, j, k : /\ Clock(i) # Reset(j) /\ Clock(i) # Input(k) /\ Clock(i) # Output(k)
                   /\ Reset(j) # Input(k) /\ Reset(j) # Output(k)
  BY DEF Clock, Reset, Input, Output
<1>6. t = IF c = clkIn THEN Clock(Clks[master[n]]) ELSE Reset(Rsts[master[n]])
  BY <1>1, NettingFacts, NodeFacts DEF HandedRight
<1>7. \A m \in DOMAIN term[n] : term[n][m] = t => m = c
  BY <1>1, <1>4, <1>5, <1>6, GatePins
<1>8. t \notin UsedTerms(n)
  BY <1>1, <1>5, <1>6, GatePins DEF UsedTerms
<1>9. u \in UsedTerms(c)
  BY <1>2 DEF UsedTerms
<1>10. PICK name \in DOMAIN nets :
         /\ nets[name].driver = <<c, u>> /\ Named(name, <<c, u>>)
         /\ \A x \in DOMAIN nets : nets[x].driver = <<c, u>> => x = name
  <2> HIDE DEF u
  <2>1. PICK name \in DOMAIN nets :
           /\ nets[name] = [driver |-> <<c, u>>, loads |-> LoadsOf(<<c, u>>)]
           /\ Named(name, <<c, u>>)
           /\ \A x \in DOMAIN nets : nets[x].driver = <<c, u>> => x = name
    BY <1>2, <1>9, NetOfTerm
  <2> QED
    BY <2>1
<1>11. name = Port(c)
  BY <1>2, <1>10 DEF Named
<1>12. \A k \in Node : n \in Range(sinks[k]) => k \in DOMAIN term[n]
  BY <1>1, EndsOf, GatePins
<1>13. \A x : x \in Holders(n, t) <=> x = name
  <2> SUFFICES ASSUME NEW x PROVE x \in Holders(n, t) <=> x = name
    OBVIOUS
  <2> HIDE DEF t
  <2>1. x \in Holders(n, t) <=>
           /\ x \in DOMAIN nets
           /\ \E k \in Node : \E v :
                /\ nets[x].driver = <<k, v>> /\ v \in UsedTerms(k)
                /\ \/ k = n /\ v = t
                   \/ n \in Range(sinks[k]) /\ term[k][n] = v /\ term[n][k] = t
    BY <1>1, HoldersAre
  <2>2. ASSUME x \in Holders(n, t) PROVE x = name
    <3>1. PICK k, v :
            /\ k \in Node
            /\ x \in DOMAIN nets /\ nets[x].driver = <<k, v>> /\ v \in UsedTerms(k)
            /\ \/ k = n /\ v = t
               \/ n \in Range(sinks[k]) /\ term[k][n] = v /\ term[n][k] = t
      BY <2>1, <2>2
    <3>2. k = c /\ v = u
      BY <1>7, <1>8, <1>12, <3>1
    <3> QED
      BY <1>10, <3>1, <3>2
  <2>3. ASSUME x = name PROVE x \in Holders(n, t)
    BY <1>2, <1>9, <1>10, <2>1, <2>3 DEF t
  <2> QED
    BY <2>2, <2>3
<1>14. t \in Range(term[n])
  BY <1>4 DEF Range
<1> HIDE DEF t
<1>15. NetsOn(n, t) = {name}
  BY <1>10, <1>13, <1>14, PinOnNet
<1> QED
  BY <1>11, <1>15 DEF t

\* Clock and reset have nets of their own names; an instance keeps one term for
\* each of them.
LEMMA ControlsInv == IInv => ControlsWritten
<1> SUFFICES ASSUME IInv, pc = "done", NEW n \in Gates
             PROVE  /\ \A i \in 1..Clks[master[n]] :
                         NetsOn(n, Clock(i)) = IF i = Clks[master[n]] THEN {Port(clkIn)} ELSE {}
                    /\ \A i \in 1..Rsts[master[n]] :
                         NetsOn(n, Reset(i)) = IF i = Rsts[master[n]] THEN {Port(rstIn)} ELSE {}
  BY DEF ControlsWritten
<1>1. Netting /\ n \in Node
  BY NodeFacts DEF Netting
<1>2. master[n] \in MasterSet /\ Clks[master[n]] \in Nat /\ Rsts[master[n]] \in Nat
  BY <1>1, GatePins, MasterAssumption
<1>3. /\ Clks[master[n]] > 0 => clkIn \in Range(sources[n])
      /\ Rsts[master[n]] > 0 => rstIn \in Range(sources[n])
  <2>1. Range(sources[n]) \cap {clkIn, rstIn} = Range(Controls(n))
    BY <1>1, NettingFacts DEF Connected
  <2> QED
    BY <1>1, <2>1, NettingFacts, ControlsOf
<1>4. \A i, j, k : /\ Clock(i) # Reset(j) /\ Clock(i) # Input(k) /\ Clock(i) # Output(k)
                   /\ Reset(j) # Input(k) /\ Reset(j) # Output(k)
                   /\ (Clock(i) = Clock(k) => i = k) /\ (Reset(j) = Reset(k) => j = k)
  BY DEF Clock, Reset, Input, Output
<1>5. \A m \in DOMAIN term[n] :
        /\ \A i : term[n][m] = Clock(i) => i = Clks[master[n]]
        /\ \A i : term[n][m] = Reset(i) => i = Rsts[master[n]]
  BY <1>1, <1>4, GatePins
<1>6. ASSUME NEW i \in 1..Clks[master[n]]
      PROVE  NetsOn(n, Clock(i)) = IF i = Clks[master[n]] THEN {Port(clkIn)} ELSE {}
  <2>1. CASE i = Clks[master[n]]
    <3>1. clkIn \in Range(sources[n])
      BY <1>2, <1>3
    <3>2. term[n][clkIn] = Clock(i)
      BY <1>1, <2>1, <3>1, NettingFacts DEF HandedRight
    <3>3. NetsOn(n, term[n][clkIn]) = {Port(clkIn)}
      BY <3>1, ControlHeld
    <3> QED
      BY <2>1, <3>2, <3>3
  <2>2. CASE i # Clks[master[n]]
    <3>1. Clock(i) \notin Range(term[n])
      BY <1>5, <2>2 DEF Range
    <3> QED
      BY <2>2, <3>1, PinOnNet
  <2> QED
    BY <2>1, <2>2
<1>7. ASSUME NEW i \in 1..Rsts[master[n]]
      PROVE  NetsOn(n, Reset(i)) = IF i = Rsts[master[n]] THEN {Port(rstIn)} ELSE {}
  <2>1. CASE i = Rsts[master[n]]
    <3>1. rstIn \in Range(sources[n])
      BY <1>2, <1>3
    <3>2. term[n][rstIn] = Reset(i)
      BY <1>1, <2>1, <3>1, NettingFacts, NodeFacts DEF HandedRight
    <3>3. NetsOn(n, term[n][rstIn]) = {Port(rstIn)}
      BY <3>1, ControlHeld
    <3> QED
      BY <2>1, <3>2, <3>3
  <2>2. CASE i # Rsts[master[n]]
    <3>1. Reset(i) \notin Range(term[n])
      BY <1>5, <2>2 DEF Range
    <3> QED
      BY <2>2, <3>1, PinOnNet
  <2> QED
    BY <2>1, <2>2
<1> QED
  BY <1>6, <1>7

\* The drivers of a node take all its signal inputs.
LEMMA PinsInv == IInv => PinsWrittenUnlessMutual
<1>1. ASSUME IInv, NoMutual PROVE PinsWritten
  <2> SUFFICES ASSUME pc = "done", NEW n \in Gates, NEW i \in 1..Ins[master[n]]
               PROVE  NetsOn(n, Input(i)) # {}
    BY DEF PinsWritten
  <2>1. Netting
    BY DEF Netting
  <2>2. PICK m \in Range(sources[n]) : term[n][m] = Input(i)
    BY <1>1, <2>1, GateTerms
  <2> QED
    BY <1>1, <2>2, DriverReached
<1> QED
  BY <1>1, ControlsInv DEF PinsWrittenUnlessMutual

\* Every connection of the graph is a net of the written netlist, from an output
\* of the driver, or the port it is, to a signal input of the load, as long as no
\* two instances drive each other: nothing that mappingTerms, term2net and
\* writeVerilog hand on to each other is lost.
THEOREM ConnectionsWritten == Spec => []EdgesWritten
BY EdgesInv, MappingInvariant, PTL

\* No net of the written netlist has two drivers, and none has no driver: names
\* taken from ports and from the running number never meet.
THEOREM NetsHaveOneDriver == Spec => []OneDriver
BY DriverInv, MappingInvariant, PTL

\* Every signal input of every instance is on a net, as long as no two instances
\* drive each other; and of the clock and the reset pins of an instance the last is
\* on the clock and on the reset while the others are not written.
THEOREM PinsGetTheirNets == Spec => []PinsWrittenUnlessMutual
BY PinsInv, MappingInvariant, PTL
===============================================================================
