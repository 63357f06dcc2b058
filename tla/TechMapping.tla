----------------------------- MODULE TechMapping -----------------------------
(***************************************************************************)
(* Netlist::technologyMapping and ArtNetGen::writeVerilog.  Every logic    *)
(* node gets a master with as many signal inputs as the node has drivers,  *)
(* the masters of one kind taking turns.  Then each node hands its terms   *)
(* to its neighbours, one net is made per used output term, and the pins   *)
(* are written out.                                                        *)
(*                                                                         *)
(* Nodes are numbered as in nodes_: 1..Cnt come from the construction of   *)
(* timing paths, the clock and the reset are pushed behind them.  A term   *)
(* is "PIN" or a pin of a master: a signal pin <<"in", i>> or <<"out", i>>, *)
(* a clock pin <<"clk", i>> or a reset pin <<"rst", i>>.                   *)
(***************************************************************************)
EXTENDS Integers, Sequences, FiniteSets, FiniteSetsExt, Functions, SequencesExt, Common

CONSTANTS
  Cnt,            \* nodes_.size() when mapping starts
  Type,           \* node |-> NodeType
  Netlists,       \* the sets of connections <<driver, load>> to be mapped
  Masters,        \* fi2CombMasters_ and fi2SequMasters_ in file order
  Ins, Outs,      \* master |-> number of its signal inputs and outputs
  Clks, Rsts,     \* master |-> number of its clock and reset inputs
  Share           \* master |-> ratio of the ONLY_USE line, times 100

clkIn == Cnt + 1
rstIn == Cnt + 2
Node == 1..(Cnt + 2)
MasterSet == Range(Masters)
NoMaster == "none"
Sequential == "Sequential"

\* Terms of the nodes; the pins of a kind are numbered.
PIN == <<"PIN", 0>>
Clock(i) == <<"clk", i>>
Reset(i) == <<"rst", i>>
Input(i) == <<"in", i>>
Output(i) == <<"out", i>>

\* checkMasters and initOnlyUseMasters keep no master without an output; the
\* shares of an ONLY_USE list are positive.  The list has no master twice: where
\* it has, the shares of its kind may be used up too early (RoomForAll of module
\* Session).
ASSUME MasterAssumption ==
  /\ Masters \in Seq(MasterSet) /\ IsInjective(Masters) /\ NoMaster \notin MasterSet
  /\ Ins \in [MasterSet -> Nat] /\ Outs \in [MasterSet -> Nat \ {0}]
  /\ Clks \in [MasterSet -> Nat] /\ Rsts \in [MasterSet -> Nat]
  /\ Share \in [MasterSet -> Nat \ {0}]

ASSUME NodeAssumption ==
  /\ Cnt \in Nat
  /\ Type \in [1..Cnt -> {"PrimaryIn", "PrimaryOut", "Combinational", "Sequential"}]
  /\ \A E \in Netlists : E \subseteq (1..Cnt) \X (1..Cnt)

VARIABLES
  sources, sinks,   \* sources_ and sinks_ of a node
  master,           \* master_ of a node
  turn,             \* idxIter of each kind of node
  term,             \* node2term_: neighbour |-> term, per node
  nets,             \* name2net: name |-> driver and loads, with their terms
  netCnt,           \* number in the name of the next unnamed net
  pos,              \* loop index
  outTerms,         \* keys of out2sinks still to be turned into nets
  pins,             \* the instances written: gate |-> set of <<term, net>>
  pc                \* "assign", "terms", "nets", "write", "done",
                    \*   "crash" (no master to index), "exit" (a check failed)

graph == <<sources, sinks>>
naming == <<nets, netCnt, outTerms>>
vars == <<graph, master, turn, term, naming, pos, pins, pc>>

Gates == {n \in 1..Cnt : Type[n] \in {"Combinational", Sequential}}
-----------------------------------------------------------------------------
\* A kind is a number of drivers and whether it is a register: the nodes of
\* fi2SequNodes[fi] or fi2CombNodes[fi] and the masters of the same index.
Kind(n) == <<Len(sources[n]), Type[n] = Sequential>>
HasClk(m) == Clks[m] > 0
MastersOf(kind) ==
  LET at == Ascending({i \in DOMAIN Masters : <<Ins[Masters[i]], HasClk(Masters[i])>> = kind})
  IN  [k \in DOMAIN at |-> Masters[at[k]]]
Kinds == (0..Cnt) \X BOOLEAN

NodesOf(kind) == {n \in Gates : Kind(n) = kind}
Used(m) == Cardinality({n \in Gates : master[n] = m})

\* Mutant: the share is rounded down.
TargetDown(kind, m) ==
  (Share[m] * Cardinality(NodesOf(kind)))
    \div SumFunctionOnSet(Share, Range(MastersOf(kind)))

\* targetCnt: the master's share of the nodes of its kind, rounded up
Target(kind, m) ==
  CeilDiv(Share[m] * Cardinality(NodesOf(kind)),
          SumFunctionOnSet(Share, Range(MastersOf(kind))))

HasRoom(kind, m) == Used(m) < Target(kind, m)

\* The nodes without a master in the order of the loops: by number of drivers,
\* registers first, then by position in nodes_.
Waiting == {n \in Gates : master[n] = NoMaster}
Before(m, n) ==
  \/ Kind(m)[1] < Kind(n)[1]
  \/ Kind(m)[1] = Kind(n)[1] /\ Kind(m)[2] /\ ~ Kind(n)[2]
  \/ Kind(m) = Kind(n) /\ m < n
NextNode == CHOOSE n \in Waiting : \A m \in Waiting \ {n} : Before(n, m)

\* idxIter after k masters were passed over
Advance(i, k, len) == (i + k + 1) % len

\* One turn of the for loop: `while' looks for the next master with room, from
\* idxIter on and around.  Without any master the index is out of bounds.
AssignMaster ==
  LET n == NextNode
      list == MastersOf(Kind(n))
      At(k) == list[((turn[Kind(n)] + k) % Len(list)) + 1]
  IN  /\ pc = "assign" /\ Waiting # {}
      /\ IF list = <<>>
         THEN pc' = "crash" /\ UNCHANGED <<master, turn>>
         ELSE \E k \in 0..(Len(list) - 1) :
                /\ HasRoom(Kind(n), At(k))
                /\ \A j \in 0..(k - 1) : ~ HasRoom(Kind(n), At(j))
                /\ master' = [master EXCEPT ![n] = At(k)]
                /\ turn' = [turn EXCEPT ![Kind(n)] = Advance(@, k, Len(list))]
                /\ UNCHANGED pc
      /\ UNCHANGED <<graph, term, naming, pos, pins>>

StartTerms ==
  /\ pc = "assign" /\ Waiting = {}
  /\ pc' = "terms"
  /\ UNCHANGED <<graph, master, turn, term, naming, pos, pins>>
-----------------------------------------------------------------------------
\* inSigTerms_ and outSigTerms_ of a node
InTerms(n) ==
  IF n \in Gates THEN [i \in 1..Ins[master[n]] |-> Input(i)]
  ELSE IF n <= Cnt /\ Type[n] = "PrimaryOut" THEN <<PIN>> ELSE <<>>
OutTerms(n) ==
  IF n \in Gates THEN [i \in 1..Outs[master[n]] |-> Output(i)]
  ELSE IF n <= Cnt /\ Type[n] = "PrimaryOut" THEN <<>> ELSE <<PIN>>

\* Drivers take the inputs one by one, loads the outputs in equal runs.
InTerm(n, m) == InTerms(n)[CHOOSE i \in DOMAIN sources[n] : sources[n][i] = m]
OutTerm(n, m) ==
  LET run == CeilDiv(Len(sinks[n]), Len(OutTerms(n)))
      i == CHOOSE i \in DOMAIN sinks[n] : sinks[n][i] = m
  IN  OutTerms(n)[((i - 1) \div run) + 1]

\* Mutant: the reset pins are forgotten.
ControlsClock(n) ==
  IF n \notin Gates THEN <<>> ELSE [i \in 1..Clks[master[n]] |-> clkIn]

\* Each clock and each reset pin makes the node a load of the clock or the reset.
Controls(n) ==
  IF n \notin Gates THEN <<>>
  ELSE [i \in 1..Clks[master[n]] |-> clkIn] \o [i \in 1..Rsts[master[n]] |-> rstIn]

\* addSink, once for each of these pins
Fed(n, m) == [i \in 1..Cardinality({j \in DOMAIN Controls(n) : Controls(n)[j] = m}) |-> n]

\* node2term_ after the loops of mappingTerms.  There is one map: what the loop
\* over the loads puts there overwrites what is there of a driver, and each clock
\* or reset pin the one before it.
HandedOut(n) ==
  [m \in Range(sources[n]) \cup Range(sinks[n]) \cup Range(Controls(n)) |->
     CASE m = clkIn -> Clock(Clks[master[n]]) [] m = rstIn -> Reset(Rsts[master[n]])
       [] m <= Cnt /\ m \in Range(sinks[n]) -> OutTerm(n, m)
       [] OTHER -> InTerm(n, m)]

\* Node::mappingTerms for the node at pos; its two checks leave the program.
MapTerms ==
  LET n == pos
  IN  /\ pc = "terms" /\ n \in Node
      /\ IF \/ Len(InTerms(n)) # Len(sources[n])
            \/ sinks[n] # <<>> /\ OutTerms(n) = <<>>
         THEN pc' = "exit" /\ UNCHANGED <<graph, term, pos>>
         ELSE /\ term' = [term EXCEPT ![n] = HandedOut(n)]
              /\ sources' = [sources EXCEPT ![n] = @ \o Controls(n)]
              /\ sinks' = [m \in Node |-> sinks[m] \o Fed(n, m)]
              /\ pos' = n + 1
              /\ UNCHANGED pc
      /\ UNCHANGED <<master, turn, naming, pins>>

\* The keys of out2sinks: Node::getTerm of each sink
UsedTerms(n) == {term[n][m] : m \in Range(sinks[n])}

StartNets ==
  /\ pc = "terms" /\ pos \notin Node
  /\ pc' = "nets"
  /\ pos' = 1
  /\ outTerms' = UsedTerms(1)
  /\ UNCHANGED <<graph, master, turn, term, nets, netCnt, pins>>
-----------------------------------------------------------------------------
IsInput(n) == n \in {clkIn, rstIn} \/ Type[n] = "PrimaryIn"
Port(n) == <<"port", n>>
IsOutput(n) == n <= Cnt /\ Type[n] = "PrimaryOut"

\* Mutant: an output's name goes before the name of an input.
NetNameOutput(n, outs) ==
  IF outs # {} THEN Port(sinks[n][Max(outs)])
  ELSE IF IsInput(n) THEN Port(n) ELSE <<"net", netCnt>>

\* A net has the name of the input, of the last primary output it reaches, or
\* else of a running number.
NetName(n, outs) ==
  IF IsInput(n) THEN Port(n)
  ELSE IF outs # {} THEN Port(sinks[n][Max(outs)]) ELSE <<"net", netCnt>>

\* Mutant: only nets with a name of their own are counted.
NextNumberNamed(numbered) == IF numbered THEN netCnt ELSE netCnt + 1

\* netCnt after a net
NextNumber(numbered) == IF numbered THEN netCnt + 1 ELSE netCnt

\* The net of one output term of the node at pos, out2sinks being unordered
BuildNet(t) ==
  LET n == pos
      loads == {i \in DOMAIN sinks[n] : term[n][sinks[n][i]] = t}
      outs == {i \in loads : IsOutput(sinks[n][i])}
      name == NetName(n, outs)
      old == IF name \in DOMAIN nets THEN nets[name]
             ELSE [driver |-> <<n, t>>, loads |-> {}]
      net == [old EXCEPT !.loads = @ \cup {<<sinks[n][i], term[sinks[n][i]][n]>> : i \in loads}]
  IN  /\ pc = "nets" /\ t \in outTerms
      /\ nets' = [x \in DOMAIN nets \cup {name} |-> IF x = name THEN net ELSE nets[x]]
      /\ netCnt' = NextNumber(~ IsInput(n) /\ outs = {})
      /\ outTerms' = outTerms \ {t}
      /\ UNCHANGED <<graph, master, turn, term, pos, pins, pc>>

NextSource ==
  /\ pc = "nets" /\ outTerms = {}
  /\ IF pos + 1 \in Node
     THEN /\ pos' = pos + 1
          /\ outTerms' = UsedTerms(pos + 1)
          /\ UNCHANGED pc
     ELSE /\ pc' = "write"
          /\ UNCHANGED <<pos, outTerms>>
  /\ UNCHANGED <<graph, master, turn, term, nets, netCnt, pins>>

\* The empty name term2net has for a pin that no net names
NoNet == <<"none", 0>>

\* writeVerilog: term2net keeps the last net that names a pin, and name2net has
\* no order.  An instance gets the terms of its drivers and of its loads.
Holders(n, t) ==
  {name \in DOMAIN nets : <<n, t>> \in nets[name].loads \cup {nets[name].driver}}

\* The one that is met last
Latest(order, H) ==
  IF H = {} THEN NoNet
  ELSE IF Cardinality(H) = 1 THEN CHOOSE name \in H : TRUE
  ELSE order[Max({i \in DOMAIN order : order[i] \in H})]

WriteVerilog ==
  LET held == UNION {{Holders(n, t) : t \in Range(term[n])} : n \in Gates}
      contested == UNION {H \in held : Cardinality(H) > 1}
  IN  /\ pc = "write"
      /\ \E order \in SetToSeqs(contested) :
           pins' = [n \in Gates |->
                      {<<t, Latest(order, Holders(n, t))>> : t \in Range(term[n])}]
      /\ pc' = "done"
      /\ UNCHANGED <<graph, master, turn, term, naming, pos>>
-----------------------------------------------------------------------------
Init ==
  /\ \E edges \in Netlists :
       /\ sources = [n \in Node |-> Ascending({m \in 1..Cnt : <<m, n>> \in edges})]
       /\ sinks = [n \in Node |-> Ascending({m \in 1..Cnt : <<n, m>> \in edges})]
  /\ master = [n \in Gates |-> NoMaster]
  /\ turn = [kind \in Kinds |-> 0]
  /\ term = [n \in Node |-> <<>>]
  /\ nets = <<>>
  /\ netCnt = 0
  /\ pos = 1
  /\ outTerms = {}
  /\ pins = <<>>
  /\ pc = "assign"

Next ==
  \/ AssignMaster \/ StartTerms
  \/ MapTerms \/ StartNets
  \/ \E t \in outTerms : BuildNet(t)
  \/ NextSource \/ WriteVerilog

\* One thread runs the loops to their end.
Spec == Init /\ [][Next]_vars /\ WF_vars(Next)
-----------------------------------------------------------------------------
\* The while loop always finds a master with room: the shares rounded up are
\* never used up before the last node of a kind has its master.
RoomLeft ==
  pc = "assign" /\ Waiting # {} =>
    LET masters == Range(MastersOf(Kind(NextNode)))
    IN  masters # {} => \E m \in masters : HasRoom(Kind(NextNode), m)

\* Two nodes that drive each other
Mutual(m, n) == m \in Range(sinks[n]) /\ n \in Range(sinks[m])
NoMutual == \A m, n \in Gates : ~ Mutual(m, n)

NetsOn(n, t) == {p[2] : p \in {q \in pins[n] : q[1] = t}}
NetsOut(n) == UNION {NetsOn(n, Output(i)) : i \in 1..Outs[master[n]]}
NetsIn(n) == UNION {NetsOn(n, Input(i)) : i \in 1..Ins[master[n]]}

\* Every connection of the graph is a net of the written netlist, from the
\* driver's output or port to an input of the load.
EdgesWritten ==
  pc = "done" /\ NoMutual =>
    \A n \in Gates : \A m \in Range(sources[n]) \ {clkIn, rstIn} :
      (IF m \in Gates THEN NetsOut(m) ELSE {Port(m)}) \cap NetsIn(n) # {}

\* No net of the written netlist is driven from two places, and none by nothing.
OneDriver ==
  pc = "done" /\ NoMutual =>
    \A name \in DOMAIN nets :
      LET ports == {n \in Node : IsInput(n) /\ Port(n) = name}
          outputs == {n \in Gates : name \in NetsOut(n)}
      IN  Cardinality(ports) + Cardinality(outputs) = 1

\* Every signal input of every instance is written: mappingTerms has just made
\* sure that there are as many of them as drivers.
PinsWritten ==
  pc = "done" => \A n \in Gates : \A i \in 1..Ins[master[n]] : NetsOn(n, Input(i)) # {}

\* Of the clock and the reset pins of an instance the last is on the clock and on
\* the reset; the others are not written at all.
ControlsWritten ==
  pc = "done" =>
    \A n \in Gates :
      LET clks == Clks[master[n]]
          rsts == Rsts[master[n]]
      IN  /\ \A i \in 1..clks : NetsOn(n, Clock(i)) = IF i = clks THEN {Port(clkIn)} ELSE {}
          /\ \A i \in 1..rsts : NetsOn(n, Reset(i)) = IF i = rsts THEN {Port(rstIn)} ELSE {}

\* All pins of all instances, as long as no two nodes drive each other
PinsWrittenUnlessMutual == (NoMutual => PinsWritten) /\ ControlsWritten

\* What summaryDesign checks of the graph, "#fanin of primary output is not
\* one!", for the netlist that is written: the port has a net of its name.
OutputsDriven == pc = "done" => \A n \in Node : IsOutput(n) => Port(n) \in DOMAIN nets

=============================================================================
