---------------------------- MODULE VerilogLink -----------------------------
(***************************************************************************)
(* Verilog2db: the block made of a linked hierarchical netlist.  Nets of   *)
(* the top module, and nets of other modules that are none of their ports, *)
(* become nets of the block, one after the other; each takes the pins it   *)
(* is connected to through the hierarchy.                                  *)
(*                                                                         *)
(* A design, as linkNetwork leaves it, is a record:                        *)
(*   cell     leaf instance |-> name of its cell                           *)
(*   nets     the nets in the order they are visited, those of the top     *)
(*            module first                                                 *)
(*   top      the nets of the top module                                   *)
(*   binds    <<net, net outside>> for every port of a module's instance,  *)
(*            NoNet outside if the port is left open                       *)
(*   supply   the nets isPower or isGround says are constant               *)
(*   pinNet, portNet   the nets of the leaf pins and of the top ports      *)
(* Names are those of the block: the net made for n is n.                  *)
(***************************************************************************)
EXTENDS DbNetwork, LibraryLink

VARIABLES
  design,    \* what the block was made of
  absent,    \* instances of the design that are not in the block
  warned     \* instances linkNetwork made a black box for, with a warning

linkVars == <<design, absent, warned>>

\* What linkNetwork leaves: pins, ports and bindings are on nets of the design.
IsDesign(d) ==
  LET all == Range(d.nets)
  IN  /\ d.nets \in Seq(Net) /\ d.top \subseteq all /\ d.supply \subseteq all
      /\ d.binds \subseteq all \X (all \cup {NoNet})
      /\ DOMAIN d.cell \subseteq Inst
      /\ DOMAIN d.pinNet \subseteq Pin /\ \A p \in DOMAIN d.pinNet : d.pinNet[p] \in all
      /\ DOMAIN d.portNet \subseteq Port /\ \A b \in DOMAIN d.portNet : d.portNet[b] \in all

\* Nets that a set of nets shares with other modules are in the set.
Closed(d, S) == \A b \in d.binds : b[2] # NoNet => (b[1] \in S <=> b[2] \in S)

\* The nets connectedPinIterator gets to from a net
Joined(d, n) ==
  {m \in Range(d.nets) : \A S \in SUBSET Range(d.nets) : Closed(d, S) /\ n \in S => m \in S}

\* hasTerminals: a port of the module the net is in
HasTerminals(d, n) == \E b \in d.binds : b[1] = n

\* Mutant: only nets of the top module are made.
IsMadeAtTop(d, n) == n \in d.top \ d.supply

IsMade(d, n) == (n \in d.top \/ ~ HasTerminals(d, n)) /\ n \notin d.supply

\* Where the visit meets the nets that are made, and those of them that a net is
\* connected to
MadeAt(d) == {i \in DOMAIN d.nets : IsMade(d, d.nets[i])}
Takers(d, n) == {i \in MadeAt(d) : n \in Joined(d, d.nets[i])}

\* The nets a pin and a port are met on
PinTakers(d, present, p) ==
  IF p \in DOMAIN d.pinNet /\ p[1] \in present THEN Takers(d, d.pinNet[p]) ELSE {}
PortTakers(d, b) == IF b \in DOMAIN d.portNet THEN Takers(d, d.portNet[b]) ELSE {}

\* getMaster
HasMaster(c) == MasterLib(c) # NoLib

\* findAnyCell of dbVerilogNetwork: any cell of dbNetwork will do, linkNetwork
\* makes no black box for it and does not warn.
CellFound(c) == MasterLib(c) # NoLib \/ LibertyOf(c) # NoLib

MakeDbInsts(d) ==
  /\ insts' = {i \in DOMAIN d.cell : HasMaster(d.cell[i])}
  /\ absent' = DOMAIN d.cell \ insts'
  /\ warned' = {i \in DOMAIN d.cell : ~ CellFound(d.cell[i])}

\* Net after net takes the pins it is met with: a pin moves on to the last one, a
\* port stays on its first.
MakeDbNets(d) ==
  /\ nets' = {d.nets[i] : i \in MadeAt(d)}
  /\ itermNet' =
       [p \in Pin |-> LET takers == PinTakers(d, insts', p)
                      IN  IF takers = {} THEN NoNet ELSE d.nets[Max(takers)]]
  /\ btermNet' =
       [b \in Port |-> LET takers == PortTakers(d, b)
                       IN  IF takers = {} THEN NoNet ELSE d.nets[Min(takers)]]
  /\ bterms' = {b \in Port : btermNet'[b] # NoNet}

\* link_design: the block there was is destroyed, then readDbAfter follows.
\* The command wants a technology.  A LEF file may hold nothing else, so it may
\* come when the database has no library, and then leaves out every instance.
LinkDesign(d) ==
  /\ MakeDbInsts(d)
  /\ MakeDbNets(d)
  /\ design' = d
  /\ TakeBlock
  /\ RemakeLibraries

\* No module has the name given: no block is made, but readDbAfter follows.
LinkFails ==
  /\ RefreshTopCell
  /\ RemakeLibraries
  /\ UNCHANGED linkVars
-----------------------------------------------------------------------------
\* Nothing of what a net is joined with is made: it is constant, or no more than
\* the inside of ports left open.
Lost(d, n) ==
  \A m \in Joined(d, n) : m \in d.supply \/ (m \notin d.top /\ HasTerminals(d, m))

\* A module connects several nets that are made with each other.
FedThrough(d, n) == Cardinality({m \in Joined(d, n) : IsMade(d, m)}) > 1

\* The block connects what the hierarchy connects: two pins of instances are on
\* one net exactly if the design connects them, and so are a port and a pin.  Two
\* kinds of design lose connections: pins on a net that is lost are on none, and
\* where a net is fed through, the pins end on the last of its nets that are made
\* and the ports stay on the first.
Flattened ==
  LET d == design
      pins == {p \in DOMAIN d.pinNet : p[1] \in insts}
  IN  /\ \A p, q \in pins :
           itermNet[p] = itermNet[q] /\ itermNet[p] # NoNet
             <=> d.pinNet[q] \in Joined(d, d.pinNet[p]) /\ ~ Lost(d, d.pinNet[p])
      /\ \A b \in DOMAIN d.portNet, p \in pins :
           IF d.pinNet[p] \in Joined(d, d.portNet[b])
           THEN btermNet[b] = itermNet[p] \/ FedThrough(d, d.portNet[b])
           ELSE btermNet[b] # itermNet[p] \/ btermNet[b] = NoNet

\* "OpenSTA read_verilog warns about missing cells", says getMaster where it
\* leaves an instance out.
MissingWarned == absent \subseteq warned
=============================================================================
