----------------------------- MODULE DbNetwork ------------------------------
(***************************************************************************)
(* dbNetwork: the network API of the timing engine over one block of the   *)
(* database.  The base class (Network, not part of the repository) answers *)
(* "which pins drive this net" from net_drvr_pin_map_, filled at the first *)
(* question.  Only the edits of dbNetwork keep that map in step.           *)
(*                                                                         *)
(* A pin is an instance terminal or a port of the top instance.  Every     *)
(* master has the same terminals here: swapMaster asks for that, so        *)
(* replaceCell changes nothing this module has.  deletePin of an instance  *)
(* terminal and mergeInto leave the program.  A deleted instance or net    *)
(* leaves a slot that a new one may get, with its address.                 *)
(***************************************************************************)
EXTENDS Integers, FiniteSets

CONSTANTS
  Inst, MTerm,   \* slots of dbInsts, terminals of a master
  OutTerm,       \* the terminals of any output direction
  Port, InPort,  \* names of top level ports, those of any input direction
  Net, NoNet     \* slots of dbNets, the null net

Pin == Inst \X MTerm

ASSUME DbAssumption ==
  /\ OutTerm \subseteq MTerm /\ InPort \subseteq Port
  /\ NoNet \notin Net /\ Pin \cap Port = {}

VARIABLES
  blocks,       \* blocks made so far
  insts, nets,  \* what is in the block: instances, nets
  itermNet,     \* dbITerm::getNet
  bterms,       \* ports in the block
  btermNet,     \* dbBTerm::getNet
  topPorts,     \* ports of top_cell_
  drvrs,        \* net_drvr_pin_map_
  tidy          \* history: every edit so far was one of those drvrs follows

block == <<insts, nets, itermNet, bterms, btermNet>>
dbVars == <<blocks, block, topPorts, drvrs, tidy>>

\* What dbNetwork sees of a block.  A pin of no instance, a port of no name is on no net.
IsBlock(is, ns, pinNet, ports, portNet) ==
  /\ is \subseteq Inst /\ ns \subseteq Net /\ ports \subseteq Port
  /\ pinNet \in [Pin -> ns \cup {NoNet}]
  /\ portNet \in [Port -> ns \cup {NoNet}]
  /\ \A p \in Pin : pinNet[p] # NoNet => p[1] \in is
  /\ \A b \in Port : portNet[b] # NoNet => b \in ports

\* Network::isDriver: an output of a leaf, an input of the top instance
IsDriver(pin) == (pin \in Pin /\ pin[2] \in OutTerm) \/ pin \in InPort

\* DbNetPinIterator, DbNetTermIterator
PinsOf(n) == {p \in Pin : itermNet[p] = n} \cup {b \in Port : btermNet[b] = n}

DriversOf(n) == {pin \in PinsOf(n) : IsDriver(pin)}

\* A pin the map does not have to follow: no driver, or on no net
Loose(pin, net) == IsDriver(pin) => net = NoNet
-----------------------------------------------------------------------------
\* Network::drivers
Drivers(n) ==
  /\ n \in nets \ DOMAIN drvrs
  /\ drvrs' = [m \in DOMAIN drvrs \cup {n} |-> IF m = n THEN DriversOf(n) ELSE drvrs[m]]
  /\ UNCHANGED <<blocks, block, topPorts, tidy>>

MakeInstance(i) ==
  /\ blocks > 0 /\ i \in Inst \ insts
  /\ insts' = insts \cup {i}
  /\ UNCHANGED <<blocks, nets, itermNet, bterms, btermNet, topPorts, drvrs, tidy>>

\* The pins leave their nets, not the map.
DeleteInstance(i) ==
  /\ i \in insts
  /\ insts' = insts \ {i}
  /\ itermNet' = [p \in Pin |-> IF p[1] = i THEN NoNet ELSE itermNet[p]]
  /\ tidy' = (tidy /\ \A p \in Pin : p[1] = i => Loose(p, itermNet[p]))
  /\ UNCHANGED <<blocks, nets, bterms, btermNet, topPorts, drvrs>>

\* Mutant: the map is not told.
InsertNothing(pin, n) == drvrs' = drvrs

\* The end of connect: a driver is inserted if the net's set was asked for.
InsertDriver(pin, n) ==
  drvrs' = [m \in DOMAIN drvrs |->
              IF m = n /\ IsDriver(pin) THEN drvrs[m] \cup {pin} ELSE drvrs[m]]

\* dbITerm::connect and dbBTerm::connect take a connected pin off its net first.
ConnectPin(p, n) ==
  /\ p[1] \in insts /\ n \in nets
  /\ itermNet' = [itermNet EXCEPT ![p] = n]
  /\ InsertDriver(p, n)
  /\ tidy' = (tidy /\ Loose(p, itermNet[p]))
  /\ UNCHANGED <<blocks, insts, nets, bterms, btermNet, topPorts>>

\* A port of top_cell_ that has left the block is created again.
ConnectPort(b, n) ==
  /\ b \in topPorts /\ n \in nets
  /\ bterms' = bterms \cup {b}
  /\ btermNet' = [btermNet EXCEPT ![b] = n]
  /\ InsertDriver(b, n)
  /\ tidy' = (tidy /\ Loose(b, btermNet[b]))
  /\ UNCHANGED <<blocks, insts, nets, itermNet, topPorts>>

\* Mutant: the pin stays in the set.
EraseNothing(p) == drvrs' = drvrs

EraseDriver(p) ==
  drvrs' = [m \in DOMAIN drvrs |->
              IF m = itermNet[p] /\ IsDriver(p) THEN drvrs[m] \ {p} ELSE drvrs[m]]

DisconnectPin(p) ==
  /\ p[1] \in insts
  /\ EraseDriver(p)
  /\ itermNet' = [itermNet EXCEPT ![p] = NoNet]
  /\ UNCHANGED <<blocks, insts, nets, bterms, btermNet, topPorts, tidy>>

\* net(pin) is null for a port, which has a term instead: nothing is erased.
DisconnectPort(b) ==
  /\ b \in bterms
  /\ btermNet' = [btermNet EXCEPT ![b] = NoNet]
  /\ tidy' = (tidy /\ Loose(b, btermNet[b]))
  /\ UNCHANGED <<blocks, insts, nets, itermNet, bterms, topPorts, drvrs>>

DeletePort(b) ==
  /\ b \in bterms
  /\ bterms' = bterms \ {b}
  /\ btermNet' = [btermNet EXCEPT ![b] = NoNet]
  /\ tidy' = (tidy /\ Loose(b, btermNet[b]))
  /\ UNCHANGED <<blocks, insts, nets, itermNet, topPorts, drvrs>>

MakeNet(n) ==
  /\ blocks > 0 /\ n \in Net \ nets
  /\ nets' = nets \cup {n}
  /\ UNCHANGED <<blocks, insts, itermNet, bterms, btermNet, topPorts, drvrs, tidy>>

\* The set goes before the net does.
ForgetNet(n) == drvrs' = [m \in DOMAIN drvrs \ {n} |-> drvrs[m]]

\* dbNet::destroy disconnects the instances' pins and destroys the ports.
DeleteNet(n) ==
  /\ n \in nets
  /\ ForgetNet(n)
  /\ nets' = nets \ {n}
  /\ itermNet' = [p \in Pin |-> IF itermNet[p] = n THEN NoNet ELSE itermNet[p]]
  /\ bterms' = {b \in bterms : btermNet[b] # n}
  /\ btermNet' = [b \in Port |-> IF btermNet[b] = n THEN NoNet ELSE btermNet[b]]
  /\ UNCHANGED <<blocks, insts, topPorts, tidy>>

\* readDefAfter and readDbAfter: another block, whoever made it.  The map is not
\* cleared; which of its keys are addresses of new nets is up to the allocator.
TakeBlock ==
  /\ blocks' = blocks + 1
  /\ topPorts' = bterms'
  /\ \E kept \in SUBSET DOMAIN drvrs : drvrs' = [n \in kept |-> drvrs[n]]
  /\ tidy' = (tidy /\ DOMAIN drvrs = {})

LoadBlock == IsBlock(insts', nets', itermNet', bterms', btermNet') /\ TakeBlock

\* readDbAfter of the block there is
RefreshTopCell ==
  /\ blocks > 0
  /\ topPorts' = bterms
  /\ UNCHANGED <<blocks, block, drvrs, tidy>>

Edit ==
  \/ \E i \in Inst : MakeInstance(i) \/ DeleteInstance(i)
  \/ \E p \in Pin : DisconnectPin(p) \/ \E n \in Net : ConnectPin(p, n)
  \/ \E b \in Port : DisconnectPort(b) \/ DeletePort(b) \/ \E n \in Net : ConnectPort(b, n)
  \/ \E n \in Net : MakeNet(n) \/ DeleteNet(n)

DbInit ==
  /\ blocks = 0
  /\ insts = {} /\ nets = {} /\ bterms = {} /\ topPorts = {}
  /\ itermNet = [p \in Pin |-> NoNet] /\ btermNet = [b \in Port |-> NoNet]
  /\ drvrs = [n \in {} |-> {}]
  /\ tidy = TRUE

DbNext == (\E n \in Net : Drivers(n)) \/ Edit \/ LoadBlock \/ RefreshTopCell

DbSpec == DbInit /\ [][DbNext]_dbVars
-----------------------------------------------------------------------------
DbTypeOK ==
  /\ blocks \in Nat
  /\ IsBlock(insts, nets, itermNet, bterms, btermNet)
  /\ topPorts \subseteq Port
  /\ DOMAIN drvrs \subseteq Net /\ \A n \in DOMAIN drvrs : drvrs[n] \subseteq Pin \cup Port
  /\ tidy \in BOOLEAN

\* Whatever the edits and whenever the engine first asked, no driver of a net is
\* missing from its set, so no arc into the net is lost.  With a second block
\* this ends: its nets may find sets of the first one under their addresses.
DriversComplete ==
  blocks <= 1 => \A n \in DOMAIN drvrs : DriversOf(n) \subseteq drvrs[n]

\* The map holds the drivers and nothing else, if every driver is disconnected
\* before it is connected elsewhere or its instance deleted, no driving port is
\* disconnected or deleted, and no block is replaced.  The edits do not ask
\* for any of that.
DriversExact ==
  tidy => \A n \in DOMAIN drvrs : n \in nets /\ drvrs[n] = DriversOf(n)
=============================================================================
