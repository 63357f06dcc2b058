-------------------------- MODULE OpenRoad_proofs ----------------------------
(***************************************************************************)
(* Proofs about dbSta and the shell, for every set of instances, pins,     *)
(* nets, libraries and designs, and every sequence of commands.            *)
(*                                                                         *)
(* The map of drivers: the inductive invariant is type correctness, the    *)
(* two properties of the map and Fresh (before the first block there is no *)
(* net and no entry).  The proof looks at one pin at a time: a driver is   *)
(* on one net, and each edit moves one pin, or empties an instance or net. *)
(*                                                                         *)
(* The libraries: LibInv says of every library made, not only of the last  *)
(* one of its LEF file, what its cells are linked to, and that behind it   *)
(* there is one of the last LEF file with the same cell.                   *)
(*                                                                         *)
(* The link: to be joined is an equivalence between nets, so joined nets   *)
(* are met by the same nets of the block, and pins and ports land on the   *)
(* last and the first of these.                                            *)
(***************************************************************************)
EXTENDS OpenRoad, Common_proofs

Fresh == blocks = 0 => nets = {} /\ DOMAIN drvrs = {}

DbInv == DbTypeOK /\ Fresh /\ DriversComplete /\ DriversExact

\* The drivers there may be, and the net a pin is on
Drv == {pin \in Pin \cup Port : IsDriver(pin)}
NetOf(pin) == IF pin \in Pin THEN itermNet[pin] ELSE btermNet[pin]

\* DriversComplete and DriversExact of one entry
Complete(n) == \A pin \in Drv : NetOf(pin) = n => pin \in drvrs[n]
Exact(n) == \A pin \in drvrs[n] : pin \in Drv /\ NetOf(pin) = n
-----------------------------------------------------------------------------
\* The drivers of a net, pin by pin.
LEMMA DriverOn ==
  ASSUME NEW n
  PROVE  DriversOf(n) = {pin \in Drv : NetOf(pin) = n}
BY DbAssumption DEF DriversOf, PinsOf, Drv, NetOf

\* The same for the pins after a step
LEMMA DriverOnAfter ==
  ASSUME NEW n
  PROVE  DriversOf(n)' = {pin \in Drv : NetOf(pin)' = n}
BY DbAssumption DEF DriversOf, PinsOf, Drv, NetOf, IsDriver

\* The two properties, entry by entry.
LEMMA ByEntry ==
  /\ DriversComplete <=> (blocks <= 1 => \A n \in DOMAIN drvrs : Complete(n))
  /\ DriversExact <=>
       (tidy => \A n \in DOMAIN drvrs : n \in nets /\ Complete(n) /\ Exact(n))
<1>1. ASSUME NEW n PROVE Complete(n) <=> DriversOf(n) \subseteq drvrs[n]
  BY DriverOn DEF Complete
<1>2. ASSUME NEW n PROVE Exact(n) <=> drvrs[n] \subseteq DriversOf(n)
  BY DriverOn DEF Exact
<1> QED
  BY <1>1, <1>2 DEF DriversComplete, DriversExact

LEMMA ByEntryAfter ==
  /\ DriversComplete' <=> (blocks' <= 1 => \A n \in DOMAIN drvrs' : Complete(n)')
  /\ DriversExact' <=>
       (tidy' => \A n \in DOMAIN drvrs' : n \in nets' /\ Complete(n)' /\ Exact(n)')
<1>1. ASSUME NEW n PROVE Complete(n)' <=> DriversOf(n)' \subseteq drvrs'[n]
  BY DriverOnAfter DEF Complete, Drv, IsDriver
<1>2. ASSUME NEW n PROVE Exact(n)' <=> drvrs'[n] \subseteq DriversOf(n)'
  BY DriverOnAfter DEF Exact, Drv, IsDriver
<1> QED
  BY <1>1, <1>2 DEF DriversComplete, DriversExact
-----------------------------------------------------------------------------
\* Every step keeps the types, and has no nets or entries before a block.
LEMMA TypeStep == DbTypeOK /\ Fresh /\ [DbNext]_dbVars => DbTypeOK' /\ Fresh'
<1> SUFFICES ASSUME DbTypeOK, Fresh, [DbNext]_dbVars PROVE DbTypeOK' /\ Fresh'
  OBVIOUS
<1> USE DbAssumption DEF DbTypeOK, Fresh, IsBlock, block
<1>1. ASSUME NEW n \in Net, Drivers(n) PROVE DbTypeOK' /\ Fresh'
  <2>1. DriversOf(n) \subseteq Pin \cup Port
    BY DEF DriversOf, PinsOf
  <2> QED
    BY <1>1, <2>1 DEF Drivers
<1>2. ASSUME NEW i \in Inst, MakeInstance(i) PROVE DbTypeOK' /\ Fresh'
  BY <1>2 DEF MakeInstance
<1>3. ASSUME NEW i \in Inst, DeleteInstance(i) PROVE DbTypeOK' /\ Fresh'
  BY <1>3 DEF DeleteInstance, Pin
<1>4. ASSUME NEW p \in Pin, DisconnectPin(p) PROVE DbTypeOK' /\ Fresh'
  BY <1>4 DEF DisconnectPin, EraseDriver
<1>5. ASSUME NEW p \in Pin, NEW n \in Net, ConnectPin(p, n) PROVE DbTypeOK' /\ Fresh'
  BY <1>5 DEF ConnectPin, InsertDriver
<1>6. ASSUME NEW b \in Port, DisconnectPort(b) PROVE DbTypeOK' /\ Fresh'
  BY <1>6 DEF DisconnectPort
<1>7. ASSUME NEW b \in Port, DeletePort(b) PROVE DbTypeOK' /\ Fresh'
  BY <1>7 DEF DeletePort
<1>8. ASSUME NEW b \in Port, NEW n \in Net, ConnectPort(b, n) PROVE DbTypeOK' /\ Fresh'
  BY <1>8 DEF ConnectPort, InsertDriver
<1>9. ASSUME NEW n \in Net, MakeNet(n) PROVE DbTypeOK' /\ Fresh'
  BY <1>9 DEF MakeNet
<1>10. ASSUME NEW n \in Net, DeleteNet(n) PROVE DbTypeOK' /\ Fresh'
  BY <1>10 DEF DeleteNet, ForgetNet
<1>11. CASE LoadBlock
  BY <1>11 DEF LoadBlock, TakeBlock
<1>12. CASE RefreshTopCell
  BY <1>12 DEF RefreshTopCell
<1>13. CASE UNCHANGED dbVars
  BY <1>13 DEF dbVars
<1> QED
  BY <1>1, <1>2, <1>3, <1>4, <1>5, <1>6, <1>7, <1>8, <1>9, <1>10, <1>11, <1>12, <1>13
     DEF DbNext, Edit
-----------------------------------------------------------------------------
\* A step that leaves the drivers' nets and the map alone keeps both properties.
LEMMA SameMap ==
  ASSUME DbInv, drvrs' = drvrs, blocks' = blocks, nets \subseteq nets',
         tidy' => tidy /\ \A pin \in Drv : NetOf(pin)' = NetOf(pin),
         \A pin \in Drv : NetOf(pin)' \in {NetOf(pin), NoNet}
  PROVE  DriversComplete' /\ DriversExact'
<1>1. NoNet \notin DOMAIN drvrs
  BY DbAssumption DEF DbInv, DbTypeOK
<1>2. ASSUME NEW n \in DOMAIN drvrs, Complete(n) PROVE Complete(n)'
  <2>1. n # NoNet
    BY <1>1
  <2>2. \A pin \in Drv : NetOf(pin)' = n => pin \in drvrs[n]
    BY <1>2, <2>1 DEF Complete
  <2> QED
    BY <2>2 DEF Complete, Drv, IsDriver
<1>3. ASSUME NEW n \in DOMAIN drvrs, Exact(n), \A pin \in Drv : NetOf(pin)' = NetOf(pin)
      PROVE  Exact(n)'
  <2>1. \A pin \in drvrs[n] : pin \in Drv /\ NetOf(pin)' = n
    BY <1>3 DEF Exact
  <2> QED
    BY <2>1 DEF Exact, Drv, IsDriver
<1> QED
  BY <1>2, <1>3, ByEntry, ByEntryAfter DEF DbInv

\* Connecting a pin keeps both properties, if the pin was taken off its net as
\* the map wants it whenever the step claims so.
LEMMA ConnectMap ==
  ASSUME DbInv, NEW pin \in Pin \cup Port, NEW n \in Net, n \in nets,
         InsertDriver(pin, n), blocks' = blocks, nets' = nets,
         tidy' => tidy /\ Loose(pin, NetOf(pin)),
         NetOf(pin)' = n,
         \A q \in Drv \ {pin} : NetOf(q)' = NetOf(q)
  PROVE  DriversComplete' /\ DriversExact'
<1>1. DOMAIN drvrs' = DOMAIN drvrs
  BY DEF InsertDriver
<1>2. IsDriver(pin) <=> pin \in Drv
  BY DEF Drv
<1>3. ASSUME NEW m \in DOMAIN drvrs
      PROVE  drvrs'[m] = IF m = n /\ pin \in Drv THEN drvrs[m] \cup {pin} ELSE drvrs[m]
  BY <1>2 DEF InsertDriver
<1>4. ASSUME NEW m \in DOMAIN drvrs, Complete(m) PROVE Complete(m)'
  <2>1. \A q \in Drv : NetOf(q)' = m => q \in drvrs'[m]
    BY <1>3, <1>4 DEF Complete
  <2> QED
    BY <2>1 DEF Complete, Drv, IsDriver
<1>5. ASSUME NEW m \in DOMAIN drvrs, Exact(m), Loose(pin, NetOf(pin)) PROVE Exact(m)'
  <2>1. m # NoNet
    BY DbAssumption DEF DbInv, DbTypeOK
  <2>2. pin \in Drv => NetOf(pin) = NoNet
    BY <1>2, <1>5 DEF Loose
  <2>3. pin \notin drvrs[m]
    BY <1>5, <2>1, <2>2 DEF Exact
  <2>4. ASSUME NEW q \in drvrs'[m] PROVE q \in Drv /\ NetOf(q)' = m
    <3>1. CASE q \in drvrs[m]
      <4>1. q # pin /\ q \in Drv /\ NetOf(q) = m
        BY <1>5, <2>3, <3>1 DEF Exact
      <4> QED
        BY <4>1
    <3>2. CASE q \notin drvrs[m]
      <4>1. q = pin /\ q \in Drv /\ m = n
        BY <1>3, <3>2
      <4> QED
        BY <4>1 DEF NetOf
    <3> QED
      BY <3>1, <3>2
  <2> QED
    BY <2>4 DEF Exact, Drv, IsDriver
<1> QED
  BY <1>1, <1>4, <1>5, ByEntry, ByEntryAfter DEF DbInv
-----------------------------------------------------------------------------
\* The first question puts in what the block has.
LEMMA DriversMap ==
  ASSUME DbInv, NEW n \in Net, Drivers(n)
  PROVE  DriversComplete' /\ DriversExact'
<1>1. \A m : DriversOf(m)' = DriversOf(m)
  BY DEF Drivers, block, DriversOf, PinsOf, IsDriver
<1>2. /\ DOMAIN drvrs' = DOMAIN drvrs \cup {n}
      /\ \A m \in DOMAIN drvrs' : drvrs'[m] = IF m = n THEN DriversOf(n) ELSE drvrs[m]
  BY DEF Drivers
<1>3. n \in nets /\ nets' = nets /\ blocks' = blocks /\ tidy' = tidy
  BY DEF Drivers, block
<1> QED
  BY <1>1, <1>2, <1>3 DEF DbInv, DriversComplete, DriversExact

\* A pin that is disconnected leaves the set of its net.
LEMMA DisconnectMap ==
  ASSUME DbInv, NEW p \in Pin, DisconnectPin(p)
  PROVE  DriversComplete' /\ DriversExact'
<1>1. DOMAIN drvrs' = DOMAIN drvrs
  BY DEF DisconnectPin, EraseDriver
<1>2. ASSUME NEW m \in DOMAIN drvrs
      PROVE  drvrs'[m] = IF m = NetOf(p) /\ p \in Drv THEN drvrs[m] \ {p} ELSE drvrs[m]
  BY DEF DisconnectPin, EraseDriver, NetOf, Drv
<1>3. /\ NetOf(p)' = NoNet
      /\ \A q \in Drv \ {p} : NetOf(q)' = NetOf(q)
  BY DEF DisconnectPin, NetOf, DbInv, DbTypeOK, IsBlock
<1>4. ASSUME NEW m \in DOMAIN drvrs, Complete(m) PROVE Complete(m)'
  <2>1. m # NoNet
    BY DbAssumption DEF DbInv, DbTypeOK
  <2>2. \A q \in Drv : NetOf(q)' = m => q \in drvrs'[m]
    BY <1>2, <1>3, <1>4, <2>1 DEF Complete
  <2> QED
    BY <2>2 DEF Complete, Drv, IsDriver
<1>5. ASSUME NEW m \in DOMAIN drvrs, Exact(m) PROVE Exact(m)'
  <2>1. p \notin drvrs'[m]
    BY <1>2, <1>5 DEF Exact
  <2>2. \A q \in drvrs'[m] : q \in Drv /\ NetOf(q)' = m
    BY <1>2, <1>3, <1>5, <2>1 DEF Exact
  <2> QED
    BY <2>2 DEF Exact, Drv, IsDriver
<1> QED
  BY <1>1, <1>4, <1>5, ByEntry, ByEntryAfter DEF DbInv, DisconnectPin

\* A net that is deleted takes its set with it.
LEMMA DeleteNetMap ==
  ASSUME DbInv, NEW n \in Net, DeleteNet(n)
  PROVE  DriversComplete' /\ DriversExact'
<1>1. DOMAIN drvrs' = DOMAIN drvrs \ {n} /\ \A m \in DOMAIN drvrs' : drvrs'[m] = drvrs[m]
  BY DEF DeleteNet, ForgetNet
<1>2. \A q \in Drv : NetOf(q)' = IF NetOf(q) = n THEN NoNet ELSE NetOf(q)
  BY DEF DeleteNet, NetOf, Drv
<1>3. ASSUME NEW m \in DOMAIN drvrs' PROVE m # n /\ m # NoNet
  BY <1>1, DbAssumption DEF DbInv, DbTypeOK
<1>4. ASSUME NEW m \in DOMAIN drvrs', Complete(m) PROVE Complete(m)'
  BY <1>1, <1>2, <1>3, <1>4 DEF Complete, Drv, IsDriver
<1>5. ASSUME NEW m \in DOMAIN drvrs', Exact(m) PROVE Exact(m)'
  BY <1>1, <1>2, <1>3, <1>5 DEF Exact, Drv, IsDriver
<1> QED
  BY <1>1, <1>4, <1>5, ByEntry, ByEntryAfter DEF DbInv, DeleteNet

\* A first block finds an empty map; a second one is not promised anything.
LEMMA BlockMap ==
  ASSUME DbInv, LoadBlock
  PROVE  DriversComplete' /\ DriversExact'
<1>1. blocks' <= 1 => DOMAIN drvrs = {}
  BY DEF LoadBlock, TakeBlock, DbInv, DbTypeOK, Fresh
<1>2. DOMAIN drvrs' \subseteq DOMAIN drvrs
  BY DEF LoadBlock, TakeBlock
<1> QED
  BY <1>1, <1>2 DEF LoadBlock, TakeBlock, DriversComplete, DriversExact
-----------------------------------------------------------------------------
\* Every step keeps the two properties.
LEMMA MapStep == DbInv /\ [DbNext]_dbVars => DriversComplete' /\ DriversExact'
<1> SUFFICES ASSUME DbInv, [DbNext]_dbVars PROVE DriversComplete' /\ DriversExact'
  OBVIOUS
<1> DEFINE Kept == DriversComplete' /\ DriversExact'
<1>0. itermNet \in [Pin -> nets \cup {NoNet}] /\ btermNet \in [Port -> nets \cup {NoNet}]
  BY DEF DbInv, DbTypeOK, IsBlock
<1>d. Drv \subseteq Pin \cup Port /\ Pin \cap Port = {}
  BY DbAssumption DEF Drv
<1>u. UNCHANGED <<itermNet, btermNet>> => \A pin \in Drv : NetOf(pin)' = NetOf(pin)
  BY DEF NetOf
<1>1. ASSUME NEW n \in Net, Drivers(n) PROVE Kept
  BY <1>1, DriversMap
<1>2. ASSUME NEW i \in Inst, MakeInstance(i) PROVE Kept
  BY <1>2, <1>u, SameMap DEF MakeInstance
<1>3. ASSUME NEW i \in Inst, DeleteInstance(i) PROVE Kept
  <2>1. \A pin \in Drv : NetOf(pin)' \in {NetOf(pin), NoNet}
    BY <1>3, <1>0, <1>d DEF DeleteInstance, NetOf
  <2>2. tidy' => tidy /\ \A pin \in Drv : NetOf(pin)' = NetOf(pin)
    BY <1>3, <1>0, <1>d DEF DeleteInstance, NetOf, Loose, Drv
  <2>3. drvrs' = drvrs /\ blocks' = blocks /\ nets' = nets
    BY <1>3 DEF DeleteInstance
  <2> QED
    BY <2>1, <2>2, <2>3, SameMap
<1>4. ASSUME NEW p \in Pin, DisconnectPin(p) PROVE Kept
  BY <1>4, DisconnectMap
<1>5. ASSUME NEW p \in Pin, NEW n \in Net, ConnectPin(p, n) PROVE Kept
  <2>1. NetOf(p) = itermNet[p] /\ NetOf(p)' = n
    BY <1>5, <1>0 DEF ConnectPin, NetOf
  <2>2. \A q \in Drv \ {p} : NetOf(q)' = NetOf(q)
    BY <1>5, <1>0, <1>d DEF ConnectPin, NetOf
  <2> QED
    BY <1>5, <2>1, <2>2, ConnectMap DEF ConnectPin
<1>6. ASSUME NEW b \in Port, DisconnectPort(b) PROVE Kept
  <2>1. NetOf(b) = btermNet[b] /\ NetOf(b)' = NoNet
    BY <1>6, <1>0, <1>d DEF DisconnectPort, NetOf
  <2>2. \A q \in Drv \ {b} : NetOf(q)' = NetOf(q)
    BY <1>6, <1>0, <1>d DEF DisconnectPort, NetOf
  <2>3. tidy' => tidy /\ \A q \in Drv : NetOf(q)' = NetOf(q)
    BY <1>6, <2>1, <2>2 DEF DisconnectPort, Loose, Drv
  <2> QED
    BY <1>6, <2>1, <2>2, <2>3, SameMap DEF DisconnectPort
<1>7. ASSUME NEW b \in Port, DeletePort(b) PROVE Kept
  <2>1. NetOf(b) = btermNet[b] /\ NetOf(b)' = NoNet
    BY <1>7, <1>0, <1>d DEF DeletePort, NetOf
  <2>2. \A q \in Drv \ {b} : NetOf(q)' = NetOf(q)
    BY <1>7, <1>0, <1>d DEF DeletePort, NetOf
  <2>3. tidy' => tidy /\ \A q \in Drv : NetOf(q)' = NetOf(q)
    BY <1>7, <2>1, <2>2 DEF DeletePort, Loose, Drv
  <2> QED
    BY <1>7, <2>1, <2>2, <2>3, SameMap DEF DeletePort
<1>8. ASSUME NEW b \in Port, NEW n \in Net, ConnectPort(b, n) PROVE Kept
  <2>1. NetOf(b) = btermNet[b] /\ NetOf(b)' = n
    BY <1>8, <1>0, <1>d DEF ConnectPort, NetOf
  <2>2. \A q \in Drv \ {b} : NetOf(q)' = NetOf(q)
    BY <1>8, <1>0, <1>d DEF ConnectPort, NetOf
  <2> QED
    BY <1>8, <2>1, <2>2, ConnectMap DEF ConnectPort
<1>9. ASSUME NEW n \in Net, MakeNet(n) PROVE Kept
  BY <1>9, <1>u, SameMap DEF MakeNet
<1>10. ASSUME NEW n \in Net, DeleteNet(n) PROVE Kept
  BY <1>10, DeleteNetMap
<1>11. CASE LoadBlock
  BY <1>11, BlockMap
<1>12. CASE RefreshTopCell
  BY <1>12, <1>u, SameMap DEF RefreshTopCell, block
<1>13. CASE UNCHANGED dbVars
  BY <1>13, <1>u, SameMap DEF dbVars, block
<1> QED
  BY <1>1, <1>2, <1>3, <1>4, <1>5, <1>6, <1>7, <1>8, <1>9, <1>10, <1>11, <1>12, <1>13
     DEF DbNext, Edit

\* No block, no entries.
LEMMA DbInitInv == DbInit => DbInv
BY DbAssumption DEF DbInit, DbInv, DbTypeOK, IsBlock, Fresh, DriversComplete, DriversExact

LEMMA DbNextInv == DbInv /\ [DbNext]_dbVars => DbInv'
BY TypeStep, MapStep DEF DbInv
-----------------------------------------------------------------------------
\* Edits, questions and new blocks leave pins on nets of the block and entries
\* that are sets of pins.
THEOREM DbTypeCorrect == DbSpec => []DbTypeOK
<1>1. DbInv => DbTypeOK
  BY DEF DbInv
<1> QED
  BY <1>1, DbInitInv, DbNextInv, PTL DEF DbSpec

\* In the first block the engine never misses a driver, whatever the edits and
\* whenever it asks.
THEOREM NoDriverMissing == DbSpec => []DriversComplete
<1>1. DbInv => DriversComplete
  BY DEF DbInv
<1> QED
  BY <1>1, DbInitInv, DbNextInv, PTL DEF DbSpec

\* The map is what the block says as long as the callers take drivers off their
\* nets first.
THEOREM MapExact == DbSpec => []DriversExact
<1>1. DbInv => DriversExact
  BY DEF DbInv
<1> QED
  BY <1>1, DbInitInv, DbNextInv, PTL DEF DbSpec
-----------------------------------------------------------------------------
\* What a library of the network may be
LibraryRecord ==
  [lef : Lef, link : UNION {[S -> Liberty \cup {NoLib}] : S \in SUBSET CellName}]

LibTypeOK ==
  /\ dbLibs \in Seq(Lef) /\ liberties \in Seq(Liberty)
  /\ libraries \in Seq(LibraryRecord)
  /\ DOMAIN extCell = LibertyCell

\* Every library of the network links its cells to the first liberty library
\* that has them.
LinksFirst ==
  \A i \in DOMAIN libraries : libraries[i] = MadeLibrary(libraries[i].lef)

\* The libraries of the network are those of the database, and behind every one
\* with a cell, or there, is one of the last library with that cell.
LastBehind ==
  /\ \A i \in DOMAIN libraries : libraries[i].lef \in Range(dbLibs)
  /\ \A l \in Range(dbLibs) : \E i \in DOMAIN libraries : libraries[i].lef = l
  /\ \A i \in DOMAIN libraries : \A c \in Macros[libraries[i].lef] :
       \E j \in DOMAIN libraries : i <= j /\ libraries[j].lef = LastMasterLib(c)

\* The liberty cell that is linked to leads back to the last master.
LeadsBack ==
  \A k \in DOMAIN extCell :
    k[1] = LibertyOf(k[2]) /\ LastMasterLib(k[2]) # NoLib
      => extCell[k] = LastMasterLib(k[2])

LibInv == LibTypeOK /\ LinksFirst /\ LastBehind /\ LeadsBack
-----------------------------------------------------------------------------
\* Where the libraries of a list have a cell
LEMMA WithFacts ==
  ASSUME NEW S, NEW libs \in Seq(S), NEW cells, NEW c
  PROVE  /\ With(libs, cells, c) \in SUBSET Nat /\ IsFiniteSet(With(libs, cells, c))
         /\ \A i \in With(libs, cells, c) : i \in 1..Len(libs) /\ libs[i] \in S
<1>1. DOMAIN libs = 1..Len(libs) /\ Len(libs) \in Nat /\ \A i \in DOMAIN libs : libs[i] \in S
  OBVIOUS
<1>2. With(libs, cells, c) \in SUBSET (1..Len(libs))
  BY <1>1 DEF With
<1>3. IsFiniteSet(1..Len(libs))
  BY <1>1, FS_Interval
<1> QED
  BY <1>1, <1>2, <1>3, FS_Subset

\* One library more
OneMore(libs, more, cells, c, l) ==
  /\ c \in cells[l] => With(more, cells, c) = With(libs, cells, c) \cup {Len(libs) + 1}
  /\ c \notin cells[l] => With(more, cells, c) = With(libs, cells, c)
  /\ \A i \in With(libs, cells, c) : more[i] = libs[i]
  /\ more[Len(libs) + 1] = l

LEMMA WithMore ==
  ASSUME NEW S, NEW libs \in Seq(S), NEW cells, NEW c, NEW l \in S
  PROVE  OneMore(libs, Append(libs, l), cells, c, l)
<1> DEFINE more == Append(libs, l)
<1>1. /\ DOMAIN libs = 1..Len(libs) /\ Len(libs) \in Nat
      /\ DOMAIN more = 1..(Len(libs) + 1)
      /\ \A i \in 1..Len(libs) : more[i] = libs[i]
      /\ more[Len(libs) + 1] = l
  OBVIOUS
<1>2. ASSUME NEW i
      PROVE  i \in With(more, cells, c) <=>
               i \in With(libs, cells, c) \/ (i = Len(libs) + 1 /\ c \in cells[l])
  BY <1>1 DEF With
<1>3. \A i \in With(libs, cells, c) : more[i] = libs[i]
  BY <1>1 DEF With
<1> HIDE DEF more
<1>4. OneMore(libs, more, cells, c, l)
  BY <1>1, <1>2, <1>3 DEF OneMore
<1> QED
  BY <1>4 DEF more

\* The first library with a cell stays the first; the one read last is the last.
LEMMA LibertyOfMore ==
  ASSUME LibTypeOK, NEW y \in Liberty, liberties' = Append(liberties, y), NEW c
  PROVE  LibertyOf(c)' = IF LibertyOf(c) # NoLib THEN LibertyOf(c)
                         ELSE IF c \in LibertyCells[y] THEN y ELSE NoLib
<1> DEFINE W == With(liberties, LibertyCells, c)
           V == With(liberties', LibertyCells, c)
<1>1. liberties \in Seq(Liberty) /\ liberties' \in Seq(Liberty) /\ Len(liberties) \in Nat
  BY DEF LibTypeOK
<1>2. /\ W \in SUBSET Nat /\ V \in SUBSET Nat
      /\ \A i \in W : i \in 1..Len(liberties) /\ liberties[i] \in Liberty
  BY <1>1, WithFacts
<1>3. /\ c \in LibertyCells[y] => V = W \cup {Len(liberties) + 1}
      /\ c \notin LibertyCells[y] => V = W
      /\ \A i \in W : liberties'[i] = liberties[i]
      /\ liberties'[Len(liberties) + 1] = y
  <2>1. OneMore(liberties, liberties', LibertyCells, c, y)
    BY <1>1, WithMore
  <2> QED
    BY <2>1 DEF OneMore
<1>4. /\ LibertyOf(c) = IF W = {} THEN NoLib ELSE liberties[Min(W)]
      /\ LibertyOf(c)' = IF V = {} THEN NoLib ELSE liberties'[Min(V)]
  BY DEF LibertyOf, FirstWith
<1> HIDE DEF W, V
<1>5. CASE W = {} /\ c \in LibertyCells[y]
  <2>1. V = {Len(liberties) + 1}
    BY <1>3, <1>5
  <2>2. Min(V) = Len(liberties) + 1
    BY <1>1, <1>2, <2>1, MinIs
  <2> QED
    BY <1>3, <1>4, <1>5, <2>1, <2>2
<1>6. CASE W = {} /\ c \notin LibertyCells[y]
  BY <1>3, <1>4, <1>6
<1>7. CASE W # {}
  <2>1. Min(W) \in W /\ \A i \in W : Min(W) <= i
    BY <1>2, <1>7, MinIsLeast
  <2>2. Min(W) \in V /\ \A i \in V : Min(W) <= i
    <3> DEFINE n == Len(liberties)
               least == Min(W)
    <3>1. /\ n \in Nat /\ least \in 1..n /\ W \subseteq V
          /\ \A i \in V : i \in W \/ i = n + 1
          /\ \A i \in W : least <= i
      BY <1>1, <1>2, <1>3, <2>1
    <3> HIDE DEF n, least
    <3>2. \A i \in V : least <= i
      BY <3>1
    <3> QED
      BY <2>1, <3>1, <3>2 DEF least
  <2>3. Min(V) = Min(W)
    BY <1>2, <2>2, MinIs
  <2>4. liberties[Min(W)] # NoLib
    BY <1>2, <2>1, LibraryAssumption
  <2> QED
    BY <1>3, <1>4, <1>7, <2>1, <2>2, <2>3, <2>4
<1> QED
  BY <1>5, <1>6, <1>7

LEMMA LastMasterMore ==
  ASSUME LibTypeOK, NEW l \in Lef, dbLibs' = Append(dbLibs, l), NEW c
  PROVE  LastMasterLib(c)' = IF c \in Macros[l] THEN l ELSE LastMasterLib(c)
<1> DEFINE W == With(dbLibs, Macros, c)
           V == With(dbLibs', Macros, c)
<1>1. dbLibs \in Seq(Lef) /\ dbLibs' \in Seq(Lef) /\ Len(dbLibs) \in Nat
  BY DEF LibTypeOK
<1>2. /\ W \in SUBSET Nat /\ V \in SUBSET Nat /\ IsFiniteSet(V) /\ IsFiniteSet(W)
      /\ \A i \in W : i \in 1..Len(dbLibs)
  BY <1>1, WithFacts
<1>3. /\ c \in Macros[l] => V = W \cup {Len(dbLibs) + 1}
      /\ c \notin Macros[l] => V = W
      /\ \A i \in W : dbLibs'[i] = dbLibs[i]
      /\ dbLibs'[Len(dbLibs) + 1] = l
  <2>1. OneMore(dbLibs, dbLibs', Macros, c, l)
    BY <1>1, WithMore
  <2> QED
    BY <2>1 DEF OneMore
<1>4. /\ LastMasterLib(c) = IF W = {} THEN NoLib ELSE dbLibs[Max(W)]
      /\ LastMasterLib(c)' = IF V = {} THEN NoLib ELSE dbLibs'[Max(V)]
  BY DEF LastMasterLib
<1> HIDE DEF W, V
<1>5. CASE c \in Macros[l]
  <2>1. Len(dbLibs) + 1 \in V /\ \A i \in V : i <= Len(dbLibs) + 1
    <3> DEFINE n == Len(dbLibs)
    <3>1. n \in Nat /\ V = W \cup {n + 1} /\ \A i \in W : i \in 1..n
      BY <1>1, <1>2, <1>3, <1>5
    <3> HIDE DEF n
    <3>2. n + 1 \in V /\ \A i \in V : i <= n + 1
      BY <3>1
    <3> QED
      BY <3>2 DEF n
  <2>2. Max(V) = Len(dbLibs) + 1
    BY <1>2, <2>1, MaxIs
  <2> QED
    BY <1>3, <1>4, <1>5, <2>1, <2>2
<1>6. CASE c \notin Macros[l]
  <2>1. W # {} => Max(W) \in W
    BY <1>2, MaxIsLargest
  <2> QED
    BY <1>3, <1>4, <1>6, <2>1
<1> QED
  BY <1>5, <1>6

\* What the two are
LEMMA MasterFacts ==
  ASSUME LibTypeOK, NEW c
  PROVE  /\ LibertyOf(c) # NoLib => LibertyOf(c) \in Range(liberties) /\ LibertyOf(c) \in Liberty
                                      /\ c \in LibertyCells[LibertyOf(c)]
         /\ LastMasterLib(c) # NoLib => /\ LastMasterLib(c) \in Range(dbLibs)
                                        /\ LastMasterLib(c) \in Lef
                                        /\ c \in Macros[LastMasterLib(c)]
         /\ \A l \in Range(dbLibs) : c \in Macros[l] => LastMasterLib(c) # NoLib
<1> DEFINE W == With(liberties, LibertyCells, c)
           M == With(dbLibs, Macros, c)
<1>1. dbLibs \in Seq(Lef) /\ liberties \in Seq(Liberty)
  BY DEF LibTypeOK
<1>2. /\ W \in SUBSET Nat /\ \A i \in W : liberties[i] \in Liberty
      /\ M \in SUBSET Nat /\ IsFiniteSet(M) /\ \A i \in M : dbLibs[i] \in Lef
  BY <1>1, WithFacts
<1>3. /\ \A i \in W : i \in DOMAIN liberties /\ c \in LibertyCells[liberties[i]]
      /\ \A i \in M : i \in DOMAIN dbLibs /\ c \in Macros[dbLibs[i]]
      /\ \A i \in DOMAIN dbLibs : c \in Macros[dbLibs[i]] => i \in M
  BY DEF With
<1>4. /\ LibertyOf(c) = IF W = {} THEN NoLib ELSE liberties[Min(W)]
      /\ LastMasterLib(c) = IF M = {} THEN NoLib ELSE dbLibs[Max(M)]
  BY DEF LibertyOf, FirstWith, LastMasterLib
<1> HIDE DEF W, M
<1>5. W # {} => Min(W) \in W
  BY <1>2, MinIsLeast
<1>6. M # {} => Max(M) \in M
  BY <1>2, MaxIsLargest
<1>7. \A l \in Range(dbLibs) : c \in Macros[l] => M # {}
  BY <1>3 DEF Range
<1>8. M # {} => dbLibs[Max(M)] # NoLib
  BY <1>2, <1>6, LibraryAssumption
<1> QED
  BY <1>2, <1>3, <1>4, <1>5, <1>6, <1>7, <1>8 DEF Range
-----------------------------------------------------------------------------
\* What the library made of a LEF library is
LEMMA MadeRecord ==
  ASSUME LibTypeOK, NEW l \in Lef
  PROVE  /\ MadeLibrary(l) \in LibraryRecord
         /\ MadeLibrary(l).lef = l
         /\ DOMAIN MadeLibrary(l).link = Macros[l]
         /\ \A c \in Macros[l] : MadeLibrary(l).link[c] = LibertyOf(c)
<1>1. \A c \in Macros[l] : LibertyOf(c) \in Liberty \cup {NoLib}
  BY MasterFacts
<1>2. [c \in Macros[l] |-> LibertyOf(c)] \in [Macros[l] -> Liberty \cup {NoLib}]
  BY <1>1
<1>3. Macros[l] \in SUBSET CellName
  BY LibraryAssumption
<1> QED
  BY <1>2, <1>3 DEF MadeLibrary, LibraryRecord

\* A LEF library is read.
LEMMA ReadLefInv ==
  ASSUME LibInv, NEW l \in Lef, ReadLef(l)
  PROVE  LibInv'
<1> DEFINE n == Len(libraries)
<1>1. /\ LibTypeOK /\ LinksFirst /\ LastBehind /\ LeadsBack
      /\ n \in Nat
  BY DEF LibInv, LibTypeOK
<1>2. \A c : LibertyOf(c)' = LibertyOf(c)
  BY DEF LibertyOf, ReadLef
<1>3. \A m : MadeLibrary(m)' = MadeLibrary(m)
  BY <1>2 DEF MadeLibrary
<1>4. \A c : LastMasterLib(c)' = IF c \in Macros[l] THEN l ELSE LastMasterLib(c)
  BY <1>1, LastMasterMore DEF ReadLef
<1>5. /\ MadeLibrary(l) \in LibraryRecord
      /\ MadeLibrary(l).lef = l
  BY <1>1, MadeRecord
<1> DEFINE made == MadeLibrary(l)
<1> HIDE DEF made
<1>6. /\ DOMAIN libraries = 1..n
      /\ DOMAIN libraries' = 1..(n + 1)
      /\ \A i \in 1..n : libraries'[i] = libraries[i]
      /\ libraries'[n + 1] = made
      /\ libraries' \in Seq(LibraryRecord)
  BY <1>1, <1>5 DEF ReadLef, LibTypeOK, made
<1>7. Range(dbLibs') = Range(dbLibs) \cup {l} /\ dbLibs' \in Seq(Lef)
  <2>1. /\ DOMAIN dbLibs = 1..Len(dbLibs) /\ Len(dbLibs) \in Nat
        /\ DOMAIN dbLibs' = 1..(Len(dbLibs) + 1)
        /\ \A i \in 1..Len(dbLibs) : dbLibs'[i] = dbLibs[i]
        /\ dbLibs'[Len(dbLibs) + 1] = l
        /\ dbLibs' \in Seq(Lef)
    BY <1>1 DEF ReadLef, LibTypeOK
  <2> QED
    BY <2>1 DEF Range
<1>8. LibTypeOK'
  BY <1>1, <1>6, <1>7 DEF LibTypeOK, ReadLef, Tied
<1>9. LinksFirst'
  <2>1. libraries'[n + 1] = MadeLibrary(libraries'[n + 1].lef)
    BY <1>5, <1>6 DEF made
  <2> QED
    BY <1>1, <1>3, <1>6, <2>1 DEF LinksFirst
<1>10. LastBehind'
  <2>1. libraries'[n + 1].lef = l
    BY <1>5, <1>6 DEF made
  <2>2. \A i \in DOMAIN libraries' : libraries'[i].lef \in Range(dbLibs')
    BY <1>1, <1>6, <1>7, <2>1 DEF LastBehind
  <2>3. \A m \in Range(dbLibs') : \E i \in DOMAIN libraries' : libraries'[i].lef = m
    BY <1>1, <1>6, <1>7, <2>1 DEF LastBehind
  <2>4. ASSUME NEW i \in DOMAIN libraries', NEW c \in Macros[libraries'[i].lef]
        PROVE  \E j \in DOMAIN libraries' :
                  i <= j /\ libraries'[j].lef = LastMasterLib(c)'
    <3>1. CASE c \in Macros[l]
      BY <1>1, <1>4, <1>6, <2>1, <3>1
    <3>2. CASE c \notin Macros[l]
      <4>1. i \in DOMAIN libraries /\ c \in Macros[libraries[i].lef]
        BY <1>1, <1>6, <2>1, <2>4, <3>2
      <4>2. PICK j \in DOMAIN libraries : i <= j /\ libraries[j].lef = LastMasterLib(c)
        BY <1>1, <4>1 DEF LastBehind
      <4> QED
        BY <1>1, <1>4, <1>6, <3>2, <4>2
    <3> QED
      BY <3>1, <3>2
  <2> QED
    BY <2>2, <2>3, <2>4 DEF LastBehind
<1>11. LeadsBack'
  BY <1>1, <1>2, <1>4 DEF LeadsBack, ReadLef, Tied
<1> QED
  BY <1>8, <1>9, <1>10, <1>11 DEF LibInv

\* A liberty library is read.
LEMMA ReadLibertyInv ==
  ASSUME LibInv, NEW y \in Liberty, ReadLiberty(y)
  PROVE  LibInv'
<1> DEFINE n == Len(libraries)
           LinkOf(i) == libraries[i].link
           Taking(c) == {i \in DOMAIN libraries : TakesLink(libraries[i], c, y)}
<1>1. /\ LibTypeOK /\ LinksFirst /\ LastBehind /\ LeadsBack
      /\ n \in Nat /\ DOMAIN libraries = 1..n
  BY DEF LibInv, LibTypeOK
<1>2. \A c : LibertyOf(c)' = IF LibertyOf(c) # NoLib THEN LibertyOf(c)
                             ELSE IF c \in LibertyCells[y] THEN y ELSE NoLib
  BY <1>1, LibertyOfMore DEF ReadLiberty
<1>3. \A c : LastMasterLib(c)' = LastMasterLib(c)
  BY DEF LastMasterLib, ReadLiberty
<1>4. ASSUME NEW i \in DOMAIN libraries
      PROVE  /\ libraries[i].lef \in Lef
             /\ libraries[i] \in LibraryRecord
             /\ DOMAIN LinkOf(i) = Macros[libraries[i].lef]
             /\ \A c \in Macros[libraries[i].lef] : LinkOf(i)[c] = LibertyOf(c)
  <2>1. libraries[i] \in LibraryRecord
    BY <1>1 DEF LibTypeOK
  <2>2. libraries[i].lef \in Lef
    BY <2>1 DEF LibraryRecord
  <2>3. libraries[i] = MadeLibrary(libraries[i].lef)
    BY <1>1 DEF LinksFirst
  <2> QED
    BY <1>1, <2>1, <2>2, <2>3, MadeRecord
<1>5. ASSUME NEW i \in DOMAIN libraries, NEW c
      PROVE  TakesLink(libraries[i], c, y) <=>
               /\ c \in LibertyCells[y] /\ c \in Macros[libraries[i].lef]
               /\ LibertyOf(c) = NoLib
  BY <1>4 DEF TakesLink
<1>6. ASSUME NEW i \in 1..n
      PROVE  /\ libraries'[i].lef = libraries[i].lef
             /\ DOMAIN libraries'[i].link = Macros[libraries[i].lef]
             /\ \A c \in Macros[libraries[i].lef] : libraries'[i].link[c] = LibertyOf(c)'
             /\ \A l : l = libraries[i].lef => libraries'[i] = MadeLibrary(l)'
             /\ libraries'[i] \in LibraryRecord
  <2> DEFINE old == LinkOf(i)
             link == [c \in DOMAIN old |-> IF TakesLink(libraries[i], c, y) THEN y ELSE old[c]]
  <2>1. libraries'[i] = [libraries[i] EXCEPT !.link = link]
    BY <1>1 DEF ReadLiberty
  <2>2. PICK l : l = libraries[i].lef
    OBVIOUS
  <2>3. /\ l \in Lef /\ DOMAIN old = Macros[l] /\ libraries[i] \in LibraryRecord
        /\ \A c \in Macros[l] : old[c] = LibertyOf(c)
        /\ Macros[l] \in SUBSET CellName
    BY <1>1, <1>4, <2>2, LibraryAssumption
  <2>4. /\ DOMAIN link = Macros[l]
        /\ \A c \in Macros[l] : link[c] = LibertyOf(c)'
        /\ link = [c \in DOMAIN link |-> link[c]]
    BY <1>1, <1>2, <1>5, <2>2, <2>3
  <2>5. \A c : LibertyOf(c)' \in Liberty \cup {NoLib}
    BY <1>1, <1>2, MasterFacts
  <2> HIDE DEF link
  <2>6. libraries'[i] = [lef |-> l, link |-> link]
    BY <2>1, <2>2, <2>3 DEF LibraryRecord
  <2>7. link \in [Macros[l] -> Liberty \cup {NoLib}]
    BY <2>4, <2>5
  <2>8. libraries'[i] \in LibraryRecord
    BY <2>3, <2>6, <2>7 DEF LibraryRecord
  <2>9. libraries'[i] = MadeLibrary(l)'
    <3>1. link = [c \in Macros[l] |-> LibertyOf(c)']
      BY <2>4
    <3> QED
      BY <2>6, <3>1 DEF MadeLibrary
  <2> QED
    BY <2>2, <2>4, <2>6, <2>8, <2>9
<1>7. DOMAIN libraries' = 1..n
  BY <1>1 DEF ReadLiberty
<1>9. \A i \in 1..n : libraries'[i].lef = libraries[i].lef
  BY <1>6
<1>8. \A i \in 1..n : \A l : l = libraries'[i].lef => libraries'[i] = MadeLibrary(l)'
  BY <1>6, <1>9
<1>11. LinksFirst'
  <2> SUFFICES ASSUME NEW i \in DOMAIN libraries'
               PROVE  libraries'[i] = MadeLibrary(libraries[i].lef)'
    BY DEF LinksFirst
  <2> QED
    BY <1>7, <1>8 DEF MadeLibrary
<1>10. LibTypeOK'
  <2>1. liberties' \in Seq(Liberty) /\ dbLibs' \in Seq(Lef) /\ DOMAIN extCell' = LibertyCell
    BY <1>1 DEF LibTypeOK, ReadLiberty
  <2>3. \A i \in 1..n : libraries'[i] \in LibraryRecord
    BY <1>6
  <2>4. libraries' \in Seq(LibraryRecord)
    <3>1. libraries' = [i \in 1..n |-> libraries'[i]]
      BY <1>1 DEF ReadLiberty
    <3> QED
      BY <1>1, <2>3, <3>1
  <2> QED
    BY <2>1, <2>4 DEF LibTypeOK
<1>12. LastBehind'
  <2>1. Range(dbLibs') = Range(dbLibs)
    BY DEF ReadLiberty
  <2>2. /\ \A i \in 1..n : libraries'[i].lef \in Range(dbLibs')
        /\ \A l \in Range(dbLibs') : \E i \in 1..n : libraries'[i].lef = l
    BY <1>1, <1>9, <2>1 DEF LastBehind
  <2>3. ASSUME NEW i \in 1..n, NEW c \in Macros[libraries'[i].lef]
        PROVE  \E j \in 1..n : i <= j /\ libraries'[j].lef = LastMasterLib(c)'
    <3>1. PICK j \in 1..n : i <= j /\ libraries[j].lef = LastMasterLib(c)
      BY <1>1, <1>9, <2>3 DEF LastBehind
    <3> QED
      BY <1>3, <1>9, <3>1
  <2> QED
    BY <1>7, <2>2, <2>3 DEF LastBehind
<1>13. LeadsBack'
  <2> SUFFICES ASSUME NEW k \in LibertyCell,
                      k[1] = LibertyOf(k[2])', LastMasterLib(k[2]) # NoLib
               PROVE  extCell'[k] = LastMasterLib(k[2])
    BY <1>3, <1>10 DEF LeadsBack, LibTypeOK
  <2> DEFINE c == k[2]
             takers == Taking(c)
  <2>1. /\ DOMAIN extCell = LibertyCell
        /\ extCell'[k] = IF k[1] = y /\ takers # {} THEN libraries[Max(takers)].lef
                         ELSE extCell[k]
    BY <1>1 DEF LibTypeOK, ReadLiberty
  <2>2. \A i : i \in takers <=> /\ i \in 1..n
                              /\ c \in LibertyCells[y] /\ c \in Macros[libraries[i].lef]
                              /\ LibertyOf(c) = NoLib
    BY <1>1, <1>5
  <2>3. k[1] \in Liberty
    BY DEF LibertyCell
  <2>4. CASE LibertyOf(c) # NoLib
    <3>1. takers = {} /\ LibertyOf(c)' = LibertyOf(c)
      BY <1>2, <2>2, <2>4
    <3> QED
      BY <1>1, <2>1, <3>1 DEF LeadsBack
  <2>5. CASE LibertyOf(c) = NoLib
    <3>1. c \in LibertyCells[y] /\ k[1] = y
      BY <1>2, <2>3, <2>5, LibraryAssumption
    <3>2. LastMasterLib(c) \in Range(dbLibs) /\ c \in Macros[LastMasterLib(c)]
      BY <1>1, MasterFacts
    <3>3. PICK i \in 1..n : libraries[i].lef = LastMasterLib(c)
      BY <1>1, <3>2 DEF LastBehind
    <3>4. i \in takers
      BY <2>2, <2>5, <3>1, <3>2, <3>3
    <3>5. takers \in SUBSET Nat /\ IsFiniteSet(takers)
      <4>1. takers \in SUBSET (1..n)
        BY <2>2
      <4> HIDE DEF takers, n
      <4>2. IsFiniteSet(1..n) /\ 1..n \subseteq Nat
        BY <1>1, FS_Interval
      <4>3. IsFiniteSet(takers)
        BY <4>1, <4>2, FS_Subset
      <4> QED
        BY <4>1, <4>2, <4>3
    <3> HIDE DEF takers
    <3>6. Max(takers) \in takers /\ \A j \in takers : j <= Max(takers)
      BY <3>4, <3>5, MaxIsLargest
    <3>7. PICK j \in 1..n : Max(takers) <= j /\ libraries[j].lef = LastMasterLib(c)
      BY <1>1, <2>2, <3>6 DEF LastBehind
    <3>8. j \in takers
      BY <2>2, <2>5, <3>1, <3>2, <3>7
    <3>9. Max(takers) = j
      <4> DEFINE m == Max(takers)
      <4>1. m \in Nat /\ j \in Nat /\ m <= j /\ j <= m
        BY <1>1, <3>5, <3>6, <3>7, <3>8
      <4> HIDE DEF m
      <4>2. m = j
        BY <4>1
      <4> QED
        BY <4>2 DEF m
    <3> QED
      BY <2>1, <3>1, <3>4, <3>7, <3>9
  <2> QED
    BY <2>4, <2>5
<1> QED
  BY <1>10, <1>11, <1>12, <1>13 DEF LibInv

\* A block is taken: every library is made once more.
LEMMA RemakeInv ==
  ASSUME LibInv, RemakeLibraries
  PROVE  LibInv'
<1> DEFINE n == Len(libraries)
           N == Len(dbLibs)
           more == [i \in DOMAIN dbLibs |-> MadeLibrary(dbLibs[i])]
<1>1. /\ LibTypeOK /\ LinksFirst /\ LastBehind /\ LeadsBack
      /\ n \in Nat /\ N \in Nat
      /\ DOMAIN libraries = 1..n /\ DOMAIN dbLibs = 1..N
      /\ libraries \in Seq(LibraryRecord)
      /\ \A i \in 1..N : dbLibs[i] \in Lef
  BY DEF LibInv, LibTypeOK
<1>2. /\ \A c : LibertyOf(c)' = LibertyOf(c)
      /\ \A c : LastMasterLib(c)' = LastMasterLib(c)
  BY DEF LibertyOf, LastMasterLib, RemakeLibraries
<1>3. \A m : MadeLibrary(m)' = MadeLibrary(m)
  BY <1>2 DEF MadeLibrary
<1>4. \A i \in 1..N : more[i] \in LibraryRecord /\ more[i].lef = dbLibs[i]
                       /\ more[i] = MadeLibrary(dbLibs[i])
  BY <1>1, MadeRecord
<1>5. more \in Seq(LibraryRecord) /\ Len(more) = N
  BY <1>1, <1>4
<1>6. /\ libraries' \in Seq(LibraryRecord)
      /\ DOMAIN libraries' = 1..(n + N)
      /\ \A i \in 1..n : libraries'[i] = libraries[i]
      /\ \A i \in 1..N : libraries'[n + i] = more[i]
  <2> HIDE DEF more
  <2> QED
    BY <1>1, <1>5 DEF RemakeLibraries, more
<1> HIDE DEF n, N, more
<1>7. ASSUME NEW i \in 1..(n + N)
      PROVE  i \in 1..n \/ \E q \in 1..N : i = n + q
  <2>1. i \notin 1..n => i - n \in 1..N /\ i = n + (i - n)
    BY <1>1
  <2> QED
    BY <2>1
<1>8. Range(dbLibs') = Range(dbLibs)
  BY DEF RemakeLibraries
<1>9. LibTypeOK'
  BY <1>1, <1>6 DEF LibTypeOK, RemakeLibraries
<1>10. LinksFirst'
  <2> SUFFICES ASSUME NEW i \in 1..(n + N)
               PROVE  \A l : l = libraries'[i].lef => libraries'[i] = MadeLibrary(l)
    BY <1>3, <1>6 DEF LinksFirst
  <2>1. CASE i \in 1..n
    BY <1>1, <1>6, <2>1 DEF LinksFirst
  <2>2. ASSUME NEW q \in 1..N, i = n + q
        PROVE  \A l : l = libraries'[i].lef => libraries'[i] = MadeLibrary(l)
    BY <1>4, <1>6, <2>2
  <2> QED
    BY <1>7, <2>1, <2>2
<1>11. LastBehind'
  <2>1. \A i \in 1..(n + N) : libraries'[i].lef \in Range(dbLibs)
    <3> SUFFICES ASSUME NEW i \in 1..(n + N) PROVE libraries'[i].lef \in Range(dbLibs)
      OBVIOUS
    <3>1. CASE i \in 1..n
      BY <1>1, <1>6, <3>1 DEF LastBehind
    <3>2. ASSUME NEW q \in 1..N, i = n + q PROVE libraries'[i].lef \in Range(dbLibs)
      BY <1>1, <1>4, <1>6, <3>2, SMTT(30) DEF Range
    <3> QED
      BY <1>7, <3>1, <3>2
  <2>2. 1..n \subseteq 1..(n + N)
    BY <1>1
  <2>3. \A l \in Range(dbLibs) : \E i \in 1..(n + N) : libraries'[i].lef = l
    BY <1>1, <1>6, <2>2 DEF LastBehind
  <2>4. ASSUME NEW i \in 1..(n + N), NEW c \in Macros[libraries'[i].lef]
        PROVE  \E j \in 1..(n + N) : i <= j /\ libraries'[j].lef = LastMasterLib(c)
    <3> DEFINE W == With(dbLibs, Macros, c)
    <3>1. /\ W \in SUBSET Nat /\ IsFiniteSet(W)
          /\ \A q \in W : q \in 1..N
          /\ \A q \in 1..N : c \in Macros[dbLibs[q]] => q \in W
      <4>1. dbLibs \in Seq(Lef)
        BY <1>1 DEF LibTypeOK
      <4>2. /\ W \in SUBSET Nat /\ IsFiniteSet(W)
            /\ \A q \in W : q \in 1..Len(dbLibs)
        BY <4>1, WithFacts
      <4>3. \A q \in DOMAIN dbLibs : c \in Macros[dbLibs[q]] => q \in W
        BY DEF With
      <4>4. DOMAIN dbLibs = 1..N /\ Len(dbLibs) = N
        BY <1>1, <4>1 DEF N
      <4> HIDE DEF W
      <4> QED
        BY <4>2, <4>3, <4>4
    <3>2. W # {}
      <4>1. libraries'[i].lef \in Range(dbLibs)
        BY <2>1
      <4> QED
        BY <1>1, <2>4, <3>1, <4>1 DEF Range
    <3>3. LastMasterLib(c) = dbLibs[Max(W)]
      BY <3>2 DEF LastMasterLib
    <3> HIDE DEF W
    <3>4. Max(W) \in W /\ \A q \in W : q <= Max(W)
      BY <3>1, <3>2, MaxIsLargest
    <3>5. PICK m \in 1..N : m = Max(W)
      BY <3>1, <3>4
    <3>6. libraries'[n + m].lef = LastMasterLib(c) /\ n + m \in 1..(n + N)
      BY <1>1, <1>4, <1>6, <3>3, <3>5
    <3>7. i <= n + m
      <4>1. CASE i \in 1..n
        BY <1>1, <4>1
      <4>2. ASSUME NEW q \in 1..N, i = n + q PROVE i <= n + m
        <5>1. libraries'[i].lef = dbLibs[q]
          BY <1>4, <1>6, <4>2
        <5>2. q <= m
          BY <2>4, <3>1, <3>4, <3>5, <5>1
        <5> QED
          BY <1>1, <4>2, <5>2
      <4> QED
        BY <1>7, <4>1, <4>2
    <3> QED
      BY <3>6, <3>7
  <2> QED
    BY <1>2, <1>6, <1>8, <2>1, <2>3, <2>4 DEF LastBehind
<1>12. LeadsBack'
  BY <1>1, <1>2 DEF LeadsBack, RemakeLibraries
<1> QED
  BY <1>9, <1>10, <1>11, <1>12 DEF LibInv

\* What the invariant says of the library of a master
LEMMA LinkedByInv == LibInv => LibertyLinked
<1> SUFFICES ASSUME LibInv, NEW l \in Range(dbLibs), NEW c \in Macros[l]
             PROVE  /\ LibraryOf(l).link[c] = LibertyOf(c)
                    /\ LibertyOf(c) # NoLib =>
                         extCell[<<LibertyOf(c), c>>] = LastMasterLib(c)
  BY DEF LibertyLinked
<1> DEFINE n == Len(libraries)
           made == {i \in DOMAIN libraries : libraries[i].lef = l}
<1>1. /\ LibTypeOK /\ LinksFirst /\ LastBehind /\ LeadsBack
      /\ n \in Nat /\ DOMAIN libraries = 1..n
      /\ l \in Lef
  BY DEF LibInv, LibTypeOK, Range
<1>2. made \in SUBSET (1..n) /\ made # {}
  BY <1>1 DEF LastBehind
<1>3. Max(made) \in made
  <2> HIDE DEF n, made
  <2>1. IsFiniteSet(1..n) /\ 1..n \subseteq Nat
    BY <1>1, FS_Interval
  <2>2. IsFiniteSet(made)
    BY <1>2, <2>1, FS_Subset
  <2>3. made \in SUBSET Nat
    BY <1>2, <2>1
  <2> QED
    BY <1>2, <2>2, <2>3, MaxIsLargest
<1>4. LibraryOf(l) = libraries[Max(made)]
  BY DEF LibraryOf
<1>5. PICK i \in 1..n : i = Max(made) /\ libraries[i].lef = l
  BY <1>1, <1>3
<1> HIDE DEF made
<1>6. LibraryOf(l) = MadeLibrary(l)
  BY <1>1, <1>4, <1>5 DEF LinksFirst
<1>7. LibraryOf(l).link[c] = LibertyOf(c)
  BY <1>1, <1>6, MadeRecord
<1>8. ASSUME LibertyOf(c) # NoLib
      PROVE  extCell[<<LibertyOf(c), c>>] = LastMasterLib(c)
  <2>1. <<LibertyOf(c), c>> \in LibertyCell
    BY <1>1, <1>8, MasterFacts DEF LibertyCell
  <2>2. LastMasterLib(c) # NoLib
    BY <1>1, MasterFacts
  <2> QED
    BY <1>1, <2>1, <2>2 DEF LeadsBack, LibTypeOK
<1> QED
  BY <1>7, <1>8

LEMMA LibInitInv == LibraryInit => LibInv
<1> SUFFICES ASSUME LibraryInit PROVE LibInv
  OBVIOUS
<1>1. dbLibs = <<>> /\ liberties = <<>> /\ libraries = <<>> /\ DOMAIN extCell = LibertyCell
  BY DEF LibraryInit
<1>2. LibTypeOK
  BY <1>1 DEF LibTypeOK
<1>3. LinksFirst /\ LastBehind
  BY <1>1 DEF LinksFirst, LastBehind, Range
<1>4. \A c : LastMasterLib(c) = NoLib
  BY <1>1 DEF LastMasterLib, With
<1> QED
  BY <1>2, <1>3, <1>4 DEF LibInv, LeadsBack

LEMMA LibNextInv == LibInv /\ [ShellNext]_shellVars => LibInv'
<1> SUFFICES ASSUME LibInv, [ShellNext]_shellVars PROVE LibInv'
  OBVIOUS
<1>1. CASE UNCHANGED libVars
  <2>1. /\ \A c : LibertyOf(c)' = LibertyOf(c)
        /\ \A c : LastMasterLib(c)' = LastMasterLib(c)
    BY <1>1 DEF libVars, LibertyOf, LastMasterLib
  <2>2. \A l : MadeLibrary(l)' = MadeLibrary(l)
    BY <2>1 DEF MadeLibrary
  <2> QED
    BY <1>1, <2>1, <2>2
    DEF libVars, LibInv, LibTypeOK, LinksFirst, LastBehind, LeadsBack
<1>2. CASE RemakeLibraries
  BY <1>2, RemakeInv
<1>3. CASE ReadLibraries
  BY <1>3, ReadLefInv, ReadLibertyInv DEF ReadLibraries
<1>4. Link => RemakeLibraries
  BY DEF Link, LinkDesign, LinkFails
<1>5. Ask \/ EditNetwork \/ UNCHANGED shellVars => UNCHANGED libVars
  BY DEF Ask, EditNetwork, shellVars
<1> QED
  BY <1>1, <1>2, <1>3, <1>4, <1>5 DEF ShellNext

\* In every order of read_lef, read_liberty and link_design, every master is
\* linked to the first liberty cell of its name, which leads back to the last
\* master of that name.
THEOREM LibrariesLinked == ShellSpec => []LibertyLinked
<1>1. ShellInit => LibInv
  BY LibInitInv DEF ShellInit
<1> QED
  BY <1>1, LibNextInv, LinkedByInv, PTL DEF ShellSpec
-----------------------------------------------------------------------------
\* What linkNetwork leaves, part by part
LEMMA DesignFacts ==
  ASSUME NEW d, IsDesign(d)
  PROVE  /\ d.nets \in Seq(Net) /\ Range(d.nets) \subseteq Net
         /\ d.binds \subseteq Range(d.nets) \X (Range(d.nets) \cup {NoNet})
         /\ DOMAIN d.cell \subseteq Inst
         /\ DOMAIN d.pinNet \subseteq Pin
         /\ \A p \in DOMAIN d.pinNet : d.pinNet[p] \in Range(d.nets)
         /\ DOMAIN d.portNet \subseteq Port
         /\ \A b \in DOMAIN d.portNet : d.portNet[b] \in Range(d.nets)
         /\ MadeAt(d) \in SUBSET Nat /\ IsFiniteSet(MadeAt(d))
         /\ \A i \in MadeAt(d) : /\ d.nets[i] \in Net /\ d.nets[i] \in Range(d.nets)
                                 /\ IsMade(d, d.nets[i])
         /\ \A n \in Range(d.nets) : IsMade(d, n) => \E i \in MadeAt(d) : d.nets[i] = n
         /\ IsFiniteSet(Range(d.nets))
<1> DEFINE nets_ == d.nets
           len == Len(nets_)
<1>1. nets_ \in Seq(Net)
  BY DEF IsDesign
<1>2. len \in Nat /\ DOMAIN nets_ = 1..len /\ \A i \in 1..len : nets_[i] \in Net
  BY <1>1
<1>3. MadeAt(d) \in SUBSET (1..len)
  BY <1>2 DEF MadeAt
<1>4. IsFiniteSet(1..len) /\ 1..len \subseteq Nat
  <2> HIDE DEF len
  <2> QED
    BY <1>2, FS_Interval
<1>5. IsFiniteSet(MadeAt(d)) /\ MadeAt(d) \in SUBSET Nat
  <2> HIDE DEF len
  <2> QED
    BY <1>3, <1>4, FS_Subset
<1>6. IsFiniteSet(Range(nets_))
  <2>1. nets_ \in Surjection(1..len, Range(nets_))
    BY <1>1, <1>2 DEF Surjection, Range
  <2> QED
    BY <1>4, <2>1, FS_Surjection
<1> QED
  BY <1>1, <1>2, <1>3, <1>5, <1>6 DEF IsDesign, MadeAt, Range

\* Two members make more than one.
LEMMA TwoInSet ==
  ASSUME NEW S, IsFiniteSet(S), NEW x \in S, NEW y \in S, x # y
  PROVE  Cardinality(S) > 1
<1>1. /\ IsFiniteSet(S \ {x}) /\ Cardinality(S) \in Nat
      /\ Cardinality(S \ {x}) = Cardinality(S) - 1
  BY FS_CardinalityType, FS_RemoveElement
<1>2. /\ Cardinality((S \ {x}) \ {y}) = Cardinality(S \ {x}) - 1
      /\ Cardinality((S \ {x}) \ {y}) \in Nat
  BY <1>1, FS_CardinalityType, FS_RemoveElement
<1> QED
  BY <1>1, <1>2

\* To be joined is an equivalence: what is left of a closed set is closed.
LEMMA JoinedSelf ==
  ASSUME NEW d, NEW n \in Range(d.nets)
  PROVE  n \in Joined(d, n)
BY DEF Joined

LEMMA JoinedSym ==
  ASSUME NEW d, IsDesign(d), NEW n \in Range(d.nets), NEW m \in Joined(d, n)
  PROVE  n \in Joined(d, m) /\ m \in Range(d.nets)
<1> DEFINE all == Range(d.nets)
<1>1. m \in all /\ \A S \in SUBSET all : Closed(d, S) /\ n \in S => m \in S
  BY DEF Joined
<1>2. d.binds \subseteq all \X (all \cup {NoNet})
  BY DesignFacts
<1>3. ASSUME NEW S \in SUBSET all, Closed(d, S), m \in S, n \notin S PROVE FALSE
  <2> DEFINE rest == all \ S
  <2>1. Closed(d, rest)
    <3> SUFFICES ASSUME NEW b \in d.binds, b[2] # NoNet PROVE b[1] \in rest <=> b[2] \in rest
      BY DEF Closed
    <3>1. b[1] \in all /\ b[2] \in all
      BY <1>2
    <3>2. b[1] \in S <=> b[2] \in S
      BY <1>3 DEF Closed
    <3> QED
      BY <3>1, <3>2
  <2> QED
    BY <1>1, <1>3, <2>1
<1> QED
  BY <1>1, <1>3 DEF Joined

LEMMA JoinedTrans ==
  ASSUME NEW d, NEW n, NEW m \in Joined(d, n), NEW k \in Joined(d, m)
  PROVE  k \in Joined(d, n)
BY DEF Joined

\* Nets that are joined are met at the same nets of the block; nets met at one
\* net are joined; a net is lost exactly if it is met nowhere.
LEMMA TakersFacts ==
  ASSUME NEW d, IsDesign(d), NEW n \in Range(d.nets), NEW m \in Range(d.nets)
  PROVE  /\ m \in Joined(d, n) => Takers(d, n) = Takers(d, m)
         /\ \A i \in Takers(d, n), j \in Takers(d, m) :
              d.nets[i] = d.nets[j] => m \in Joined(d, n)
         /\ Lost(d, n) <=> Takers(d, n) = {}
         /\ Takers(d, n) \in SUBSET MadeAt(d)
         /\ \A i \in Takers(d, n) : d.nets[i] \in Joined(d, n)
<1>1. \A i \in MadeAt(d) : d.nets[i] \in Range(d.nets) /\ IsMade(d, d.nets[i])
  BY DesignFacts
<1>2. \A x, y \in Range(d.nets) : x \in Joined(d, y) <=> y \in Joined(d, x)
  BY JoinedSym
<1>3. \A x, y, z \in Range(d.nets) :
        x \in Joined(d, y) /\ y \in Joined(d, z) => x \in Joined(d, z)
  BY JoinedTrans
<1>4. ASSUME m \in Joined(d, n) PROVE Takers(d, n) = Takers(d, m)
  BY <1>1, <1>2, <1>3, <1>4 DEF Takers
<1>5. \A i \in Takers(d, n) : d.nets[i] \in Joined(d, n)
  BY <1>1, <1>2 DEF Takers
<1>6. ASSUME NEW i \in Takers(d, n), NEW j \in Takers(d, m), d.nets[i] = d.nets[j]
      PROVE  m \in Joined(d, n)
  <2>1. d.nets[i] \in Range(d.nets) /\ n \in Joined(d, d.nets[i]) /\ m \in Joined(d, d.nets[i])
    BY <1>1, <1>6 DEF Takers
  <2> QED
    BY <1>2, <1>3, <2>1
<1>7. Lost(d, n) <=> \A x \in Joined(d, n) : ~ IsMade(d, x)
  BY DEF Lost, IsMade
<1>8. Lost(d, n) => Takers(d, n) = {}
  BY <1>1, <1>5, <1>7 DEF Takers
<1>9. ASSUME Takers(d, n) = {}, NEW x \in Joined(d, n), IsMade(d, x) PROVE FALSE
  <2>1. x \in Range(d.nets) /\ n \in Joined(d, x)
    BY JoinedSym
  <2>2. PICK i \in MadeAt(d) : d.nets[i] = x
    BY <1>9, <2>1, DesignFacts
  <2> QED
    BY <1>9, <2>1, <2>2 DEF Takers
<1> QED
  BY <1>4, <1>5, <1>6, <1>7, <1>8, <1>9 DEF Takers

\* Where a link puts a pin of the block, and a port
Landed(d) ==
  /\ design = d /\ insts \subseteq DOMAIN d.cell
  /\ nets = {d.nets[i] : i \in MadeAt(d)}
  /\ itermNet \in [Pin -> nets \cup {NoNet}] /\ btermNet \in [Port -> nets \cup {NoNet}]
  /\ bterms \subseteq Port
  /\ \A b \in Port : btermNet[b] # NoNet => b \in bterms
  /\ \A p \in Pin :
       IF PinTakers(d, insts, p) = {} THEN itermNet[p] = NoNet
       ELSE /\ Max(PinTakers(d, insts, p)) \in PinTakers(d, insts, p)
            /\ itermNet[p] = d.nets[Max(PinTakers(d, insts, p))]
  /\ \A b \in Port :
       IF PortTakers(d, b) = {} THEN btermNet[b] = NoNet
       ELSE /\ Min(PortTakers(d, b)) \in PortTakers(d, b)
            /\ btermNet[b] = d.nets[Min(PortTakers(d, b))]

LEMMA LinkLands ==
  ASSUME NEW d, IsDesign(d), LinkDesign(d)
  PROVE  Landed(d)'
<1>1. /\ MadeAt(d) \in SUBSET Nat /\ IsFiniteSet(MadeAt(d))
      /\ nets' = {d.nets[i] : i \in MadeAt(d)}
  BY DesignFacts DEF LinkDesign, MakeDbNets
<1>2. /\ design' = d /\ insts' \subseteq DOMAIN d.cell
      /\ bterms' = {b \in Port : btermNet'[b] # NoNet}
  BY DEF LinkDesign, MakeDbInsts, MakeDbNets
<1>3. ASSUME NEW S \in SUBSET MadeAt(d), S # {}
      PROVE  /\ Max(S) \in S /\ Min(S) \in S
             /\ d.nets[Max(S)] \in nets' /\ d.nets[Min(S)] \in nets'
  <2>1. S \in SUBSET Nat /\ IsFiniteSet(S)
    BY <1>1, FS_Subset
  <2>2. Max(S) \in S /\ Min(S) \in S
    BY <1>3, <2>1, MaxIsLargest, MinIsLeast
  <2> QED
    BY <1>1, <2>2
<1>4. PICK is : is = insts'
  OBVIOUS
<1>5. /\ itermNet' = [p \in Pin |-> IF PinTakers(d, is, p) = {} THEN NoNet
                                  ELSE d.nets[Max(PinTakers(d, is, p))]]
      /\ btermNet' = [b \in Port |-> IF PortTakers(d, b) = {} THEN NoNet
                                   ELSE d.nets[Min(PortTakers(d, b))]]
  BY <1>4 DEF LinkDesign, MakeDbNets
<1>6. /\ \A p : PinTakers(d, is, p) \in SUBSET MadeAt(d)
      /\ \A b : PortTakers(d, b) \in SUBSET MadeAt(d)
  BY DEF PinTakers, PortTakers, Takers
<1>7. ASSUME NEW p \in Pin
      PROVE  /\ itermNet'[p] \in nets' \cup {NoNet}
             /\ PinTakers(d, is, p) = {} => itermNet'[p] = NoNet
             /\ PinTakers(d, is, p) # {} =>
                  /\ Max(PinTakers(d, is, p)) \in PinTakers(d, is, p)
                  /\ itermNet'[p] = d.nets[Max(PinTakers(d, is, p))]
  BY <1>3, <1>5, <1>6
<1>8. ASSUME NEW b \in Port
      PROVE  /\ btermNet'[b] \in nets' \cup {NoNet}
             /\ PortTakers(d, b) = {} => btermNet'[b] = NoNet
             /\ PortTakers(d, b) # {} =>
                  /\ Min(PortTakers(d, b)) \in PortTakers(d, b)
                  /\ btermNet'[b] = d.nets[Min(PortTakers(d, b))]
  BY <1>3, <1>5, <1>6
<1>9. itermNet' \in [Pin -> nets' \cup {NoNet}] /\ btermNet' \in [Port -> nets' \cup {NoNet}]
  BY <1>5, <1>7, <1>8
<1> QED
  BY <1>1, <1>2, <1>4, <1>7, <1>8, <1>9 DEF Landed

\* Pins and ports that land so are connected as the design connects them.
LEMMA LandedFlat ==
  ASSUME NEW d, IsDesign(d), Landed(d)
  PROVE  Flattened
<1> DEFINE all == Range(d.nets)
           pins == {p \in DOMAIN d.pinNet : p[1] \in insts}
           Met(p) == Takers(d, d.pinNet[p])
           MetBy(b) == Takers(d, d.portNet[b])
<1>1. /\ NoNet \notin Net
      /\ \A i \in MadeAt(d) : d.nets[i] \in Net /\ d.nets[i] \in all /\ IsMade(d, d.nets[i])
      /\ MadeAt(d) \in SUBSET Nat /\ IsFiniteSet(all)
  BY DbAssumption, DesignFacts
<1>2. ASSUME NEW p \in pins
      PROVE  /\ d.pinNet[p] \in all
             /\ Met(p) = {} => itermNet[p] = NoNet
             /\ Met(p) # {} => \E i \in Met(p) : itermNet[p] = d.nets[i] /\ i = Max(Met(p))
  <2>1. p \in Pin /\ d.pinNet[p] \in all
    BY DesignFacts
  <2>2. PinTakers(d, insts, p) = Met(p)
    BY DEF PinTakers
  <2> QED
    BY <2>1, <2>2 DEF Landed
<1>3. ASSUME NEW b \in DOMAIN d.portNet
      PROVE  /\ d.portNet[b] \in all
             /\ MetBy(b) = {} => btermNet[b] = NoNet
             /\ MetBy(b) # {} => \E i \in MetBy(b) : btermNet[b] = d.nets[i]
  <2>1. b \in Port /\ d.portNet[b] \in all
    BY DesignFacts
  <2>2. PortTakers(d, b) = MetBy(b)
    BY DEF PortTakers
  <2> QED
    BY <2>1, <2>2 DEF Landed
<1>4. \A n, m \in all :
        /\ m \in Joined(d, n) => Takers(d, n) = Takers(d, m)
        /\ \A i \in Takers(d, n), j \in Takers(d, m) :
              d.nets[i] = d.nets[j] => m \in Joined(d, n)
        /\ Lost(d, n) <=> Takers(d, n) = {}
        /\ Takers(d, n) \in SUBSET MadeAt(d)
        /\ \A i \in Takers(d, n) : d.nets[i] \in Joined(d, n)
  BY TakersFacts
<1>5. ASSUME NEW p \in pins, NEW q \in pins
      PROVE  itermNet[p] = itermNet[q] /\ itermNet[p] # NoNet
               <=> d.pinNet[q] \in Joined(d, d.pinNet[p]) /\ ~ Lost(d, d.pinNet[p])
  <2>1. d.pinNet[p] \in all /\ d.pinNet[q] \in all
    BY <1>2
  <2>2. ASSUME itermNet[p] = itermNet[q], itermNet[p] # NoNet
        PROVE  d.pinNet[q] \in Joined(d, d.pinNet[p]) /\ ~ Lost(d, d.pinNet[p])
    <3>1. PICK i \in Met(p) : itermNet[p] = d.nets[i]
      BY <1>2, <2>2
    <3>2. PICK j \in Met(q) : itermNet[q] = d.nets[j]
      BY <1>2, <2>2
    <3> QED
      BY <1>4, <2>1, <2>2, <3>1, <3>2
  <2>3. ASSUME d.pinNet[q] \in Joined(d, d.pinNet[p]), ~ Lost(d, d.pinNet[p])
        PROVE  itermNet[p] = itermNet[q] /\ itermNet[p] # NoNet
    <3>1. Met(p) = Met(q) /\ Met(p) # {} /\ Met(p) \in SUBSET MadeAt(d)
      BY <1>4, <2>1, <2>3
    <3>2. PICK i \in Met(p) : itermNet[p] = d.nets[i] /\ i = Max(Met(p))
      BY <1>2, <3>1
    <3>3. itermNet[q] = d.nets[i]
      BY <1>2, <3>1, <3>2
    <3> QED
      BY <1>1, <3>1, <3>2, <3>3
  <2> QED
    BY <2>2, <2>3
<1>6. ASSUME NEW b \in DOMAIN d.portNet, NEW p \in pins
      PROVE  IF d.pinNet[p] \in Joined(d, d.portNet[b])
             THEN btermNet[b] = itermNet[p] \/ FedThrough(d, d.portNet[b])
             ELSE btermNet[b] # itermNet[p] \/ btermNet[b] = NoNet
  <2>1. d.pinNet[p] \in all /\ d.portNet[b] \in all
    BY <1>2, <1>3
  <2>2. ASSUME d.pinNet[p] \in Joined(d, d.portNet[b]), btermNet[b] # itermNet[p]
        PROVE  FedThrough(d, d.portNet[b])
    <3>1. MetBy(b) = Met(p)
      BY <1>4, <2>1, <2>2
    <3>2. MetBy(b) # {}
      BY <1>2, <1>3, <2>2, <3>1
    <3>3. PICK i \in MetBy(b) : btermNet[b] = d.nets[i]
      BY <1>3, <3>2
    <3>4. PICK j \in MetBy(b) : itermNet[p] = d.nets[j]
      BY <1>2, <3>1, <3>2
    <3> DEFINE n == d.portNet[b]
               made == {m \in Joined(d, n) : IsMade(d, m)}
    <3>5. d.nets[i] \in made /\ d.nets[j] \in made /\ d.nets[i] # d.nets[j]
      BY <1>1, <1>4, <2>1, <2>2, <3>3, <3>4
    <3>6. IsFiniteSet(made)
      <4>1. made \subseteq all
        BY DEF Joined
      <4> HIDE DEF made, all
      <4> QED
        BY <1>1, <4>1, FS_Subset
    <3> HIDE DEF made
    <3>7. Cardinality(made) > 1
      BY <3>5, <3>6, TwoInSet
    <3> QED
      BY <3>7 DEF FedThrough, made
  <2>3. ASSUME d.pinNet[p] \notin Joined(d, d.portNet[b]), btermNet[b] = itermNet[p],
               btermNet[b] # NoNet
        PROVE  FALSE
    <3>1. PICK i \in MetBy(b) : btermNet[b] = d.nets[i]
      BY <1>3, <2>3
    <3>2. PICK j \in Met(p) : itermNet[p] = d.nets[j]
      BY <1>2, <2>3
    <3> QED
      BY <1>4, <2>1, <2>3, <3>1, <3>2
  <2> QED
    BY <2>2, <2>3
<1>7. design = d
  BY DEF Landed
<1> QED
  BY <1>5, <1>6, <1>7 DEF Flattened
-----------------------------------------------------------------------------
\* The edits are counted, and a block that was not edited is flat.
FlatInv == edits \in Nat /\ LinkedFlat

LEMMA FlatInit == ShellInit => FlatInv
<1> SUFFICES ASSUME ShellInit PROVE Flattened
  BY DEF ShellInit, FlatInv, LinkedFlat
<1>1. DOMAIN design.pinNet = {} /\ DOMAIN design.portNet = {}
  BY DEF ShellInit, NoDesign
<1> QED
  BY <1>1 DEF Flattened

LandedDesign == \E d \in Designs : Landed(d)

LEMMA FlatAfter == LandedDesign' => Flattened'
<1>1. LandedDesign => Flattened
  BY LandedFlat, ShellAssumption DEF LandedDesign
<1> QED
  BY <1>1, PTL

LEMMA FlatKept ==
  ASSUME Flattened, UNCHANGED <<block, linkVars>>
  PROVE  Flattened'
BY DEF Flattened, block, linkVars

LEMMA FlatNext == FlatInv /\ [ShellNext]_shellVars => FlatInv'
<1> SUFFICES ASSUME FlatInv, [ShellNext]_shellVars PROVE FlatInv'
  OBVIOUS
<1>1. CASE UNCHANGED <<block, linkVars, edits>>
  BY <1>1, FlatKept DEF FlatInv, LinkedFlat
<1>2. ASSUME NEW d \in Designs, LinkDesign(d), edits' = 0 PROVE FlatInv'
  <2>1. IsDesign(d)
    BY ShellAssumption
  <2>2. Landed(d)'
    BY <1>2, <2>1, LinkLands
  <2>3. LandedDesign'
    BY <1>2, <2>2 DEF LandedDesign
  <2>4. Flattened'
    BY <2>3, FlatAfter
  <2> QED
    BY <1>2, <2>4 DEF FlatInv, LinkedFlat
<1>3. ReadLibraries \/ (LinkFails /\ UNCHANGED edits) \/ Ask \/ UNCHANGED shellVars
        => UNCHANGED <<block, linkVars, edits>>
  BY DEF ReadLibraries, LinkFails, RefreshTopCell, Ask, Drivers, shellVars, dbVars
<1>4. CASE EditNetwork
  <2>1. edits' = edits + 1 /\ edits \in Nat
    BY <1>4 DEF EditNetwork, FlatInv
  <2> QED
    BY <2>1 DEF FlatInv, LinkedFlat
<1>5. CASE Link
  BY <1>1, <1>2, <1>3, <1>5, ShellAssumption DEF Link
<1> QED
  BY <1>1, <1>3, <1>4, <1>5 DEF ShellNext

\* Whatever netlist is linked, once or again, with whatever libraries: until it
\* is edited, the block connects what the hierarchy connects.
THEOREM BlockIsFlat == ShellSpec => []LinkedFlat
<1>1. FlatInv => LinkedFlat
  BY DEF FlatInv
<1> QED
  BY <1>1, FlatInit, FlatNext, PTL DEF ShellSpec
-----------------------------------------------------------------------------
\* A linked netlist is a block as dbNetwork expects it.
LEMMA LinkIsBlock ==
  ASSUME NEW d \in Designs, LinkDesign(d)
  PROVE  LoadBlock
<1>1. IsDesign(d)
  BY ShellAssumption
<1>2. Landed(d)'
  BY <1>1, LinkLands
<1>3. /\ insts' \subseteq Inst /\ nets' \subseteq Net /\ bterms' \subseteq Port
      /\ itermNet' \in [Pin -> nets' \cup {NoNet}] /\ btermNet' \in [Port -> nets' \cup {NoNet}]
      /\ \A b \in Port : btermNet'[b] # NoNet => b \in bterms'
  BY <1>1, <1>2, DesignFacts DEF Landed
<1>4. \A p \in Pin : itermNet'[p] # NoNet => p[1] \in insts'
  BY <1>2 DEF Landed, PinTakers
<1> QED
  BY <1>3, <1>4 DEF LoadBlock, IsBlock, LinkDesign

\* Every command of the shell is a step of the network, or none.
LEMMA ShellStep == [ShellNext]_shellVars => [DbNext]_dbVars
<1> SUFFICES ASSUME ShellNext PROVE [DbNext]_dbVars
  BY DEF shellVars
<1>1. CASE ReadLibraries
  BY <1>1 DEF ReadLibraries
<1>2. ASSUME NEW d \in Designs, LinkDesign(d) PROVE DbNext
  BY <1>2, LinkIsBlock DEF DbNext
<1>3. CASE LinkFails
  BY <1>3 DEF LinkFails, DbNext
<1>4. CASE Link
  BY <1>2, <1>3, <1>4, ShellAssumption DEF Link
<1>5. CASE Ask
  BY <1>5 DEF Ask, DbNext
<1>6. CASE EditNetwork
  BY <1>6 DEF EditNetwork, DbNext
<1> QED
  BY <1>1, <1>4, <1>5, <1>6 DEF ShellNext

\* The shell implements the network: its commands edit the block in no way that
\* dbNetwork does not know.
THEOREM ShellImplementsDbNetwork == ShellSpec => ImplementsDbNetwork
<1>1. ShellInit => DbInit
  BY DEF ShellInit
<1> QED
  BY <1>1, ShellStep, PTL DEF ShellSpec, ImplementsDbNetwork, DbSpec

\* So the map of drivers is right in the shell as well.
THEOREM ShellDriversComplete == ShellSpec => []DriversComplete
BY ShellImplementsDbNetwork, NoDriverMissing, PTL DEF ImplementsDbNetwork

THEOREM ShellDriversExact == ShellSpec => []DriversExact
BY ShellImplementsDbNetwork, MapExact, PTL DEF ImplementsDbNetwork
=============================================================================
