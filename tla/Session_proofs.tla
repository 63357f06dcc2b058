--------------------------- MODULE Session_proofs ----------------------------
(***************************************************************************)
(* The list of masters through a session: after an init it serves every    *)
(* kind of node, whatever was listed, removed or read before, and gives    *)
(* room for the nodes of each as long as there was one init, of a file     *)
(* that lists each master once.                                            *)
(***************************************************************************)
EXTENDS Session, Common_proofs

Entry == [master : Master, ratio : Nat \ {0}]
MasterOf == [e \in Entry |-> e.master]

LEMMA EntryOfMaster ==
  ASSUME NEW m \in Master, NEW r \in Nat \ {0}
  PROVE  [master |-> m, ratio |-> r] \in Entry
BY DEF Entry

-----------------------------------------------------------------------------
\* Choosing the entries of one kind

Qualifies(e, kind) == Usable(e.master) /\ Kind(e.master) = kind

\* What OfKind picks, and in which order
LEMMA OfKindPicks ==
  ASSUME NEW list \in Seq(Entry), NEW kind
  PROVE  /\ OfKind(list, kind) \in Seq(Entry)
         /\ \A e : e \in Range(OfKind(list, kind)) <=> e \in Range(list) /\ Qualifies(e, kind)
         /\ Apart(list, MasterOf) => Apart(OfKind(list, kind), MasterOf)
<1> DEFINE S == {i \in DOMAIN list : Qualifies(list[i], kind)}
           at == Ascending(S)
           of == [k \in DOMAIN at |-> list[at[k]]]
<1>1. OfKind(list, kind) = of
  BY DEF OfKind, Qualifies
<1>2. PICK n \in Nat : n = Len(list) /\ DOMAIN list = 1..n
  OBVIOUS
<1>3. S \in SUBSET Nat /\ IsFiniteSet(S)
  <2>1. IsFiniteSet(1..n)
    BY <1>2, FS_Interval
  <2>2. S \in SUBSET (1..n)
    BY <1>2
  <2>3. S \in SUBSET Nat
    BY <1>2
  <2> HIDE DEF S
  <2> QED
    BY <2>1, <2>2, <2>3, FS_Subset
<1> HIDE DEF S
<1>4. at \in Seq(S) /\ IsInjective(at) /\ Range(at) = S
  BY <1>3, AscendingLists
<1> HIDE DEF at
<1>5. PICK c \in Nat : c = Len(at) /\ DOMAIN at = 1..c
  BY <1>4
<1>6. \A k \in 1..c : at[k] \in S
  BY <1>4, <1>5
<1>7. \A i \in S : i \in 1..n /\ list[i] \in Entry /\ Qualifies(list[i], kind)
  BY <1>2, ElementOf DEF S
<1>8. of \in Seq(Entry) /\ DOMAIN of = 1..c
  <2>1. DOMAIN of = 1..c /\ of = [k \in 1..c |-> list[at[k]]]
    BY <1>5
  <2>2. of \in [1..c -> Entry]
    BY <1>6, <1>7, <2>1
  <2> HIDE DEF of
  <2> QED
    BY <2>1, <2>2, SeqOfFunction
<1>9. \A k \in 1..c : of[k] = list[at[k]]
  BY <1>5
<1> HIDE DEF of
<1>10. ASSUME NEW e PROVE e \in Range(of) <=> e \in Range(list) /\ Qualifies(e, kind)
  <2>1. ASSUME e \in Range(of) PROVE e \in Range(list) /\ Qualifies(e, kind)
    <3>1. PICK k \in 1..c : e = of[k]
      BY <1>8, <2>1 DEF Range
    <3>2. at[k] \in S /\ e = list[at[k]]
      BY <1>6, <1>9, <3>1
    <3> QED
      BY <1>2, <1>7, <3>2 DEF Range
  <2>2. ASSUME e \in Range(list), Qualifies(e, kind) PROVE e \in Range(of)
    <3>1. PICK i \in DOMAIN list : e = list[i]
      BY <2>2 DEF Range
    <3>2. i \in S
      BY <2>2, <3>1 DEF S
    <3>3. PICK k \in 1..c : at[k] = i
      BY <1>4, <1>5, <3>2 DEF Range
    <3> QED
      BY <1>8, <1>9, <3>1, <3>3 DEF Range
  <2> QED
    BY <2>1, <2>2
<1>11. ASSUME Apart(list, MasterOf) PROVE Apart(of, MasterOf)
  <2>1. ASSUME NEW i \in DOMAIN of, NEW j \in DOMAIN of, i # j
        PROVE  MasterOf[of[i]] # MasterOf[of[j]]
    <3>1. of[i] = list[at[i]] /\ of[j] = list[at[j]]
      BY <1>8, <1>9
    <3>2. at[i] \in DOMAIN list /\ at[j] \in DOMAIN list
      BY <1>2, <1>6, <1>7, <1>8
    <3>3. at[i] # at[j]
      BY <1>4, <1>5, <1>8, <2>1 DEF IsInjective
    <3> QED
      BY <1>11, <3>1, <3>2, <3>3 DEF Apart
  <2> QED
    BY <2>1 DEF Apart
<1> QED
  BY <1>1, <1>8, <1>10, <1>11

\* The list of all masters of the library
LEMMA LibraryEntries ==
  /\ LibraryList \in Seq(Entry)
  /\ \A m \in Master : \E e \in Range(LibraryList) : e.master = m
  /\ Apart(LibraryList, MasterOf)
<1>1. Library \in Seq(Master) /\ IsInjective(Library)
  BY LibraryAssumption
<1>2. PICK n \in Nat : n = Len(Library) /\ DOMAIN Library = 1..n
  BY <1>1
<1>3. \A i \in 1..n : Library[i] \in Master
  BY <1>1, <1>2
<1> DEFINE l == [i \in 1..n |-> [master |-> Library[i], ratio |-> 100]]
<1>4. LibraryList = l
  BY <1>2 DEF LibraryList
<1>5. l \in [1..n -> Entry]
  BY <1>3, EntryOfMaster
<1>6. DOMAIN l = 1..n /\ \A i \in 1..n : l[i] = [master |-> Library[i], ratio |-> 100] /\ l[i].master = Library[i]
  OBVIOUS
<1> HIDE DEF l
<1>7. l \in Seq(Entry)
  BY <1>5, SeqOfFunction
<1>8. \A m \in Master : \E e \in Range(l) : e.master = m
  <2> SUFFICES ASSUME NEW m \in Master PROVE \E e \in Range(l) : e.master = m
    OBVIOUS
  <2>1. PICK i \in 1..n : Library[i] = m
    BY <1>2 DEF Master, Range
  <2>2. l[i] \in Range(l) /\ l[i].master = m
    BY <1>6, <2>1 DEF Range
  <2> QED
    BY <2>2
<1>9. Apart(l, MasterOf)
  <2>1. ASSUME NEW i \in DOMAIN l, NEW j \in DOMAIN l, i # j
        PROVE  MasterOf[l[i]] # MasterOf[l[j]]
    <3>1. Library[i] # Library[j]
      BY <1>1, <1>2, <1>6, <2>1 DEF IsInjective
    <3>2. MasterOf[l[i]] = Library[i] /\ MasterOf[l[j]] = Library[j]
      BY <1>5, <1>6 DEF MasterOf
    <3> QED
      BY <3>1, <3>2
  <2> QED
    BY <2>1 DEF Apart
<1> QED
  BY <1>4, <1>7, <1>8, <1>9

\* The masters for a kind: all are of that kind and usable, and there is one if
\* the library has one.
LEMMA ListedOrLibraryServes ==
  ASSUME NEW list \in Seq(Entry), NEW kind
  PROVE  /\ ListedOrLibrary(list, kind) \in Seq(Entry)
         /\ \A e \in Range(ListedOrLibrary(list, kind)) : e \in Entry /\ Qualifies(e, kind)
         /\ \A m \in Master : Usable(m) /\ Kind(m) = kind =>
              \E e \in Range(ListedOrLibrary(list, kind)) : TRUE
         /\ Apart(list, MasterOf) => Apart(ListedOrLibrary(list, kind), MasterOf)
<1> DEFINE own == OfKind(list, kind)
           all == OfKind(LibraryList, kind)
           chosen == ListedOrLibrary(list, kind)
<1>1. /\ own \in Seq(Entry)
      /\ \A e : e \in Range(own) <=> e \in Range(list) /\ Qualifies(e, kind)
      /\ Apart(list, MasterOf) => Apart(own, MasterOf)
  BY OfKindPicks
<1>2. /\ all \in Seq(Entry)
      /\ \A e : e \in Range(all) <=> e \in Range(LibraryList) /\ Qualifies(e, kind)
      /\ Apart(all, MasterOf)
  BY LibraryEntries, OfKindPicks
<1>3. chosen = IF own # <<>> THEN own ELSE all
  BY DEF ListedOrLibrary
<1> HIDE DEF own, all, chosen
<1>4. chosen \in Seq(Entry)
  BY <1>1, <1>2, <1>3
<1>5. \A e \in Range(chosen) : e \in Entry /\ Qualifies(e, kind)
  <2> SUFFICES ASSUME NEW e \in Range(chosen) PROVE e \in Entry /\ Qualifies(e, kind)
    OBVIOUS
  <2>1. Qualifies(e, kind)
    BY <1>1, <1>2, <1>3
  <2>2. PICK i \in 1..Len(chosen) : e = chosen[i]
    BY <1>4 DEF Range
  <2> QED
    BY <1>4, <2>1, <2>2, ElementOf
<1>6. ASSUME NEW m \in Master, Usable(m), Kind(m) = kind
      PROVE  \E e \in Range(chosen) : TRUE
  <2>1. CASE own # <<>>
    <3>1. 1 \in DOMAIN own
      BY <1>1, <2>1
    <3> QED
      BY <1>3, <2>1, <3>1 DEF Range
  <2>2. CASE own = <<>>
    <3>1. PICK e \in Range(LibraryList) : e.master = m
      BY LibraryEntries
    <3>2. e \in Range(all)
      BY <1>2, <1>6, <3>1 DEF Qualifies
    <3> QED
      BY <1>3, <2>2, <3>2
  <2> QED
    BY <2>1, <2>2
<1> QED
  BY <1>1, <1>2, <1>3, <1>4, <1>5, <1>6 DEF chosen

\* The masters of both kinds with x signal inputs
WithInputs(list, x) == ListedOrLibrary(list, <<x, FALSE>>) \o ListedOrLibrary(list, <<x, TRUE>>)

LEMMA WithInputsServe ==
  ASSUME NEW list \in Seq(Entry), NEW x \in Nat
  PROVE  /\ WithInputs(list, x) \in Seq(Entry)
         /\ \A e \in Range(WithInputs(list, x)) :
              e \in Entry /\ Usable(e.master) /\ Ins[e.master] = x
         /\ \A m \in Master : Usable(m) /\ Ins[m] = x =>
              \E e \in Range(WithInputs(list, x)) : Kind(e.master) = Kind(m)
         /\ Apart(list, MasterOf) => Apart(WithInputs(list, x), MasterOf)
<1> DEFINE comb == ListedOrLibrary(list, <<x, FALSE>>)
           sequ == ListedOrLibrary(list, <<x, TRUE>>)
           both == WithInputs(list, x)
<1>1. /\ comb \in Seq(Entry)
      /\ \A e \in Range(comb) : e \in Entry /\ Qualifies(e, <<x, FALSE>>)
      /\ \A m \in Master : Usable(m) /\ Kind(m) = <<x, FALSE>> => \E e \in Range(comb) : TRUE
      /\ Apart(list, MasterOf) => Apart(comb, MasterOf)
  BY ListedOrLibraryServes
<1>2. /\ sequ \in Seq(Entry)
      /\ \A e \in Range(sequ) : e \in Entry /\ Qualifies(e, <<x, TRUE>>)
      /\ \A m \in Master : Usable(m) /\ Kind(m) = <<x, TRUE>> => \E e \in Range(sequ) : TRUE
      /\ Apart(list, MasterOf) => Apart(sequ, MasterOf)
  BY ListedOrLibraryServes
<1>3. both = comb \o sequ
  BY DEF WithInputs
<1> HIDE DEF comb, sequ, both
<1>4. both \in Seq(Entry) /\ Range(both) = Range(comb) \cup Range(sequ)
  <2>1. comb \o sequ \in Seq(Entry) /\ Range(comb \o sequ) = Range(comb) \cup Range(sequ)
    BY <1>1, <1>2, ConcatProperties, RangeOfConcat
  <2> QED
    BY <1>3, <2>1
<1>5. \A e : Qualifies(e, <<x, FALSE>>) => Usable(e.master) /\ Ins[e.master] = x /\ ~ HasClk[e.master]
  BY DEF Qualifies, Kind
<1>6. \A e : Qualifies(e, <<x, TRUE>>) => Usable(e.master) /\ Ins[e.master] = x /\ HasClk[e.master]
  BY DEF Qualifies, Kind
<1>7. \A e \in Range(both) : e \in Entry /\ Usable(e.master) /\ Ins[e.master] = x
  BY <1>1, <1>2, <1>4, <1>5, <1>6
<1>8. ASSUME NEW m \in Master, Usable(m), Ins[m] = x
      PROVE  \E e \in Range(both) : Kind(e.master) = Kind(m)
  <2>1. HasClk[m] \in BOOLEAN
    BY LibraryAssumption
  <2>2. CASE HasClk[m] = FALSE
    <3>1. Kind(m) = <<x, FALSE>>
      BY <1>8, <2>2 DEF Kind
    <3>2. PICK e \in Range(comb) : TRUE
      BY <1>1, <1>8, <3>1
    <3>3. Kind(e.master) = <<x, FALSE>>
      BY <1>1, <3>2 DEF Qualifies
    <3> QED
      BY <1>4, <3>1, <3>3
  <2>3. CASE HasClk[m] = TRUE
    <3>1. Kind(m) = <<x, TRUE>>
      BY <1>8, <2>3 DEF Kind
    <3>2. PICK e \in Range(sequ) : TRUE
      BY <1>2, <1>8, <3>1
    <3>3. Kind(e.master) = <<x, TRUE>>
      BY <1>2, <3>2 DEF Qualifies
    <3> QED
      BY <1>4, <3>1, <3>3
  <2> QED
    BY <2>1, <2>2, <2>3
<1>9. ASSUME Apart(list, MasterOf) PROVE Apart(both, MasterOf)
  <2>1. \A a \in Range(comb), b \in Range(sequ) : MasterOf[a] # MasterOf[b]
    <3> SUFFICES ASSUME NEW a \in Range(comb), NEW b \in Range(sequ)
                 PROVE  MasterOf[a] # MasterOf[b]
      OBVIOUS
    <3>1. ~ HasClk[a.master] /\ HasClk[b.master]
      BY <1>1, <1>2, <1>5, <1>6
    <3>2. MasterOf[a] = a.master /\ MasterOf[b] = b.master
      BY <1>1, <1>2 DEF MasterOf
    <3> QED
      BY <3>1, <3>2
  <2>2. Apart(comb \o sequ, MasterOf)
    BY <1>1, <1>2, <1>9, <2>1, ConcatApart
  <2> QED
    BY <1>3, <2>2
<1> QED
  BY <1>4, <1>7, <1>8, <1>9 DEF both

\* checkMasters: each master it keeps can be placed and is within the range, each
\* kind of node that the library can serve has one, and none is kept twice if none
\* is listed twice.
LEMMA CheckMastersServes ==
  ASSUME NEW list \in Seq(Entry), NEW max \in Nat
  PROVE  /\ CheckMasters(list, max) \in Seq(Entry)
         /\ \A e \in Range(CheckMasters(list, max)) : Usable(e.master) /\ Ins[e.master] \in 1..max
         /\ \A m \in Master : Usable(m) /\ Ins[m] \in 1..max =>
              \E e \in Range(CheckMasters(list, max)) : Kind(e.master) = Kind(m)
         /\ Apart(list, MasterOf) => Apart(CheckMasters(list, max), MasterOf)
<1> DEFINE ss == [x \in 1..max |-> WithInputs(list, x)]
           kept == CheckMasters(list, max)
<1>1. kept = FlattenSeq(ss)
  BY DEF CheckMasters, WithInputs
<1>2. \A x \in 1..max :
        /\ WithInputs(list, x) \in Seq(Entry)
        /\ \A e \in Range(WithInputs(list, x)) :
             e \in Entry /\ Usable(e.master) /\ Ins[e.master] = x
        /\ \A m \in Master : Usable(m) /\ Ins[m] = x =>
             \E e \in Range(WithInputs(list, x)) : Kind(e.master) = Kind(m)
        /\ Apart(list, MasterOf) => Apart(WithInputs(list, x), MasterOf)
  <2>1. \A x \in 1..max : x \in Nat
    OBVIOUS
  <2> QED
    BY <2>1, WithInputsServe
<1>3. ss \in [1..max -> Seq(Entry)] /\ \A x \in 1..max : ss[x] = WithInputs(list, x)
  BY <1>2
<1> HIDE DEF kept
<1>4. CASE max = 0
  <2>1. ss = <<>> /\ Len(ss) = 0 /\ 1..max = {}
    BY <1>4
  <2> HIDE DEF ss
  <2>2. kept = <<>>
    BY <1>1, <2>1 DEF FlattenSeq
  <2>3. kept \in Seq(Entry) /\ Range(kept) = {} /\ DOMAIN kept = {}
    BY <2>2 DEF Range
  <2> QED
    BY <2>1, <2>3 DEF kept, Apart
<1>5. CASE max # 0
  <2> HIDE DEF ss
  <2>1. max \in Nat \ {0}
    BY <1>5
  <2>2. /\ FlattenSeq(ss) \in Seq(Entry)
        /\ \A e : e \in Range(FlattenSeq(ss)) <=> \E x \in 1..max : e \in Range(ss[x])
    BY <1>3, <2>1, FlattenHolds
  <2>3. \A e \in Range(kept) : Usable(e.master) /\ Ins[e.master] \in 1..max
    BY <1>1, <1>2, <1>3, <2>2
  <2>4. \A m \in Master : Usable(m) /\ Ins[m] \in 1..max =>
          \E e \in Range(kept) : Kind(e.master) = Kind(m)
    <3> SUFFICES ASSUME NEW m \in Master, Usable(m), Ins[m] \in 1..max
                 PROVE  \E e \in Range(kept) : Kind(e.master) = Kind(m)
      OBVIOUS
    <3>1. PICK e \in Range(WithInputs(list, Ins[m])) : Kind(e.master) = Kind(m)
      BY <1>2
    <3>2. e \in Range(kept)
      BY <1>1, <1>3, <2>2
    <3> QED
      BY <3>1, <3>2
  <2>5. ASSUME Apart(list, MasterOf) PROVE Apart(kept, MasterOf)
    <3>1. \A x \in 1..max : Apart(ss[x], MasterOf)
      BY <1>2, <1>3, <2>5
    <3>2. ASSUME NEW x \in 1..max, NEW y \in 1..max, x # y,
                 NEW a \in Range(ss[x]), NEW b \in Range(ss[y])
          PROVE  MasterOf[a] # MasterOf[b]
      <4>1. a \in Entry /\ b \in Entry /\ Ins[a.master] = x /\ Ins[b.master] = y
        BY <1>2, <1>3, <3>2
      <4>2. MasterOf[a] = a.master /\ MasterOf[b] = b.master
        BY <4>1 DEF MasterOf
      <4> QED
        BY <3>2, <4>1, <4>2
    <3>3. AllApart(ss, max, MasterOf)
      BY <3>1, <3>2 DEF AllApart
    <3> QED
      BY <1>1, <1>3, <2>1, <3>3, FlattenApart
  <2> QED
    BY <1>1, <2>2, <2>3, <2>4, <2>5 DEF kept
<1> QED
  BY <1>4, <1>5
-----------------------------------------------------------------------------
\* The inductive invariant

States == {"ready", "error", "terminated", "undefined", "stuck"}

\* A list of masters the mapping can index with a range of that many inputs
Placeable(list, max) ==
  \A e \in Range(list) : Usable(e.master) /\ Ins[e.master] \in 1..max

Netlists == [masters : Seq(Entry), maxFanin : Nat]

Typed ==
  /\ masters \in Seq(Entry) /\ maxFanin \in Nat /\ artnet \in Netlists
  /\ specFile \in Specs \cup {NoFile}
  /\ initCnt \in Nat /\ removed \in SUBSET Master
  /\ cmdCnt \in Nat /\ pc \in States

\* A usable master of the kind is in the library, or was taken out of the list.
Served(kind) == \E m \in Master : Usable(m) /\ Kind(m) = kind
Lost(kind) == \E m \in removed : Usable(m) /\ Kind(m) = kind

\* Each kind that is in range has a master as long as none of it was removed.
Complete ==
  initCnt > 0 =>
    \A m \in Master : Usable(m) /\ Ins[m] \in 1..maxFanin =>
      Lost(Kind(m)) \/ \E e \in Range(masters) : Kind(e.master) = Kind(m)

\* Before the first init there is neither a list nor a netlist.
Fresh == initCnt = 0 => masters = <<>> /\ artnet = NoNetlist

\* After at most one init of a list without repetition no master is there twice.
Single == ListedOnce => Apart(masters, MasterOf) /\ Apart(artnet.masters, MasterOf)

\* Which runs and writes do not come back
UndefinedOnly ==
  pc \in {"undefined", "stuck"} =>
    \/ artnet = NoNetlist /\ (cmd = <<"run">> => initCnt = 0)
    \/ \E kind \in (0..maxFanin) \X BOOLEAN :
         cmd = <<"run", kind>> /\ (kind[1] = 0 \/ ~ Served(kind) \/ Lost(kind))

IInv ==
  /\ Typed
  /\ Placeable(masters, maxFanin) /\ Placeable(artnet.masters, artnet.maxFanin)
  /\ Complete /\ Fresh /\ Single /\ UndefinedOnly

LEMMA EmptyList ==
  <<>> \in Seq(Entry) /\ Range(<<>>) = {} /\ Apart(<<>>, MasterOf)
BY DEF Range, Apart

LEMMA IInvInit == Init => IInv
<1> SUFFICES ASSUME Init PROVE IInv
  OBVIOUS
<1>1. Typed
  BY EmptyList DEF Init, Typed, States, Netlists, NoNetlist
<1>2. artnet.masters = <<>>
  BY DEF Init, NoNetlist
<1>3. Placeable(masters, maxFanin) /\ Placeable(artnet.masters, artnet.maxFanin)
  BY <1>2, EmptyList DEF Init, Placeable
<1>4. Complete /\ Fresh /\ UndefinedOnly
  BY DEF Init, Complete, Fresh, UndefinedOnly
<1>5. Single
  BY <1>2, EmptyList DEF Init, Single
<1> QED
  BY <1>1, <1>3, <1>4, <1>5 DEF IInv

\* A file that lists none but masters of the database
LEMMA ListOfMasters ==
  ASSUME NEW file \in Specs, \A i \in DOMAIN file.list : file.list[i].master \in Master
  PROVE  /\ file.list \in Seq(Entry) /\ file.maxFanin \in Nat
         /\ (\A i, j \in DOMAIN file.list :
               i # j => file.list[i].master # file.list[j].master) => Apart(file.list, MasterOf)
<1>1. file \in [list : Seq([master : Names, ratio : Nat \ {0}]), maxFanin : Nat]
  BY SpecAssumption
<1> DEFINE D == [master : Names, ratio : Nat \ {0}]
<1>2. PICK list \in Seq(D) : list = file.list
  BY <1>1
<1>3. PICK n \in Nat : n = Len(list) /\ DOMAIN list = 1..n
  BY <1>2
<1>4. \A i \in 1..n : list[i] \in Entry
  <2> SUFFICES ASSUME NEW i \in 1..n PROVE list[i] \in Entry
    OBVIOUS
  <2>1. list[i] \in D
    BY <1>3, ElementOf
  <2>2. list[i].master \in Master
    BY <1>2, <1>3
  <2>3. list[i] = [master |-> list[i].master, ratio |-> list[i].ratio] /\ list[i].ratio \in Nat \ {0}
    BY <2>1
  <2> QED
    BY <2>2, <2>3, EntryOfMaster
<1>5. list \in Seq(Entry)
  <2>1. list \in [1..n -> Entry]
    <3>1. list = [i \in 1..n |-> list[i]]
      BY <1>2, <1>3
    <3> QED
      BY <1>4, <3>1
  <2> QED
    BY <2>1, SeqOfFunction
<1>6. ASSUME \A i, j \in DOMAIN list : i # j => list[i].master # list[j].master
      PROVE  Apart(list, MasterOf)
  <2> SUFFICES ASSUME NEW i \in 1..n, NEW j \in 1..n, i # j
               PROVE  MasterOf[list[i]] # MasterOf[list[j]]
    BY <1>3 DEF Apart
  <2>1. MasterOf[list[i]] = list[i].master /\ MasterOf[list[j]] = list[j].master
    BY <1>4 DEF MasterOf
  <2> QED
    BY <1>3, <1>6, <2>1
<1> QED
  BY <1>1, <1>2, <1>5, <1>6

LEMMA InitCmdKeeps ==
  ASSUME IInv, NEW file \in Specs \cup {specFile}, InitCmd(file)
  PROVE  IInv'
<1> USE DEF IInv
<1>1. CASE file # NoFile /\ \A i \in DOMAIN file.list : file.list[i].master \in Master
  <2>1. file \in Specs
    BY <1>1 DEF Typed
  <2>2. /\ file.list \in Seq(Entry) /\ file.maxFanin \in Nat
        /\ (\A i, j \in DOMAIN file.list :
              i # j => file.list[i].master # file.list[j].master) => Apart(file.list, MasterOf)
    BY <1>1, <2>1, ListOfMasters
  <2>3. PICK list, max : list = masters \o file.list /\ max = file.maxFanin
    OBVIOUS
  <2>4. list \in Seq(Entry) /\ max \in Nat
    <3>1. PICK a, b \in Seq(Entry) : a = masters /\ b = file.list
      BY <2>2 DEF Typed
    <3>2. a \o b \in Seq(Entry)
      BY ConcatProperties
    <3> QED
      BY <2>2, <2>3, <3>1, <3>2
  <2>5. PICK kept : kept = CheckMasters(list, max)
    OBVIOUS
  <2>6. /\ kept \in Seq(Entry)
        /\ \A e \in Range(kept) : Usable(e.master) /\ Ins[e.master] \in 1..max
        /\ \A m \in Master : Usable(m) /\ Ins[m] \in 1..max =>
             \E e \in Range(kept) : Kind(e.master) = Kind(m)
        /\ Apart(list, MasterOf) => Apart(kept, MasterOf)
    BY <2>4, <2>5, CheckMastersServes
  <2>7. /\ masters' = kept /\ maxFanin' = max /\ initCnt' = initCnt + 1 /\ removed' = {}
        /\ pc' = "ready" /\ specFile' = file /\ artnet' = artnet /\ cmdCnt' = cmdCnt + 1
    BY <1>1, <2>3, <2>5 DEF InitCmd, Command
  <2>8. Typed'
    BY <2>1, <2>4, <2>6, <2>7 DEF Typed, States
  <2>9. Placeable(masters, maxFanin)' /\ Placeable(artnet.masters, artnet.maxFanin)'
    BY <2>6, <2>7 DEF Placeable
  <2>10. Complete'
    BY <2>6, <2>7 DEF Complete
  <2>11. Fresh' /\ UndefinedOnly'
    BY <2>7 DEF Typed, Fresh, UndefinedOnly
  <2>12. Single'
    <3> SUFFICES ASSUME initCnt + 1 <= 1,
                        \A i, j \in DOMAIN file.list :
                          i # j => file.list[i].master # file.list[j].master
                 PROVE  Apart(kept, MasterOf) /\ Apart(artnet.masters, MasterOf)
      BY <2>7 DEF Single, ListedOnce
    <3>1. initCnt = 0
      BY DEF Typed
    <3>2. Apart(artnet.masters, MasterOf)
      BY <3>1, EmptyList DEF Fresh, NoNetlist
    <3>3. list = file.list
      <4>1. PICK b \in Seq(Entry) : b = file.list
        BY <2>2
      <4>2. <<>> \o b = b
        OBVIOUS
      <4> QED
        BY <2>3, <3>1, <4>1, <4>2 DEF Fresh
    <3> QED
      BY <2>2, <2>6, <3>2, <3>3
  <2> QED
    BY <2>8, <2>9, <2>10, <2>11, <2>12
<1>2. CASE ~ (file # NoFile /\ \A i \in DOMAIN file.list : file.list[i].master \in Master)
  <2>1. /\ UNCHANGED <<masters, maxFanin, initCnt, removed, artnet>>
        /\ pc' = "terminated" /\ specFile' = file /\ cmdCnt' = cmdCnt + 1
    BY <1>2 DEF InitCmd, Command
  <2>2. Typed'
    BY <2>1 DEF Typed, States
  <2>3. Placeable(masters, maxFanin)' /\ Placeable(artnet.masters, artnet.maxFanin)'
    BY <2>1 DEF Placeable
  <2>4. Complete' /\ Fresh' /\ UndefinedOnly'
    BY <2>1 DEF Complete, Fresh, UndefinedOnly, Lost
  <2>5. Single'
    BY <2>1 DEF Single, ListedOnce
  <2> QED
    BY <2>2, <2>3, <2>4, <2>5
<1> QED
  BY <1>1, <1>2

\* A list with an entry taken out
LEMMA WithoutEntryKeeps ==
  ASSUME NEW list \in Seq(Entry), NEW x \in DOMAIN list
  PROVE  /\ RemoveAt(list, x) \in Seq(Entry)
         /\ Range(RemoveAt(list, x)) \subseteq Range(list)
         /\ Range(list) \subseteq Range(RemoveAt(list, x)) \cup {list[x]}
         /\ Apart(list, MasterOf) => Apart(RemoveAt(list, x), MasterOf)
<1>1. PICK n \in Nat : n = Len(list) /\ DOMAIN list = 1..n
  OBVIOUS
<1> DEFINE rest == RemoveAt(list, x)
<1>2. /\ rest \in Seq(Entry) /\ Len(rest) = n - 1
      /\ \A k \in 1..(n - 1) : rest[k] = IF k < x THEN list[k] ELSE list[k + 1]
  BY <1>1, WithoutEntry
<1> HIDE DEF rest
<1>3. DOMAIN rest = 1..(n - 1)
  BY <1>2
<1> DEFINE from == [k \in 1..(n - 1) |-> IF k < x THEN k ELSE k + 1]
<1>4. /\ \A k \in DOMAIN rest : from[k] \in DOMAIN list /\ rest[k] = list[from[k]]
      /\ \A k, j \in DOMAIN rest : k # j => from[k] # from[j]
  BY <1>1, <1>2, <1>3
<1> HIDE DEF from
<1>5. Range(rest) \subseteq Range(list)
  BY <1>4 DEF Range
<1>6. Apart(list, MasterOf) => Apart(rest, MasterOf)
  BY <1>4 DEF Apart
<1>7. ASSUME NEW i \in 1..n, i # x PROVE list[i] \in Range(rest)
  <2>1. CASE i < x
    <3>1. i \in 1..(n - 1) /\ rest[i] = list[i]
      BY <1>1, <1>2, <2>1
    <3> QED
      BY <1>3, <3>1 DEF Range
  <2>2. CASE i > x
    <3>1. PICK k \in 1..(n - 1) : k = i - 1 /\ k + 1 = i /\ ~ k < x
      BY <1>1, <2>2
    <3>2. rest[k] = list[i]
      BY <1>2, <3>1
    <3> QED
      BY <1>3, <3>1, <3>2 DEF Range
  <2> QED
    BY <1>1, <1>7, <2>1, <2>2
<1>8. Range(list) \subseteq Range(rest) \cup {list[x]}
  BY <1>1, <1>7 DEF Range
<1> QED
  BY <1>2, <1>5, <1>6, <1>8 DEF rest

LEMMA SetDontUseKeeps ==
  ASSUME IInv, NEW m \in Master, SetDontUseCmd(m)
  PROVE  IInv'
<1> USE DEF IInv
<1>1. PICK rest : rest = IF \E i \in DOMAIN masters : masters[i].master = m
                         THEN RemoveAt(masters, FirstAt(masters, m)) ELSE masters
  OBVIOUS
<1>2. /\ masters' = rest /\ removed' = removed \cup {m} /\ pc' = "ready" /\ cmdCnt' = cmdCnt + 1
      /\ UNCHANGED <<specFile, maxFanin, artnet, initCnt>>
  BY <1>1 DEF SetDontUseCmd, Command
<1>3. /\ rest \in Seq(Entry) /\ Range(rest) \subseteq Range(masters)
      /\ Apart(masters, MasterOf) => Apart(rest, MasterOf)
      /\ masters = <<>> => rest = <<>>
      /\ \A e \in Range(masters) : e \in Range(rest) \/ e.master = m
  <2>1. CASE \E i \in DOMAIN masters : masters[i].master = m
    <3>1. PICK list \in Seq(Entry) : list = masters
      BY DEF Typed
    <3> DEFINE at == {i \in DOMAIN list : list[i].master = m}
    <3>2. PICK i \in at : \A j \in at : i <= j
      <4>1. at \in SUBSET Nat /\ at # {}
        BY <2>1, <3>1
      <4> HIDE DEF at
      <4> QED
        BY <4>1, NatLeast
    <3>3. i \in DOMAIN list /\ list[i].master = m /\ \A j \in 1..(i - 1) : list[j].master # m
      <4>1. \A j \in 1..(i - 1) : j \in DOMAIN list /\ ~ i <= j
        BY <3>2
      <4> QED
        BY <3>2, <4>1
    <3>4. FirstAt(list, m) \in DOMAIN list
      BY <3>3 DEF FirstAt
    <3>5. rest = RemoveAt(list, FirstAt(list, m)) /\ masters # <<>>
      BY <1>1, <2>1, <3>1
    <3>6. PICK x \in DOMAIN list : x = FirstAt(list, m) /\ list[x].master = m
      BY <3>3, <3>4 DEF FirstAt
    <3> QED
      BY <3>1, <3>5, <3>6, WithoutEntryKeeps
  <2>2. CASE ~ \E i \in DOMAIN masters : masters[i].master = m
    BY <1>1, <2>2 DEF Typed
  <2> QED
    BY <2>1, <2>2
<1>4. Typed'
  BY <1>2, <1>3 DEF Typed, States
<1>5. Placeable(masters, maxFanin)' /\ Placeable(artnet.masters, artnet.maxFanin)'
  BY <1>2, <1>3 DEF Placeable
<1>6. Complete'
  <2> SUFFICES ASSUME initCnt > 0, NEW k \in Master, Usable(k), Ins[k] \in 1..maxFanin
               PROVE  \/ \E r \in removed \cup {m} : Usable(r) /\ Kind(r) = Kind(k)
                      \/ \E e \in Range(rest) : Kind(e.master) = Kind(k)
    BY <1>2 DEF Complete, Lost
  <2>1. CASE Lost(Kind(k))
    BY <2>1 DEF Lost
  <2>2. CASE ~ Lost(Kind(k))
    <3>1. PICK e \in Range(masters) : Kind(e.master) = Kind(k)
      BY <2>2 DEF Complete
    <3>2. Usable(e.master)
      BY DEF Placeable
    <3> QED
      BY <1>3, <3>1, <3>2
  <2> QED
    BY <2>1, <2>2
<1>7. Fresh' /\ UndefinedOnly'
  BY <1>2, <1>3 DEF Fresh, UndefinedOnly
<1>8. Single'
  <2>1. pc \in {"ready", "error"}
    BY DEF SetDontUseCmd, Command
  <2> QED
    BY <1>2, <1>3, <2>1 DEF Single, ListedOnce
<1> QED
  BY <1>4, <1>5, <1>6, <1>7, <1>8

LEMMA SetParameterKeeps ==
  ASSUME IInv, NEW m \in Master, SetParameterDontUse(m)
  PROVE  IInv'
<1> USE DEF IInv
<1>1. /\ UNCHANGED <<masters, specFile, maxFanin, artnet, initCnt, removed>>
      /\ pc' = "error" /\ cmdCnt' = cmdCnt + 1
  BY DEF SetParameterDontUse, Command
<1>2. Typed'
  BY <1>1 DEF Typed, States
<1>3. Placeable(masters, maxFanin)' /\ Placeable(artnet.masters, artnet.maxFanin)'
  BY <1>1 DEF Placeable
<1>4. Complete' /\ Fresh' /\ UndefinedOnly'
  BY <1>1 DEF Complete, Fresh, UndefinedOnly, Lost
<1>5. Single'
  <2>1. pc \in {"ready", "error"}
    BY DEF SetParameterDontUse, Command
  <2> QED
    BY <1>1, <2>1 DEF Single, ListedOnce
<1> QED
  BY <1>2, <1>3, <1>4, <1>5

\* The list a run builds its netlist from
LEMMA RowsSuffice ==
  ASSUME IInv, initCnt > 0
  PROVE  InTables
<1> SUFFICES ASSUME NEW i \in DOMAIN masters PROVE Ins[masters[i].master] <= maxFanin
  BY DEF InTables
<1>1. masters[i] \in Range(masters)
  BY DEF Range
<1>2. Ins[masters[i].master] \in 1..maxFanin
  BY <1>1 DEF IInv, Placeable
<1> QED
  BY <1>2 DEF IInv, Typed

LEMMA RunKeeps ==
  ASSUME IInv, RunCmd
  PROVE  IInv'
<1> USE DEF IInv
<1>1. /\ UNCHANGED <<masters, specFile, maxFanin, initCnt, removed>>
      /\ cmdCnt' = cmdCnt + 1 /\ pc \in {"ready", "error"}
  BY DEF RunCmd, Command
<1>2. CASE initCnt > 0
  <2>1. artnet' = [masters |-> masters, maxFanin |-> maxFanin] /\ pc' \in {"ready", "terminated"}
    BY <1>2, RowsSuffice DEF RunCmd
  <2>2. artnet'.masters = masters /\ artnet'.maxFanin = maxFanin
    BY <2>1
  <2>3. Typed'
    BY <1>1, <2>1 DEF Typed, States, Netlists
  <2>4. Placeable(masters, maxFanin)' /\ Placeable(artnet.masters, artnet.maxFanin)'
    BY <1>1, <2>2 DEF Placeable
  <2>5. Complete' /\ Fresh' /\ UndefinedOnly'
    BY <1>1, <1>2, <2>1 DEF Typed, Complete, Fresh, UndefinedOnly, Lost
  <2>6. Single'
    BY <1>1, <2>2 DEF Single, ListedOnce
  <2> QED
    BY <2>3, <2>4, <2>5, <2>6
<1>3. CASE ~ initCnt > 0
  <2>1. artnet' = artnet /\ pc' = "undefined" /\ initCnt = 0
    BY <1>3 DEF RunCmd, InTables, Typed
  <2>2. Typed'
    BY <1>1, <2>1 DEF Typed, States
  <2>3. Placeable(masters, maxFanin)' /\ Placeable(artnet.masters, artnet.maxFanin)'
    BY <1>1, <2>1 DEF Placeable
  <2>4. Complete' /\ Fresh' /\ UndefinedOnly'
    BY <1>1, <2>1 DEF Complete, Fresh, UndefinedOnly, Lost
  <2>5. Single'
    BY <2>1 DEF Single, ListedOnce
  <2> QED
    BY <2>2, <2>3, <2>4, <2>5
<1> QED
  BY <1>2, <1>3

\* A kind without master has no inputs, is not in the library, or lost a master.
LEMMA RunWithoutKeeps ==
  ASSUME IInv, NEW kind \in (0..maxFanin) \X BOOLEAN, RunWithout(kind)
  PROVE  IInv'
<1> USE DEF IInv
<1>1. /\ UNCHANGED <<masters, specFile, maxFanin, initCnt, removed>>
      /\ cmdCnt' = cmdCnt + 1 /\ cmd' = <<"run", kind>>
      /\ initCnt > 0 /\ OfKind(masters, kind) = <<>>
      /\ artnet' = [masters |-> masters, maxFanin |-> maxFanin]
      /\ pc' \in {"undefined", "stuck"}
  BY DEF RunWithout, InTables, Command
<1>2. artnet'.masters = masters /\ artnet'.maxFanin = maxFanin
  BY <1>1
<1>3. Typed'
  BY <1>1 DEF Typed, States, Netlists
<1>4. Placeable(masters, maxFanin)' /\ Placeable(artnet.masters, artnet.maxFanin)'
  BY <1>1, <1>2 DEF Placeable
<1>5. kind[1] = 0 \/ ~ Served(kind) \/ Lost(kind)
  <2> SUFFICES ASSUME kind[1] # 0, Served(kind), ~ Lost(kind) PROVE FALSE
    OBVIOUS
  <2>1. PICK m \in Master : Usable(m) /\ Kind(m) = kind
    BY DEF Served
  <2>2. Ins[m] \in 1..maxFanin
    <3>1. kind[1] \in 0..maxFanin /\ kind[1] = Ins[m] /\ maxFanin \in Nat
      BY <2>1 DEF Kind, Typed
    <3> QED
      BY <3>1
  <2>3. PICK e \in Range(masters) : Kind(e.master) = kind
    BY <1>1, <2>1, <2>2 DEF Complete
  <2>4. Qualifies(e, kind)
    BY <2>3 DEF Placeable, Qualifies
  <2>5. PICK list \in Seq(Entry) : list = masters
    BY DEF Typed
  <2>6. e \in Range(OfKind(list, kind))
    BY <2>4, <2>5, OfKindPicks
  <2> QED
    BY <1>1, <2>5, <2>6 DEF Range
<1>6. Complete' /\ Fresh' /\ Single'
  BY <1>1 DEF Typed, Complete, Fresh, Single, ListedOnce, Lost
<1>7. UndefinedOnly'
  BY <1>1, <1>5 DEF UndefinedOnly, Lost
<1> QED
  BY <1>3, <1>4, <1>6, <1>7

LEMMA WriteKeeps ==
  ASSUME IInv, NEW writer \in {"write_verilog", "write_sdc"}, Write(writer)
  PROVE  IInv'
<1> USE DEF IInv
<1>1. /\ UNCHANGED <<masters, specFile, maxFanin, artnet, initCnt, removed>>
      /\ pc' = (IF artnet = NoNetlist THEN "undefined" ELSE "ready")
      /\ cmd' = <<writer>> /\ cmdCnt' = cmdCnt + 1
  BY DEF Write, Command
<1>2. Typed'
  BY <1>1 DEF Typed, States
<1>3. Placeable(masters, maxFanin)' /\ Placeable(artnet.masters, artnet.maxFanin)'
  BY <1>1 DEF Placeable
<1>4. Complete' /\ Fresh'
  BY <1>1 DEF Complete, Fresh, Lost
<1>5. Single'
  <2>1. pc \in {"ready", "error"}
    BY DEF Write, Command
  <2> QED
    BY <1>1, <2>1 DEF Single, ListedOnce
<1>6. UndefinedOnly'
  BY <1>1 DEF UndefinedOnly
<1> QED
  BY <1>2, <1>3, <1>4, <1>5, <1>6

LEMMA IInvStep == IInv /\ [Next]_vars => IInv'
<1> SUFFICES ASSUME IInv, [Next]_vars PROVE IInv'
  OBVIOUS
<1>1. ASSUME NEW file \in Specs \cup {specFile}, InitCmd(file) PROVE IInv'
  BY <1>1, InitCmdKeeps
<1>2. ASSUME NEW m \in Master, SetDontUseCmd(m) PROVE IInv'
  BY <1>2, SetDontUseKeeps
<1>3. ASSUME NEW m \in Master, SetParameterDontUse(m) PROVE IInv'
  BY <1>3, SetParameterKeeps
<1>4. CASE RunCmd
  BY <1>4, RunKeeps
<1>5. CASE WriteVerilogCmd
  BY <1>5, WriteKeeps DEF WriteVerilogCmd
<1>6. CASE WriteSdcCmd
  BY <1>6, WriteKeeps DEF WriteSdcCmd
<1>7. ASSUME NEW kind \in (0..maxFanin) \X BOOLEAN, RunWithout(kind) PROVE IInv'
  BY <1>7, RunWithoutKeeps
<1>8. CASE UNCHANGED vars
  BY <1>8 DEF vars, IInv, Typed, Placeable, Complete, Fresh, Single, UndefinedOnly, ListedOnce, Lost
<1> QED
  BY <1>1, <1>2, <1>3, <1>4, <1>5, <1>6, <1>7, <1>8 DEF Next

LEMMA IInvAlways == Spec => []IInv
BY IInvInit, IInvStep, PTL DEF Spec
-----------------------------------------------------------------------------
\* The properties

LEMMA IInvServes == IInv => MappingServed
<1> SUFFICES ASSUME IInv PROVE MappingServed
  OBVIOUS
<1> USE DEF IInv
<1>1. \A e \in Range(masters) : e.master \in ListedMasters
  BY DEF ListedMasters, Range
<1>2. ASSUME initCnt > 0, NEW kind \in Kinds, NEW m \in Master, Usable(m), Kind(m) = kind
      PROVE  Lost(kind) \/ \E l \in ListedMasters : Kind(l) = kind
  <2>1. Ins[m] \in 1..maxFanin
    BY <1>2 DEF Kinds, Kind
  <2>2. CASE \E e \in Range(masters) : Kind(e.master) = Kind(m)
    BY <1>1, <1>2, <2>2
  <2> QED
    BY <1>2, <2>1, <2>2 DEF Complete
<1>3. \A m \in ListedMasters : Usable(m) /\ Ins[m] \in 1..maxFanin
  <2> SUFFICES ASSUME NEW i \in DOMAIN masters
               PROVE  Usable(masters[i].master) /\ Ins[masters[i].master] \in 1..maxFanin
    BY DEF ListedMasters
  <2>1. masters[i] \in Range(masters)
    BY DEF Range
  <2> QED
    BY <2>1 DEF Placeable
<1>4. UndefinedOnly
  OBVIOUS
<1> QED
  BY <1>2, <1>3, <1>4 DEF MappingServed, UndefinedOnly, Served, Lost, Usable

\* Whatever the session reads, removes or runs in whichever order, and however
\* large the library and the files are: the list of masters has no gap that the
\* library could fill, other than of kinds a master of which was taken out, none
\* that cannot be placed and none beyond the range; and besides run and the
\* writers before the first init or run, only a run that draws a kind without
\* inputs or one of those gaps is undefined or never ends.
THEOREM AlwaysMappingServed == Spec => []MappingServed
BY IInvAlways, IInvServes, PTL

\* A number to the power of 0
LEMMA PowerOfZero ==
  ASSUME NEW b
  PROVE  Power(b, 0) = 1
<1> DEFINE Is(f) == f = [k \in 0..0 |-> IF k = 0 THEN 1 ELSE b * f[k - 1]]
           one == [k \in 0..0 |-> 1]
<1>1. Is(one)
  OBVIOUS
<1>2. Power(b, 0) = (CHOOSE f : Is(f))[0]
  BY DEF Power
<1>3. Is(CHOOSE f : Is(f))
  BY <1>1
<1> QED
  BY <1>2, <1>3

\* The last entry of a master that has one is that one.
LEMMA OnlyRatio ==
  ASSUME NEW list \in Seq(Entry), Apart(list, MasterOf), NEW i \in DOMAIN list
  PROVE  /\ LastRatio(list, list[i].master) = list[i].ratio
         /\ {j \in DOMAIN list : list[j].master = list[i].master} = {i}
<1>1. PICK n \in Nat : n = Len(list) /\ DOMAIN list = 1..n
  OBVIOUS
<1>2. \A j \in 1..n : list[j] \in Entry /\ MasterOf[list[j]] = list[j].master
  BY <1>1, ElementOf DEF MasterOf
<1>3. \A j \in 1..n : list[j].master = list[i].master <=> j = i
  BY <1>1, <1>2 DEF Apart
<1> DEFINE Final(j) == list[j].master = list[i].master
                        /\ \A k \in (j + 1)..Len(list) : list[k].master # list[i].master
           last == CHOOSE j \in DOMAIN list : Final(j)
<1>4. Final(i)
  <2> SUFFICES ASSUME NEW k \in (i + 1)..n PROVE list[k].master # list[i].master
    BY <1>1
  <2>1. k \in 1..n /\ k # i
    BY <1>1
  <2> QED
    BY <1>3, <2>1
<1>5. last \in DOMAIN list /\ Final(last)
  BY <1>4
<1>6. LastRatio(list, list[i].master) = list[last].ratio
  BY DEF LastRatio
<1> HIDE DEF last
<1>7. last = i
  BY <1>1, <1>3, <1>5
<1> QED
  BY <1>1, <1>3, <1>6, <1>7

\* Where each master is once, the targets are the shares rounded up, so that they
\* add up to the nodes to be mapped at least.
LEMMA RoomSuffices ==
  ASSUME NEW list \in Seq(Entry), Apart(list, MasterOf), list # <<>>, NEW cnt \in Nat
  PROVE  cnt <= RoomIn(list, cnt)
<1> DEFINE S == DOMAIN list
           K == {list[i].master : i \in DOMAIN list}
           f == [i \in DOMAIN list |-> LastRatio(list, list[i].master)]
           key == [i \in DOMAIN list |-> list[i].master]
           share == [m \in Master |-> LastRatio(list, m)]
           room == [m \in Master |-> TargetIn(list, m, cnt)]
<1>1. PICK n \in Nat : n = Len(list) /\ DOMAIN list = 1..n
  OBVIOUS
<1>2. \A i \in S : list[i] \in Entry /\ list[i].master \in Master /\ list[i].ratio \in Nat \ {0}
  <2> SUFFICES ASSUME NEW i \in 1..n
               PROVE  list[i] \in Entry /\ list[i].master \in Master /\ list[i].ratio \in Nat \ {0}
    BY <1>1
  <2>1. list[i] \in Entry
    BY <1>1, ElementOf
  <2> QED
    BY <2>1 DEF Entry
<1>3. K \subseteq Master /\ K # {}
  <2>1. 1 \in S
    BY <1>1
  <2> QED
    BY <1>2, <2>1
<1>4. IsFiniteSet(S)
  BY <1>1, FS_Interval
<1>5. \A i \in S : /\ LastRatio(list, list[i].master) = list[i].ratio
                   /\ {j \in S : list[j].master = list[i].master} = {i}
  BY OnlyRatio
<1>6. IsFiniteSet(K)
  <2>1. key \in Surjection(S, K)
    BY DEF Surjection
  <2> HIDE DEF key, K, S
  <2> QED
    BY <1>4, <2>1, FS_Surjection
<1>7. \A i \in S : f[i] \in Nat \ {0} /\ key[i] = list[i].master /\ f[i] = share[list[i].master]
  BY <1>2, <1>5
<1>8. \A i \in S : Having(S, key, {list[i].master}) = {i}
  <2> SUFFICES ASSUME NEW i \in S PROVE Having(S, key, {list[i].master}) = {i}
    OBVIOUS
  <2>1. Having(S, key, {list[i].master}) = {j \in S : list[j].master = list[i].master}
    BY DEF Having
  <2> QED
    BY <1>5, <2>1
<1>9. \A m \in K : \E i \in S : m = list[i].master
  OBVIOUS
<1>10. \A i \in S : key[i] \in K
  OBVIOUS
<1>11. RatioSum(list) = SumFunctionOnSet(f, S)
  BY DEF RatioSum
<1>12. RoomIn(list, cnt) = SumFunctionOnSet(room, K)
  BY DEF RoomIn
<1>13. \A m \in K : m \in Master /\ room[m] = TargetIn(list, m, cnt) /\ share[m] = LastRatio(list, m)
  BY <1>3
<1>14. \A m \in K : Cardinality({i \in S : list[i].master = m}) = 1
  <2> SUFFICES ASSUME NEW i \in S PROVE Cardinality({j \in S : list[j].master = list[i].master}) = 1
    OBVIOUS
  <2>1. {j \in S : list[j].master = list[i].master} = {i}
    BY <1>5
  <2> QED
    BY <2>1, FS_Singleton
<1>15. \A m \in K : TargetIn(list, m, cnt)
                      = CeilDiv(LastRatio(list, m) * cnt * Power(100, 0),
                                RatioSum(list) * Power(RatioSum(list), 0))
  <2> SUFFICES ASSUME NEW m \in K
               PROVE  TargetIn(list, m, cnt)
                      = CeilDiv(LastRatio(list, m) * cnt * Power(100, 0),
                                RatioSum(list) * Power(RatioSum(list), 0))
    OBVIOUS
  <2>1. PICK c : c = Cardinality({i \in DOMAIN list : list[i].master = m})
    OBVIOUS
  <2>2. c = 1
    BY <1>14, <2>1
  <2>3. Cardinality({i \in DOMAIN list : list[i].master = m}) - 1 = 0
    BY <2>1, <2>2
  <2> QED
    BY <2>3 DEF TargetIn
<1> HIDE DEF f, key, K, share, room, S
<1>16. \A m \in K : share[m] \in Nat \ {0} /\ share[m] \in Int
  BY <1>7, <1>9
<1>17. SumFunctionOnSet(share, K) = SumFunctionOnSet(f, S)
  <2>1. \A i \in S : f[i] \in Int /\ key[i] \in K
    BY <1>7, <1>10
  <2>2. \A m \in K : share[m] = SumFunctionOnSet(f, Having(S, key, {m}))
    <3> SUFFICES ASSUME NEW m \in K PROVE share[m] = SumFunctionOnSet(f, Having(S, key, {m}))
      OBVIOUS
    <3>1. PICK i \in S : m = list[i].master
      BY <1>9
    <3>2. Having(S, key, {m}) = {i}
      BY <1>8, <3>1
    <3>3. SumFunctionOnSet(f, {i}) = f[i]
      <4>1. IsFiniteSet({i}) /\ i \in {i} /\ f[i] \in Int /\ {i} \ {i} = {}
        BY <2>1, FS_Singleton
      <4>2. \A j \in {i} \ {i} : f[j] = 0
        BY <4>1
      <4> QED
        BY <4>1, <4>2, SumOnlyAt
    <3> QED
      BY <1>7, <3>1, <3>2, <3>3
  <2>3. IsByKey(share, K, f, S, key)
    BY <2>1, <2>2 DEF IsByKey
  <2> QED
    BY <1>4, <1>6, <2>3, SumByKey
<1>18. PICK sum : sum = SumFunctionOnSet(share, K)
  OBVIOUS
<1>19. sum \in Nat
  BY <1>6, <1>16, <1>18, SumOfNats
<1>20. \A m \in K : room[m] = CeilDiv(share[m] * cnt, SumFunctionOnSet(share, K))
  <2> SUFFICES ASSUME NEW m \in K PROVE room[m] = CeilDiv(share[m] * cnt, sum)
    BY <1>18
  <2>1. PICK r \in Nat : r = share[m]
    BY <1>16
  <2>2. room[m] = CeilDiv(r * cnt * 1, sum * 1)
    BY <1>11, <1>13, <1>15, <1>17, <1>18, <2>1, PowerOfZero
  <2>3. r * cnt * 1 = r * cnt /\ sum * 1 = sum
    BY <1>19
  <2> QED
    BY <2>1, <2>2, <2>3
<1>21. cnt <= SumFunctionOnSet(room, K)
  <2>1. \A m \in K : share[m] \in Nat \ {0}
    BY <1>16
  <2>2. K # {}
    BY <1>3
  <2> QED
    BY <1>6, <1>20, <2>1, <2>2, SharesSuffice
<1> QED
  BY <1>12, <1>21

LEMMA IInvRoom == IInv => RoomForAll
<1> SUFFICES ASSUME IInv, ListedOnce, NEW kind \in Kinds, NEW cnt \in 1..MaxNodes,
                    OfKind(masters, kind) # <<>>
             PROVE  RoomIn(OfKind(masters, kind), cnt) >= cnt
  BY DEF RoomForAll
<1>1. masters \in Seq(Entry) /\ Apart(masters, MasterOf)
  BY DEF IInv, Typed, Single
<1>2. PICK list : list = OfKind(masters, kind)
  OBVIOUS
<1>3. list \in Seq(Entry) /\ Apart(list, MasterOf)
  BY <1>1, <1>2, OfKindPicks
<1>4. cnt <= RoomIn(list, cnt)
  BY <1>2, <1>3, RoomSuffices
<1> QED
  BY <1>2, <1>4

\* As long as there was one init, of a file that lists each master once, the
\* targets of a kind's masters leave no node without a master that has room,
\* whichever masters were removed and however many nodes there are.
THEOREM AlwaysRoomForAll == Spec => []RoomForAll
BY IInvAlways, IInvRoom, PTL

\* What artnetgen_run hands to the mapping: masters that can be placed, with the
\* inputs the range allows and a positive share, and each once while the session
\* goes on after a single init of a file that lists each once.
HandedOver ==
  /\ \A i \in DOMAIN artnet.masters :
       LET e == artnet.masters[i]
       IN  HasOut[e.master] /\ Ins[e.master] \in 1..artnet.maxFanin /\ e.ratio \in Nat \ {0}
  /\ ListedOnce =>
       \A i, j \in DOMAIN artnet.masters :
         i # j => artnet.masters[i].master # artnet.masters[j].master

\* The netlist a run leaves behind was mapped with masters that can be placed, have
\* a row and a positive share, and keeps them so whatever is read, removed or
\* written afterwards.  That none is there twice, as the technology mapping needs,
\* is so after a single init of a file that lists each once.
THEOREM AlwaysHandedOver == Spec => []HandedOver
<1>1. ASSUME IInv PROVE HandedOver
  <2>1. PICK list \in Seq(Entry) : list = artnet.masters
    BY <1>1 DEF IInv, Typed, Netlists
  <2>2. PICK n \in Nat : n = Len(list) /\ DOMAIN list = 1..n
    BY <2>1
  <2>3. \A i \in 1..n : list[i] \in Entry
    BY <2>2, ElementOf
  <2>4. \A i \in 1..n : /\ list[i].ratio \in Nat \ {0}
                        /\ MasterOf[list[i]] = list[i].master
    <3> SUFFICES ASSUME NEW i \in 1..n
                 PROVE  list[i].ratio \in Nat \ {0} /\ MasterOf[list[i]] = list[i].master
      OBVIOUS
    <3> QED
      BY <2>3 DEF Entry, MasterOf
  <2>5. \A i \in 1..n : HasOut[list[i].master] /\ Ins[list[i].master] \in 1..artnet.maxFanin
    <3> SUFFICES ASSUME NEW i \in 1..n
                 PROVE  HasOut[list[i].master] /\ Ins[list[i].master] \in 1..artnet.maxFanin
      OBVIOUS
    <3>1. list[i] \in Range(artnet.masters)
      BY <2>1, <2>2 DEF Range
    <3> QED
      BY <1>1, <3>1 DEF IInv, Placeable, Usable
  <2>6. ListedOnce => \A i, j \in 1..n : i # j => list[i].master # list[j].master
    BY <1>1, <2>1, <2>2, <2>4 DEF IInv, Single, Apart
  <2> QED
    BY <2>1, <2>2, <2>4, <2>5, <2>6 DEF HandedOver
<1> QED
  BY <1>1, IInvAlways, PTL
=============================================================================
