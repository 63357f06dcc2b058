------------------------------ MODULE Session --------------------------------
(***************************************************************************)
(* The commands of the generator in one Tcl session: reading a             *)
(* specification file, completing its cell list from the library, taking   *)
(* cells out of the list, running and writing.  The object behind the      *)
(* commands lives as long as the program, and nothing clears it.           *)
(***************************************************************************)
EXTENDS Integers, Sequences, FiniteSets, FiniteSetsExt, Functions, SequencesExt, Common

CONSTANTS
  Library,   \* the masters of the database, in its order
  Ins,       \* master |-> number of signal inputs
  HasOut,    \* master |-> it has a signal output
  HasClk,    \* master |-> it has a clock input
  HasScan,   \* master |-> it has a scan input
  Specs,     \* specification files: [list, maxFanin], the list being the
             \*   ONLY_USE lines [master, ratio], the ratios in percent
  Names,     \* the cells a file may list
  MaxCmds,   \* bound on the number of commands
  MaxNodes   \* bound on the number of nodes of a kind to be mapped

Master == Range(Library)

\* No master is in two libraries; a cell list may name cells the database
\* does not have.
ASSUME LibraryAssumption ==
  /\ Library \in Seq(Master) /\ IsInjective(Library)
  /\ Ins \in [Master -> Nat]
  /\ HasOut \in [Master -> BOOLEAN]
  /\ HasClk \in [Master -> BOOLEAN] /\ HasScan \in [Master -> BOOLEAN]

\* readSpec takes the lines as they come: a master may be listed twice.
ASSUME SpecAssumption ==
  Specs \subseteq [list : Seq([master : Names, ratio : Nat \ {0}]), maxFanin : Nat]

ASSUME BoundAssumption == MaxCmds \in Nat /\ MaxNodes \in Nat

NoFile == [list |-> <<>>, maxFanin |-> 0]
NoNetlist == [masters |-> <<>>, maxFanin |-> 0]

VARIABLES
  masters,    \* masters_: [master, ratio]
  specFile,   \* specFile_
  maxFanin,   \* maxFanin_ and fiDist_.xMax(), 0 before they are set
  artnet,     \* artnet_: the masters and the range it was built from
  initCnt,    \* number of init commands carried out
  removed,    \* history: cells named to set_dont_use since the last init
  cmd,        \* the last command, with its argument
  cmdCnt,     \* number of commands
  pc          \* "ready", "error" (a Tcl error was raised),
              \*   "terminated", "undefined", "stuck" (in an endless loop)

vars == <<masters, specFile, maxFanin, artnet, initCnt, removed, cmd, cmdCnt, pc>>

\* Mutant: cells without output are kept.
UsableWithScanCheckOnly(m) == ~ HasScan[m]

\* Masters the generator can place: getPortInfo finds an output and no scan input.
Usable(m) == HasOut[m] /\ ~ HasScan[m]

Kind(m) == <<Ins[m], HasClk[m]>>
OfKind(list, kind) ==
  LET at == Ascending({i \in DOMAIN list : Usable(list[i].master) /\ Kind(list[i].master) = kind})
  IN  [k \in DOMAIN at |-> list[at[k]]]

\* fi2TotCombMasters and fi2TotSequMasters in one
LibraryList == [i \in DOMAIN Library |-> [master |-> Library[i], ratio |-> 100]]

\* Mutant: the library is always added.
ListedAndLibrary(list, kind) == OfKind(list, kind) \o OfKind(LibraryList, kind)

\* The masters listed for a kind, or all of the library if none is
ListedOrLibrary(list, kind) ==
  IF OfKind(list, kind) # <<>> THEN OfKind(list, kind) ELSE OfKind(LibraryList, kind)

\* checkMasters: by number of inputs, combinational masters first
CheckMasters(list, max) ==
  FlattenSeq([x \in 1..max |->
    ListedOrLibrary(list, <<x, FALSE>>) \o ListedOrLibrary(list, <<x, TRUE>>)])

FirstAt(list, m) == CHOOSE i \in DOMAIN list :
                      list[i].master = m /\ \A j \in 1..(i - 1) : list[j].master # m
-----------------------------------------------------------------------------
Init ==
  /\ masters = <<>> /\ specFile = NoFile /\ maxFanin = 0 /\ artnet = NoNetlist
  /\ initCnt = 0 /\ removed = {}
  /\ cmd = <<"start">> /\ cmdCnt = 0
  /\ pc = "ready"

\* A command can be given after one that raised a Tcl error.
Command(c) ==
  /\ pc \in {"ready", "error"} /\ cmdCnt < MaxCmds
  /\ cmdCnt' = cmdCnt + 1 /\ cmd' = c

\* artnetgen_init -spec_file.  A missing cell ends the program: nothing
\* catches the exception errorQuit throws.  The list is appended to what
\* masters_ holds, and checkMasters takes that for the list.
InitCmd(file) ==
  /\ Command(<<"init", file>>)
  /\ specFile' = file
  /\ IF file # NoFile /\ \A i \in DOMAIN file.list : file.list[i].master \in Master
     THEN /\ masters' = CheckMasters(masters \o file.list, file.maxFanin)
          /\ maxFanin' = file.maxFanin
          /\ initCnt' = initCnt + 1
          /\ removed' = {}
          /\ pc' = "ready"
     ELSE pc' = "terminated" /\ UNCHANGED <<masters, maxFanin, initCnt, removed>>
  /\ UNCHANGED artnet

\* artnetgen_set_dont_use_cmd: the first entry of the macro is erased.
SetDontUseCmd(m) ==
  /\ Command(<<"dont_use", m>>)
  /\ masters' = IF \E i \in DOMAIN masters : masters[i].master = m
                THEN RemoveAt(masters, FirstAt(masters, m)) ELSE masters
  /\ removed' = removed \cup {m}
  /\ pc' = "ready"
  /\ UNCHANGED <<specFile, maxFanin, artnet, initCnt>>

\* artnetgen_set_parameter -dont_use calls a procedure that does not exist.
SetParameterDontUse(m) ==
  /\ Command(<<"set_parameter", m>>)
  /\ pc' = "error"
  /\ UNCHANGED <<masters, specFile, maxFanin, artnet, initCnt, removed>>

\* The tables of initOnlyUseMasters have a row for each master listed.
InTables == initCnt > 0 /\ \A i \in DOMAIN masters : Ins[masters[i].master] <= maxFanin

\* artnetgen_run.  Before the first init the range is not initialized; behind
\* the tables nothing may be indexed.  summaryDesign ends the program if a
\* primary output was left without driver, whatever was mapped.
RunCmd ==
  /\ Command(<<"run">>)
  /\ IF InTables
     THEN /\ artnet' = [masters |-> masters, maxFanin |-> maxFanin]
          /\ pc' \in {"ready", "terminated"}
     ELSE pc' = "undefined" /\ UNCHANGED artnet
  /\ UNCHANGED <<masters, specFile, maxFanin, initCnt, removed>>

\* artnetgen_run that draws a node of a kind without master: the index into the
\* empty row is taken modulo 0.  A register without master gets a register with
\* one input behind it instead, and so does that one if it has no master either.
RunWithout(kind) ==
  /\ Command(<<"run", kind>>)
  /\ InTables
  /\ OfKind(masters, kind) = <<>>
  /\ kind[2] => OfKind(masters, <<1, TRUE>>) = <<>>
  /\ artnet' = [masters |-> masters, maxFanin |-> maxFanin]
  /\ pc' = IF kind[2] /\ maxFanin > 0 THEN "stuck" ELSE "undefined"
  /\ UNCHANGED <<masters, specFile, maxFanin, initCnt, removed>>

\* The writers read artnet_, which run sets and nothing else.
Write(writer) ==
  /\ Command(<<writer>>)
  /\ pc' = IF artnet = NoNetlist THEN "undefined" ELSE "ready"
  /\ UNCHANGED <<masters, specFile, maxFanin, artnet, initCnt, removed>>

WriteVerilogCmd == Write("write_verilog")
WriteSdcCmd == Write("write_sdc")

Next ==
  \/ \E file \in Specs \cup {specFile} : InitCmd(file)
  \/ \E m \in Master : SetDontUseCmd(m)
  \/ \E m \in Master : SetParameterDontUse(m)
  \/ RunCmd
  \/ \E kind \in (0..maxFanin) \X BOOLEAN : RunWithout(kind)
  \/ WriteVerilogCmd
  \/ WriteSdcCmd

Spec == Init /\ [][Next]_vars
-----------------------------------------------------------------------------
ListedMasters == {masters[i].master : i \in DOMAIN masters}
Kinds == (1..maxFanin) \X BOOLEAN

Power(base, n) == LET p[k \in 0..n] == IF k = 0 THEN 1 ELSE base * p[k - 1] IN p[n]

\* master2ratio_ after technologyMapping divided it by the sum of the ratios,
\* once for each entry of the list, and the number of nodes of the kind that
\* the master may take.  The ratio is that of its last entry.
LastRatio(list, m) ==
  list[CHOOSE i \in DOMAIN list :
         list[i].master = m /\ \A j \in (i + 1)..Len(list) : list[j].master # m].ratio
RatioSum(list) ==
  SumFunctionOnSet([i \in DOMAIN list |-> LastRatio(list, list[i].master)], DOMAIN list)
TargetIn(list, m, cnt) ==
  LET again == Cardinality({i \in DOMAIN list : list[i].master = m}) - 1
  IN  CeilDiv(LastRatio(list, m) * cnt * Power(100, again),
              RatioSum(list) * Power(RatioSum(list), again))
RoomIn(list, cnt) ==
  SumFunctionOnSet([m \in Master |-> TargetIn(list, m, cnt)],
                   {list[i].master : i \in DOMAIN list})

\* After an init, whatever was listed, removed or read before: each kind of node
\* that the library can serve has a master in the list, unless one of that kind
\* was taken out since; no master has more inputs than there are rows, even when a
\* later file has a smaller range than an earlier one, and each can be placed.  So
\* of the runs after an init only those are undefined, or never end, that draw a
\* kind without inputs, a kind the library does not have, or a kind that lost a
\* master to set_dont_use; and writing after a run that came back is not undefined.
MappingServed ==
  LET Placed(m) == HasOut[m] /\ ~ HasScan[m]
      Served(kind) == \E m \in Master : Placed(m) /\ Kind(m) = kind
      Lost(kind) == \E m \in removed : Placed(m) /\ Kind(m) = kind
  IN  /\ initCnt > 0 =>
           \A kind \in Kinds :
             Served(kind) => Lost(kind) \/ \E m \in ListedMasters : Kind(m) = kind
      /\ \A m \in ListedMasters : Placed(m) /\ Ins[m] \in 1..maxFanin
      /\ pc \in {"undefined", "stuck"} =>
           \/ artnet = NoNetlist /\ (cmd = <<"run">> => initCnt = 0)
           \/ \E kind \in (0..maxFanin) \X BOOLEAN :
                cmd = <<"run", kind>> /\ (kind[1] = 0 \/ ~ Served(kind) \/ Lost(kind))

\* The session goes on, had one init at most, and that file lists no master twice.
ListedOnce ==
  /\ pc \in {"ready", "error"} /\ initCnt <= 1
  /\ \A i, j \in DOMAIN specFile.list :
       i # j => specFile.list[i].master # specFile.list[j].master

\* As long as the session has one init, of a file that lists each master once, the
\* targets of the masters of a kind add up to its nodes, so that the search for a
\* master with room ends, whichever cells were removed.
RoomForAll ==
  ListedOnce =>
    \A kind \in Kinds, cnt \in 1..MaxNodes :
      OfKind(masters, kind) # <<>> => RoomIn(OfKind(masters, kind), cnt) >= cnt

==============================================================================
