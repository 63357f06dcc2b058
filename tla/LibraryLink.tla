---------------------------- MODULE LibraryLink -----------------------------
(***************************************************************************)
(* How dbNetwork ties the masters of LEF files to the cells of liberty     *)
(* files, which may be read in any order, before and after a design is     *)
(* linked.  Every LEF library gets a library of the network whose cells    *)
(* point to liberty cells, a liberty cell points back to a master, and     *)
(* every link of a design makes all libraries once more.                   *)
(***************************************************************************)
EXTENDS Integers, Sequences, FiniteSetsExt, Functions

CONSTANTS
  CellName,
  Lef, Macros,            \* LEF libraries, and the cells in each
  Liberty, LibertyCells,  \* liberty libraries, and the cells in each
  NoLib                   \* a null link

ASSUME LibraryAssumption ==
  /\ Macros \in [Lef -> SUBSET CellName]
  /\ LibertyCells \in [Liberty -> SUBSET CellName]
  /\ NoLib \notin Lef \cup Liberty

\* The cells of all liberty libraries
LibertyCell == UNION {{y} \X LibertyCells[y] : y \in Liberty}

VARIABLES
  dbLibs,      \* libraries of the database, in the order read
  liberties,   \* liberty libraries of library_seq_
  libraries,   \* the others: the LEF library, and cell |-> liberty library linked to
  extCell      \* <<liberty library, cell>> |-> LEF library of its master

libVars == <<dbLibs, liberties, libraries, extCell>>

\* Where the libraries of a list have a cell
With(libs, cells, c) == {i \in DOMAIN libs : c \in cells[libs[i]]}

\* dbDatabase::findMaster, Network::findLibertyCell: the first library that has it
FirstWith(libs, cells, c) ==
  IF With(libs, cells, c) = {} THEN NoLib ELSE libs[Min(With(libs, cells, c))]

MasterLib(c) == FirstWith(dbLibs, Macros, c)

LibertyOf(c) == FirstWith(liberties, LibertyCells, c)

\* The last LEF library with a master of that name
LastMasterLib(c) ==
  IF With(dbLibs, Macros, c) = {} THEN NoLib ELSE dbLibs[Max(With(dbLibs, Macros, c))]

\* makeLibrary, makeCell: linked as far as liberty libraries were read
MadeLibrary(l) == [lef |-> l, link |-> [c \in Macros[l] |-> LibertyOf(c)]]

\* setExtCell of the liberty cells makeCell finds
Tied(ext, l) ==
  [k \in DOMAIN ext |-> IF k[2] \in Macros[l] /\ k[1] = LibertyOf(k[2]) THEN l ELSE ext[k]]
-----------------------------------------------------------------------------
LibraryInit ==
  /\ dbLibs = <<>> /\ liberties = <<>> /\ libraries = <<>>
  /\ extCell = [k \in LibertyCell |-> NoLib]

\* readLefAfter
ReadLef(l) ==
  /\ l \notin Range(dbLibs)
  /\ dbLibs' = Append(dbLibs, l)
  /\ libraries' = Append(libraries, MadeLibrary(l))
  /\ extCell' = Tied(extCell, l)
  /\ UNCHANGED liberties

\* Mutant: a linked cell is linked again.
TakesOverLink(lib, c, y) == c \in LibertyCells[y] \cap DOMAIN lib.link

\* Only a cell without link takes one from the library just read.
TakesLink(lib, c, y) == c \in LibertyCells[y] \cap DOMAIN lib.link /\ lib.link[c] = NoLib

\* readLibertyAfter: library by library, so the last one stays in extCell
ReadLiberty(y) ==
  /\ y \notin Range(liberties)
  /\ liberties' = Append(liberties, y)
  /\ libraries' =
       [i \in DOMAIN libraries |->
          [libraries[i] EXCEPT
             !.link = [c \in DOMAIN @ |-> IF TakesLink(libraries[i], c, y) THEN y ELSE @[c]]]]
  /\ extCell' =
       [k \in DOMAIN extCell |->
          LET takers == {i \in DOMAIN libraries : TakesLink(libraries[i], k[2], y)}
          IN  IF k[1] = y /\ takers # {} THEN libraries[Max(takers)].lef ELSE extCell[k]]
  /\ UNCHANGED dbLibs

\* readDbAfter with a block: a library more for every one of the database, each
\* tied like the library of a file, so the last one stays in extCell
RemakeLibraries ==
  /\ libraries' = libraries \o [i \in DOMAIN dbLibs |-> MadeLibrary(dbLibs[i])]
  /\ extCell' =
       [k \in DOMAIN extCell |->
          IF k[1] = LibertyOf(k[2]) /\ LastMasterLib(k[2]) # NoLib
          THEN LastMasterLib(k[2]) ELSE extCell[k]]
  /\ UNCHANGED <<dbLibs, liberties>>
-----------------------------------------------------------------------------
\* staCell of the masters of a library: the library made last for it
LibraryOf(l) == libraries[Max({i \in DOMAIN libraries : libraries[i].lef = l})]

\* In whatever order LEF files, liberty files and links come, every master has
\* the cell of the first liberty library with its name, and this cell leads back
\* to a master of that name, the last one of the database.  replaceCell follows
\* the way back, and asks nothing: a cell of a later liberty library has none.
LibertyLinked ==
  \A l \in Range(dbLibs) : \A c \in Macros[l] :
    LET y == LibertyOf(c)
    IN  /\ LibraryOf(l).link[c] = y
        /\ y # NoLib => extCell[<<y, c>>] = LastMasterLib(c)
=============================================================================
