------------------------------ MODULE OpenRoad -------------------------------
(***************************************************************************)
(* The commands of the shell that change the database or what dbSta knows  *)
(* of it, in any order: read_lef, read_liberty, link_design of a netlist   *)
(* read before, the edits of the network, and questions of the engine.     *)
(* Every command tells the one observer, dbSta, before it returns.         *)
(***************************************************************************)
EXTENDS VerilogLink

CONSTANTS
  Designs,        \* netlists that may be read and linked
  EditDesigns,    \* bound: the designs that are edited or followed by another link
  MaxBlocks,      \* bound on the links
  MaxEdits,       \* bound on the edits of a block
  MaxCopies       \* bound on the libraries made of one LEF library

ASSUME ShellAssumption ==
  /\ \A d \in Designs : IsDesign(d)
  /\ EditDesigns \subseteq Designs /\ {MaxBlocks, MaxEdits, MaxCopies} \subseteq Nat

VARIABLE edits    \* edits since the last link

shellVars == <<dbVars, libVars, linkVars, edits>>

NoDesign == [cell |-> <<>>, nets |-> <<>>, top |-> {}, binds |-> {}, supply |-> {},
             pinNet |-> <<>>, portNet |-> <<>>]

ShellInit ==
  /\ DbInit /\ LibraryInit
  /\ design = NoDesign /\ absent = {} /\ warned = {}
  /\ edits = 0

\* Libraries are read until the first edit only: a bound, the edits do not read
\* them but for the masters there are.
ReadLibraries ==
  /\ edits = 0
  /\ (\E l \in Lef : ReadLef(l)) \/ (\E y \in Liberty : ReadLiberty(y))
  /\ UNCHANGED <<dbVars, linkVars, edits>>

\* A bound: any design is linked first, some are followed by another link.
Link ==
  \/ /\ blocks = 0
     /\ \E d \in Designs : LinkDesign(d)
     /\ edits' = 0
  \/ /\ design \in EditDesigns /\ blocks < MaxBlocks
     /\ \E d \in EditDesigns : LinkDesign(d)
     /\ edits' = 0
  \/ /\ design \in EditDesigns /\ Len(libraries) <= MaxCopies * Len(dbLibs)
     /\ LinkFails
     /\ UNCHANGED edits

\* A bound: the network is looked at and edited when few libraries were read.
Editable == design \in EditDesigns /\ Len(dbLibs) = 1 /\ Len(liberties) <= 1

\* The engine asks for the drivers of a net.
Ask ==
  /\ Editable
  /\ \E n \in Net : Drivers(n)
  /\ UNCHANGED <<libVars, linkVars, edits>>

\* makeInstance is given a liberty cell and looks for a master of its name.
EditNetwork ==
  /\ Editable /\ edits < MaxEdits
  /\ Edit
  /\ insts' \subseteq insts \/ \E c \in CellName : LibertyOf(c) # NoLib /\ HasMaster(c)
  /\ edits' = edits + 1
  /\ UNCHANGED <<libVars, linkVars>>

ShellNext == ReadLibraries \/ Link \/ Ask \/ EditNetwork

ShellSpec == ShellInit /\ [][ShellNext]_shellVars
-----------------------------------------------------------------------------
\* Before it is edited a block has the connections of its design.
LinkedFlat == edits = 0 => Flattened

\* The commands are steps of DbNetwork: nothing they do to the network is
\* outside of what its map of drivers is proved to follow.
ImplementsDbNetwork == DbSpec
=============================================================================
