# A TLA+ model of the artificial netlist generator

The generator is a command of an OpenROAD shell. It reads a specification of a circuit (histograms of fanin, fanout,
net box and edge length, a cell list, a depth and a ratio of logic) and builds a
gate-level netlist of it. It is a sequential program driven by Tcl commands.
What makes it hard is not concurrency but choice and long sequences: every
`random_shuffle`, `rand()`, pointer comparison and unordered map decides which
edge is drawn, which registers are merged and which name a net gets, and each
step edits several structures that must agree with each other. Around it, the shell reads libraries
and netlists into a database, over which a network API serves a timing engine
that keeps answers of its own.

Paths below are relative to the repository; `ANG` is `src/ArtNetGen/src`.

## 1. Inventory

| Component | State | Operations | Must hold |
|---|---|---|---|
| Initialization, primary pins (`ANG/netlist.cpp` 176-451) | `layoutDimX_/Y_`, `bins_`, `nodes_`, `primIns_`, `primOuts_` | `initialize`, `setPrimaryIO` | every node in a bin; lists and types agree; pins as asked for or a message |
| Edge matching (`ANG/distMatching.cpp`, `connect`, `ANG/bin.cpp`) | `sources_`, `sinks_`, boxes, lists of the bins, counts of the distributions | `distMatching`, `getSinkBins`, `getMaxGain`, `connect`, `Bin::update` | no loop, no repeated edge, degrees in range, tables in step, undriven nodes served |
| Timing paths (`ANG/techMapping.cpp` 606-870, 1283-1533) | types, the two vectors, `targets`, running counts | marking, front loop, back loop, splitting | no loop without register, no path cut, depth bounded, every register mappable, the loops end |
| Technology mapping (`ANG/techMapping.cpp` 31-496, `ANG/node.cpp` 234-330) | `master_`, `node2term_`, nets and their names | turns of the masters, `mappingTerms`, net building | loops end, every pin on one net, one driver per net |
| Writers (`ANG/artNetGen.cpp` 200-382) | none; they read nets and nodes | `writeVerilog`, `writeSdc` | what is written is the graph |
| Distributions (`ANG/distribution.cpp`) | value, target, count per value | `init`, `incr`, `decr`, sampling | targets add up, counts are histograms |
| Session (`ANG/artNetGen.cpp`, `.tcl`, `.i`) | cell list, distributions, `artnet_`, parameters | init, set parameter, run, write | repeated init, writing before a run |
| Specification writer (`ANG/writeSpec.cpp`) | none kept | `createSpec`, `writeSpec` | what is written can be read back |
| Network (`src/dbSta/src/dbNetwork.cc`) | `block_`, `top_cell_`, the set of drivers per net (`net_drvr_pin_map_`), links between masters and liberty cells | make, delete, connect, disconnect; `readLefAfter`, `readLibertyAfter`, `readDbAfter` | no driver missing from the map; every master finds its cell and back, in any order of files |
| Verilog to database (`dbReadVerilog.cc`) | none kept | `makeDbInsts`, `makeDbNets` | the flat block connects what the hierarchy connects |
| Shell (`src/OpenRoad.cc`, `dbSta.cc`) | database, observers | `readLef`, `readLiberty`, `linkDesign`, `readDef`, `readDb` | the observer follows every command |
| Logger (`ANG/logger.cpp`) | the log file | `errorQuit` and messages | |

How they interact: `Netlist::generate` (`ANG/netlist.cpp` 35-69) calls
initialization, pins, matching, timing paths and mapping one after the other on
one `Netlist`; each takes what the one before left. The writers follow on the
same object. The session owns the cell list and the parameters all of them read.
A netlist that was written comes back through the shell: `linkDesign` links what
`read_verilog` parsed, `Verilog2db` makes a flat block of it, and the observer
`dbSta` makes ports and libraries anew. From then on edits and the questions of the
engine alternate. After placement `writeSpec` measures the block. Nothing is
persisted and nothing runs in parallel.

The engine (`src/OpenSTA`) is a submodule whose directory is empty. What the models
need of it is how the code here uses it: `Network::drivers` fills the map at the
first question for a net, `linkNetwork` leaves a tree of modules or nothing, and a
pin is a driver if it is an output of a leaf or an input of the top. These
definitions are marked external in `PROJECT.json`.

The hard behaviours are listed line by line under `hazards` in `PROJECT.json`,
each with the properties that would catch it going wrong.

## 2. Modules

| Module | Models | Source |
|---|---|---|
| `Floorplan` | growing the layout, dealing out the nodes, choosing pins | `netlist.cpp` 176-245, 341-451 |
| `EdgeMatching` | abstract matching: any pair that may be connected is | the guards of `distMatching.cpp`, `connect` |
| `GainMatching` | matching in detail: gains, bins, lists, counts, boxes | `distMatching.cpp`, `bin.cpp`, `connect` |
| `Rewiring` | abstract timing paths: mark, put a register in front of or behind a set of registers | `techMapping.cpp` 606-850, 1291-1374 |
| `TimingPath` | timing paths in detail: the four loops on vectors | `techMapping.cpp` 522-575, 606-870, 1283-1374, 1485-1533 |
| `TechMapping` | masters, terms, nets, written pins | `techMapping.cpp` 31-496, `node.cpp` 234-330, `artNetGen.cpp` 200-324 |
| `Session` | the Tcl commands in any order: specification, cell list, run, write | `artNetGen.cpp` 56-240, 387-545, 576-665, `artNetGen.tcl` 28-172 |
| `Distribution` | targets and sampling vector from the lines of a histogram | `distribution.cpp` 159-208, 264-274 |
| `AverageSearch` | the search for the parameter of a distribution | `writeSpec.cpp` 121-181, 220-254 |
| `SpecFile` | `create_spec`, the file, and its readers; composes the two above | `writeSpec.cpp` 121-390, `artNetGen.cpp` 451-517, `netlist.cpp` 354-394 |
| `SpecWriter` | `write_spec`: measuring a placed design | `writeSpec.cpp` 45-111, 630-963 |
| `TopoOrder` | `topologicalSort`, which `analyzeTopologicalOrder` repeats | `techMapping.cpp` 522-575 |
| `WriteSpec` | the graph of a placed design, sorted; composes the two above | `writeSpec.cpp` 393-625 |
| `DbNetwork` | the block, its edits, the map of drivers | `dbNetwork.cc` 844-928, 970-1133, its base class |
| `LibraryLink` | LEF masters and liberty cells, in any order of files | `dbNetwork.cc` 838-964 |
| `VerilogLink` | the block made of a hierarchical netlist; composes the two above | `dbReadVerilog.cc` 124-332 |
| `OpenRoad` | the commands of the shell, edits and questions in any order | `OpenRoad.cc` 159-284, `dbSta.cc` 119-149 |
| `Common` | operators on vectors, sets and numbers that several modules use | |
| `GainMatching_proofs`, `TimingPath_proofs`, `Session_proofs`, `SpecFile_proofs`, `TechMapping_proofs`, `WriteSpec_proofs`, `OpenRoad_proofs` | theorems about the module of that name, see section 5, and about those it extends or implements: `EdgeMatching` with `GainMatching`, `Rewiring` with `TimingPath`, `Distribution` and `Floorplan` with `SpecFile`, `SpecWriter` and `TopoOrder` with `WriteSpec`, `DbNetwork`, `LibraryLink` and `VerilogLink` with `OpenRoad` | |
| `Common_proofs` | lemmas on vectors, finite sums and least elements that they share | |
| `MC*` | instances for TLC | |

The modules form the pipeline of `generate`. `Floorplan` ends with the places
and types that `EdgeMatching` has as constants; `GainMatching` extends
`EdgeMatching` and implements its `Spec`; the graphs it can leave are the initial
states of `Rewiring` and `TimingPath`; `TimingPath` implements `Rewiring` under
the mapping that forgets the order in the vectors; `TechMapping` starts from
graphs as `TimingPath` leaves them. Before the pipeline, `Session` decides which
masters it works with, and `SpecFile` which histograms: it extends `Floorplan`, which
takes the totals read back from the file. After the pipeline, or after another tool
has placed its netlist, `WriteSpec` turns a design into a specification again.
`OpenRoad` is the way of a netlist into the database; it extends `VerilogLink`, which
extends `DbNetwork` and `LibraryLink`, and implements `DbNetwork`.

### State and actions

* `EdgeMatching`: `sources` and `sinks` are the vectors of the same name.
  `Connect(u, v)` is one `Netlist::connect`; `Connectable` collects the
  `continue`s and loop bounds that precede it. Addresses are a constant because
  an edge inside one bin is drawn only towards the higher address.
* `GainMatching`: `Round(len)` is a turn of the `while` loop that finds a pair.
  Every `random_shuffle` is a free choice among ties, and the strict comparisons
  of the code decide which ties there are: `BestSources` (any source with the
  best box gain), `BestPairs` (the lowest fanin of equal gain), `MaxGain` (the
  lowest fanout of equal gain), `Winners` (any bin pair of equal gain). A turn
  that finds nothing changes nothing.
* `Floorplan`: `GrowLayout`, `PlaceNodes`, `ScanInputs` and `ScanOutputs` are the
  loops in their order; a scan that runs off the layout leaves the program.
  The node count is computed in doubles, so where it is an integer the value
  below it is allowed too (`InitCellCnts`). `SpecFile` starts it with what `readSpec`
  returned, or with counts given by hand (`CountsByHand`).
* `TimingPath`: `MarkPass`/`EndMarking`, `VisitBin`/`NextLength`/`LeaveLoop` for
  both merging loops, `SplitOff`/`KeepNode`/`Finish`. `std::sort` is not stable,
  so `Sorted` leaves nodes of one degree in any order, and `todo` stands for the
  shuffled `idx`. A sort that puts no two nodes that fit together next to each other
  makes the code skip the bin, although another would show a pair (`MayFindNone`). The
  back loop looks at the first two candidates only, as the
  unconditional `break` at line 803 makes it do, and at their loads only. `Overrun` is a
  merge that passes the end of a table of degrees, which limits of 1 allow. `order` is the depth that
  `topologicalSort` computes: the subject of `TopoOrder`, where `OrderExact` says
  that the last driver of a node to be taken from the queue is a deepest one.
* `TechMapping`: `AssignMaster` is one turn of the `for` loop with its inner
  `while`; `MapTerms` is `Node::mappingTerms`, both checks included; `BuildNet`
  is one output term of one node, in any order, as `out2sinks` is unordered;
  `WriteVerilog` resolves `term2net`, in which the last net naming a pin wins. A master
  may have several clock and reset pins: `clkIn` and `rstIn` are single keys of
  `node2term_`, so of each kind only the last pin is written (`Controls`).
* `Session`: `masters` is `masters_` with the ratios of `master2ratio_`; `InitCmd`
  is `artnetgen_init`, with `readSpec` and `checkMasters`; `artnet` is what
  `artnet_` points to. A command that uses a pointer never set, or a table past its
  end, makes `pc` "undefined"; a run that ends in `summaryDesign` leaves the program.
  `RunWithout(kind)` is a run that draws a kind of node of which no master is left: a logic
  node indexes an empty vector modulo 0, a register makes the splitting loop go on for
  ever ("stuck"). Which kinds a run draws is left open.
  `Write` is either writer: both follow `artnet_` and nothing else.
* `Distribution`: `ReadLine`, `SetTarget` and `SetCount` are turns of the loops of
  `init`. The share is a `float` rounded up, so where it is exact one more is
  possible too (`Shares`). `ReadBehindEnd` is the read past the ratios of a file
  that is too short.
* `AverageSearch`: `Search` is one turn of either loop. The distribution itself
  is any monotone table from steps of lambda to averages; what `exp` and `pow` make
  of it is left out.
* `SpecFile`: `GrowDims` to `EndSampling` are `createSpec`, once for `FANIN` and once
  for one of the other three histograms; `ReadSpec`, `GrowLayout` and
  `InitDistribution` are the readers. Files written by hand enter at the last one
  (`LinesByHand`). The shape of a distribution is any vector of positive weights.
* `SpecWriter`: a design is a set of nets with the instances that drive them (`outs`, by
  a term of use SIGNAL), those with a further output term on them (`others`, a second one
  or one of another use), the numbers of their inputs on each, and places, which are
  measured from the corner of the core and may lie outside of it. `Measure` is one turn of
  the loop over the instances; `InvalidOutput` and `NoBinSize` leave the program.
* `TopoOrder`: `Fill`, `Pop`, `VisitLoad`, `EndLoads`, `Finish` are the two loops.
  A load listed twice is visited twice.
* `DbNetwork`: `insts`, `nets`, `itermNet`, `bterms`, `btermNet` are the block,
  `topPorts` the ports of `top_cell_`, `drvrs` is `net_drvr_pin_map_`. Each edit is one
  action with all it does to the map: `ConnectPin` inserts, `DisconnectPin` erases,
  `DisconnectPort` and `DeleteInstance` do neither. `TakeBlock` is the end of every
  command that makes a block; which keys of the old map are addresses of new nets is
  a free choice. `tidy` is a history variable: it is true until an edit is made that
  the map does not follow.
* `LibraryLink`: `libraries` has a record per `makeLibrary`; `ReadLef`, `ReadLiberty`
  and `RemakeLibraries` are the three ways to get links. A link of a design makes all
  libraries once more.
* `VerilogLink`: a design is a record, as `linkNetwork` leaves it. `MakeDbInsts` leaves
  out instances without master. `MakeDbNets` is the visit of the nets in their order: each
  net that is made (`MadeAt`) claims the pins and ports of all nets it is joined with; a pin
  ends on the last net that claims it (`PinTakers`), a port on the first (`PortTakers`).
  A link asks for a technology only, which a LEF file without macros brings too; then it
  drops all instances.
* `OpenRoad`: `ReadLibraries`, `Link`, `Ask`, `EditNetwork` are the commands, the
  engine's question and the API's edits.

Definitions that begin with the comment "Mutant" are variants of the definition
that follows them, with a bug of the kind that code could have. No specification
uses them. `PROJECT.json` pairs each property with the one that breaks it, so
that a property is known to depend on the code it is about.

## 3. Runs

| Run | Instance | Shows |
|---|---|---|
| `gains` | 6 nodes, 2 x 2 bins, 7 edges | whatever is chosen: no loop, degrees in range, counts, lists and boxes exact, unserved nodes first, every round a step of the abstract matching, no node starves |
| `timing_path` | 6 matched nodes, 2 x 1 bins, target order 2 | all of the rewiring, see below |
| `timing_path_limits` | the same with a fanin limit of 1 | where the tables of degrees are left |
| `tech_mapping` | 6 nodes, 5 masters | mapping and writing, see below |
| `pins_written` | as `tech_mapping` | **violation**: an input pin is not written |
| `outputs_driven` | as `tech_mapping` | **violation**: an output port without net |
| `session` | 7 masters, 6 files, 4 commands | mapping is never handed masters it cannot work with |
| `spec_file` | 1 to 10 instances; files of up to 3 lines and counts by hand | what is asked for survives the file and is placed; targets; the search |
| `write_spec` | 4 instances, 2 ports, all of two families of designs | what is measured adds up; the depths are exact |
| `inputs_precede` | as `write_spec` | **violation**: a gate behind an input port has depth 0 |
| `open_road` | 2 LEF and 2 liberty libraries, 505 designs, 2 links, 2 edits each | links, flattening and the map of drivers, see below |
| `missing_warned` | as `open_road` | **violation**: an instance is left out without a warning |

`gains` checks the vectors of both ends (`Mirrored`), degrees and pins
(`DegreesBounded`), `Acyclic`, the counts (`HistogramsExact`), lists and boxes
(`CachesExact`), that a round draws an edge to an unserved node while it can
(`UnservedFirst`), that each round is a step of `EdgeMatching` (`ImplementsMatching`), and
that a node without driver is served if it can be (`UndrivenServed`).

`timing_path` takes all acyclic graphs on an input, four logic nodes and an
output in which every node but the input is driven. It checks that the two
vectors of a connection agree (`VectorsAgree`), that degrees stay in the range of
the tables (`DegreesInRange`), that `targets` and the running counts are those of
the netlist (`TablesExact`), that marking leaves no path beyond the target
(`DepthBounded`), that a master exists for every register at the end
(`RegistersMappable`), that pins keep their rules and no loop misses a register
(`PinRules` and `NoCombLoop`, which `Rewiring` states), that no path is ever cut
(`PathsKept`), that each step is a step of `Rewiring` (`ImplementsRewiring`) and that
the loops end (`Terminates`). `timing_path_limits` asks `DegreesInRange` again where a
specification has no FANIN line beyond 1: the back loop then gives a register two
drivers and counts it behind the end of the table. The property says that this is the
only way: the front loop passes its table with fanout limits below 2 alone, the back loop
with fanin limits below 2.

`tech_mapping` takes all graphs on an input, two logic nodes, a register and two
outputs without a loop of logic. It checks that the search for a master always
finds one (`RoomLeft`), that each connection is a written net (`EdgesWritten`) with
one driver (`OneDriver`), and which pins are written (`PinsWrittenUnlessMutual`): every
signal pin, and of the clock and the reset pins the last of each. `EdgesWritten`,
`OneDriver` and the signal pins are claimed for netlists in which no
two nodes drive each other; `pins_written` shows what happens otherwise. One master of the
instance has two clock and two reset pins. The list of masters holds none twice here;
`Session` is where such a list comes from and what it does to the search.

`session` takes every sequence of four commands with files that list a cell
without output, one with a scan input, one the library does not have, lists that
overlap, one that has a cell twice and a range that shrinks. After an `init`, each kind of
node the library can serve has a master unless `set_dont_use` took it away, and no master is
outside the tables; so a run after an `init` is undefined, or does not come back, only if
it draws a kind without inputs, a kind the library does not have or one that lost a master
(`MappingServed`). With one `init`, of a file that lists no cell twice, the rounded targets
of the masters of a kind make up its nodes (`RoomForAll`, up to `MaxNodes` of them); with a
second one, or with a cell listed twice, they need not, see section 4.

`spec_file` follows a file from `create_spec` to the sampling vector.
`TotalsSurvive`: counts that were rounded up one by one and cut still add up to
the instances and edges asked for. `ReadsInside`: only a file by hand that stops
short of `dimX + dimY` is read past its end, so the dimensions of the writer cover
those of the reader, though each grows a rectangle of its own. `AllPlaced` and
`PinsDelivered` follow the totals into the layout: every node has a place in a bin,
and the pins asked for are chosen or the program says that it cannot.
`SamplesAddUp` and `TargetsClose` are about the cap on targets that were rounded up.
`SearchEnds` says when the search for lambda ends, and that it never ends when a
step jumps over the tolerance.

`write_spec` measures designs with loops of logic, gates fed twice by one driver,
outputs on one net, outputs that are no signals, instances outside the core, and an
instance with more inputs than the file has lines for. `InstancesKept` says which instances are lost between
writing and reading, `EdgesBalance` how lengths and fanins, which are counted from
opposite ends, relate, `LengthsWritten` that a length or box is lost beyond the last line
only on account of an instance outside the core (where the core is large against the
layout), and
`OrderExact` that the depths are the longest paths of what the queue reaches.

`open_road` puts a module with a flip-flop under a top module with a buffer and takes
all ways to bind its ports: to different nets, to one net, left open, one inner net on
several ports, constant nets; one design has a module inside a module. `LinkedFlat` says what the block connects, and which two kinds of design
lose connections: where nothing of what a net is joined with is made, its pins are on none,
and where several nets that are made are joined by a module, the pins end on the
last of them and the ports stay on the first. `LibertyLinked`: however LEF files, liberty files
and links are interleaved, a master has the first liberty cell of its name, and the
cell leads back to the last master of it. `DriversComplete`: no driver is missing from
the map, whenever it was filled; `DriversExact`: it holds nothing else as long as
drivers are disconnected before they move. Both are narrower than the code: `DriversComplete`
speaks of the first block of a session only, since a second one may meet sets of the first under
the addresses of its nets (`dbNetwork.cc:1005`); and `DriversExact` leaves out the edits
after which the map is known to hold too much, a pin that is connected elsewhere without
being disconnected and an instance or a port that is deleted (`dbNetwork.cc:1019`, 1085).
No property catches those; they are listed under `hazards` as what the code does.

**Bounds.** Loops and repeated edges need two or three nodes, so six
are enough for every combination of shared bin, foreign bin, primary pin and
address order. Two bins on a line with a window of up to two bins give merges
inside a bin and across bins. Six matched nodes with fanins up to 3 give up to
three registers, two merges and two splits; in the runs two registers of which
one drives the other are merged in the front loop and in the back loop, and each
loop stops at the ratio as well as at its end. A fanin limit of 1 is the smallest a file
can have that matching draws an edge with. `MaxNode` is twice the nodes matched,
which is proved to leave room for every node the loops create (`RoomForEveryNode`). Four commands are two `init`s with a
removal between them and a run, or an `init` and three removals. Three lines on
three values have every order, gap and repetition; up to ten instances give layouts
of one, two and four bins; four lambdas with averages from 0 to 5 and a tolerance of
2 have steps that fall inside the tolerance, meet it and jump over it. Four
instances make a loop of logic behind a register and a node with three drivers of
different depths; one instance is tried at the corners and the middle of cores of four
sizes, one without area, and far outside of each. `FaninLimit` and `FanoutLimit` are the 6 and 50 of the code, made
small so that designs reach them. Two LEF libraries that share a master and two
liberty libraries that share a cell give every order of two owners; the second link
meets a map that is filled. Two edits are enough to move a driver, to delete what was
connected and to make a net or an instance in the slot of a deleted one. Edits are
explored for one design (`EditDesigns`) with few libraries (`Editable`), because they read
no libraries but for the masters there are, and libraries are read before the first
edit; links that fail stop when there are more than `MaxCopies` libraries of the network
per LEF library. Only these designs are followed by another link. The files `create_spec` makes are read back under one setting of pins
and ratio of logic: the totals do not depend on it. `MaxBlocks`, `MaxEdits`, `MaxCopies`, `TarEdgeCnt`, `MaxNode`, `Cnt`, `MaxCmds`,
`MaxLines`, `MaxFanins`, `MaxFanouts`, the two limits and the sets of counts, designs
and tables are the only bounds.

**Fairness.** One thread runs the loops, so the weak fairness of `Next` says no
more than that the program keeps running. `GainSpec` has weak fairness of
`GainNext`: `rand()` goes on drawing lengths until one that can be served comes
up. A length that can never be served is not assumed away: where no length of the
sampling vector leads to a pair the real loop spins forever, the model stops, and
`UndrivenServed` names that as one of the ways a node stays without driver.
`CHECK_DEADLOCK FALSE` is said because every part ends: the loops finish, or
the program leaves with a message.

## 4. What the violations show

* `pins_written`: `node2term_` is one map for drivers and loads. A neighbour that
  is both loses its input term, and the pin is missing from the netlist, although
  the check at `node.cpp:276-279` has just made sure that there is one term per
  source. Merging a register with one it drives makes such neighbours, if a
  sequential master with two signal inputs lets the merged register stay. The
  netlists under `test/` contain instances with an input missing.
* `outputs_driven`: a net has one name, so of two output ports on it one is never
  driven; nor is an output fed directly by an input. `summaryDesign`
  (`netlist.cpp:97-100`) checks the graph for this and finds nothing.
* `inputs_precede`: a port of direction `INPUT` drives its net, but
  `analyzeTopologicalOrder` (`writeSpec.cpp:533`) takes the direction of a port as
  it takes that of a term and draws edges from `OUTPUT` ports to `INPUT` ports. A
  gate behind an input port counts as the first of its path, which lowers the
  average that `test/nangate45/run_extract.tcl:3` describes.
* `missing_warned`: `getMaster` says at `dbReadVerilog.cc:327` that the reader of
  Verilog warns about missing cells, and leaves the instance out. But the linker asks
  `findAnyCell`, which is content with a liberty cell. An instance whose cell is in a
  liberty file and in no LEF file is dropped without a word.

Seen while modelling, and so in the actions, without a run of their own:

* `getMaxGain` fixes one source per fanout, by its box gain, before it looks at
  sinks. It may return a lesser pair or none, against the comment at
  `distMatching.cpp:120` (`BestSources`, `MayFindNothing`).
* `artnetgen_set_parameter -dont_use`, which `README.md:69-70` documents, calls a
  procedure that does not exist (`artNetGen.tcl:44`) and changes nothing
  (`SetParameterDontUse`).
* A second `artnetgen_init` adds its cell list to that of the first
  (`artNetGen.cpp:449`), and nothing stops a file from listing a cell twice
  (`artNetGen.cpp:437-449`). Either way a master that is in the list twice has its share
  divided twice, the targets no longer make up the nodes, and the search for a master
  with room may not end. This is why `RoomForAll` speaks of one `init` and of a file
  without repetition (`ListedOnce`).
* A run that draws a kind of node of which `set_dont_use` took the last master, or which
  the library does not have, takes an index modulo 0 (`techMapping.cpp:270-271`,
  337-338; `RunWithout`).
* With limits of 1 a merge leaves the tables of degrees (`techMapping.cpp:797-798`;
  `Overrun`).
* Of several clock or reset pins of a master only the last is connected
  (`node.cpp:311-322`; `Controls`).
* `create_spec` can search for ever (`SearchRunsOn`, the second half of `SearchEnds`).

## 5. Proofs

A theorem holds for every value of the constants that satisfies the named assumptions of
its module: every set of nodes, layout, library, netlist, target and design. The
assumptions say what the code is given (a number of nodes, limits that are numbers, a
typing of the nodes, a library in which a master has an output and a share) and TLC
evaluates them on every run. `PROJECT.json` lists the theorems; this section gives the
arguments.

### Matching (`GainMatching_proofs`)

The first part is about `EdgeMatching`: `TypeOK`, `Mirrored`, `DegreesBounded` and `Acyclic`
always hold. The inductive invariant joins the first three with the fact that every edge
leads ahead (`Ahead`, with the ends not primary pins of the wrong kind). Mirroring alone
is not inductive without `TypeOK`, and `Acyclic` is not inductive at all. It follows: in
a set of nodes, take one whose bin and address come first; a driver of it in the set
would come before it.

The second part proves that `GainSpec` implements `EdgeMatching`, and `CachesExact`
with it. Each needs the other: a round looks at the lists of the bins and not at degrees,
so that the pair it draws is one that may be connected follows from lists that are exact
(`ListsExact`), and lists stay exact because the edge drawn is the winner's. Boxes are the
extremes of the places of a net (`BoxesTight`), and grow by the place of the new node. The
invariant of the first part carries over by the refinement, and
`GainMatchingAcyclic` with it.

The third part proves `HistogramsExact`. `connect` counts a node down at one value and up
at another; that both are right needs the lists and boxes of `GainInv`, and that both are
entries of the table needs the degree limits and `LayoutAssumption` (`InRange`). The rest
is one lemma: a table that counts the values of a function still does after one node moved
(`MoveCount`). The new edge is counted once because it was none before.

`UnservedFirst` is an action property. The targets enter a gain by three terms, each
between -2 and 2 whatever the counts are (`ImprovementSmall`). So a pair with an undriven sink is
worth 10 at least and a pair of served nodes 6 at most; where a source with fanout to spare
and an undriven node in another bin are as far apart as the drawn length, `getMaxGain`
between their two bins finds a pair (`BestPairExists`), and the winner of the round is no
worse than what it finds (`ServesUndriven`).

`AlwaysServable` is the safety half of `UndrivenServed`: while there is such a source and
node, a round with their distance has a winner (`WinnerExists`), so the loop stops at
nothing but an unlucky draw. Every call of `getMaxGain` has a result (`PairsHaveGains`,
`MaxGainExists`), and those of a round have a largest gain, since no gain exceeds 38.

### Timing paths (`TimingPath_proofs`)

`TypeOK`, `PinRules` and `NoCombLoop` hold of the abstract module for all initial graphs.
They are proved of its instance in `TimingPath` (`Abstract`), without a look at what `nodes`,
`type` and `edges` stand for there. Marking only takes nodes out of the logic. For a merge or a split take
a set of nodes that are no registers afterwards: it does not hold the new register; the
part of it outside the old registers was logic before and so has a member without driver
in it, and an old register put behind the new one has no other driver, while one put
before it drives nothing else. This is why merging a register with one it drives is safe.

All the invariants of `TimingPath`, `PathsKept` and the refinement are proved. The inductive invariant `IInv` has the types of the tables; `VectorsInv` (the
two vectors of a connection know each other, hold nothing twice, stay within the degrees,
and a node not created yet has none); `TablesExact`; and `Passed`, what the splitting loop
has left behind it, without which `RegistersMappable` says nothing about the end. The
central lemma is `MoveVectors`: what becomes of every vector when the drivers or the loads
of one or two registers move to a new one. `createMergeNode` does that one connection
at a time, on the near vector and on the far one, so that the loops over the two
registers meet vectors the first has changed; two registers that share a neighbour or
drive each other are the hard cases. The lemma is stated for either direction, so merging
in front, merging behind and splitting are three uses of it. Degrees stay in range because
the neighbours of the pair chosen fit (`MovedDegrees`) and the pair itself does with limits
of 2 or more (`OverrunInv`), paths are kept because a register moved stays next
to the new one (`MoveKeeps`), and each step is a step of `Rewiring` or none
(`NextRefines`). The theorems about `Rewiring` then hold of the loops of the code
(`TimingPinRules`, `TimingLoopFree`). They are needed once more: the recursion that stands
for the depths is defined because there is no loop of logic (`OrderDefined`), and marking
that has settled then bounds them (`MarkingBoundsDepth`).

`RoomForEveryNode` is about the bound of the run. A register made by a merge takes the place
of two, and one made by a split takes a load from a register that had several, so the
nodes created never exceed the nodes matched (`Room`, from `SplitTakesOne` and
`KeepTakesNone`): with `MaxNode` twice `MatchedCnt`, which is 12 in the run, no step the code
would take is kept from happening. The hypothesis is that the library has a register of
one input. Without it what is split off has no master either, and the splitting loop
lengthens its list for ever. `StagesRunOut` is the safety half of `Terminates`: each step
begins a later stage or takes something from what its stage has only so much of.

### Measuring and sorting a design (`WriteSpec_proofs`)

`SortGivesDepths` proves `OrderExact` for every graph the sort is started with, whatever
loops it has and however often two nodes are connected. A node waits for as many
connections as there are not seen yet (`Counted`), those of the nodes that left the queue
up to the load that is looked at; they are counted as pairs of a driver and an index in
its vector, because a load listed twice is counted down twice. That the last driver seen
is the deepest rests on the queue: it is ordered by depth and never holds more than two
depths (`Layered`). That the nodes left with -1 are those on or behind a loop follows at
the end, when nothing is left to be seen: such a node has a driver that is itself left.
`AlwaysOrderExact` applies this to `write_spec`: what is put together from the nets of a
design is always such a graph (`GraphOfDesign`), and measuring does not touch it.

For the histograms the invariant says what each stands for while the loop runs
(`HistsExact`): a value is counted once for each instance measured that has it
(`TallyMore`), and the lengths are as many as these instances have fanouts (`EdgesMore`).

* `InstancesKept`: the lines up to a limit add up to the instances with a value up to it
  (`LinesOfTally`).
* `EdgesBalance` counts one set of connections in two ways. From the loads: values times
  counts are the fanins of all instances (`WeightOfTally`), which are the signal inputs on
  all nets. From the drivers: no net has a second output term, or the program would have
  left, so the nets driven by some instance are put together from those each instance drives
  (`FanoutsAreTerms`). The difference is in the nets no instance drives with a signal output and in
  the clock and reset inputs (`SidesBalance`). Sums are rearranged by the lemmas of `Common_proofs`
  (`SumSwap`, `SumByKey`).
* `LengthsWritten`: a distance is at most the half perimeter of the core, and a bin has a
  side the rounding of which is made up for when the remainder is smaller than the side
  (`LineOfDistance`). So a length or a box that has no line is not of instances in the core.

### Specification, distributions and layout (`SpecFile_proofs`)

Six of the theorems rest on one invariant, `IInv`, with a part for each stage of a behaviour. TLC
checks it too, on the instance of `spec_file`, where all six properties are checked.

* `TotalsSurvive` and `SamplesAddUp` are the same argument on different sums (`Enough`): the
  values that have a count have at least the share of the rolls that their weights ask for,
  or all the rolls are gone. Counts are rounded up, and what is cut takes all that is left,
  so a step keeps it (`EnoughStep`, `ShareStep`); and when every value has its count, the
  share is everything (`CancelFactor`). For the second, the vector of ratios must add up to
  the ratios of the lines (`RatioSums`), although a line may skip values or land behind
  those of later values: what `resize` and `push_back` leave is followed entry by entry
  (`PaddedLine`).
* `TargetsClose` needs the bound from above as well: rounding gives each ratio above 0 at
  most one more than its share, and what is cut is only what earlier ratios got too much.
* `ReadsInside`: `createSpec` and `Netlist::initialize` grow their layouts by different
  comparisons, one for the instances asked for and the other for the instances read back,
  which are as many because of `TotalsSurvive`. Both lengthen the sides in turn (`Staircase`), and a layout that
  still grows has fewer bins than the other ended with, so it is not the larger
  (`SmallerLayout`). The lines `createSpec` writes go to the sum of its sides, which the
  reader does not exceed.
* `AllPlaced`: the average number of nodes per bin is rounded up, so that it covers all
  nodes (`PlaceKeeps`). `PinsDelivered`: the pins taken so far are just the nodes of the
  bins scanned so far (`InputsTaken`, `OutputsTaken`), by the division that tells a bin's
  row and column from its index (`PlaceOfBin`). A scan that leaves the layout has therefore
  taken all nodes of the row or column, which are too few. A node that is both in the front
  row and in the last column may be taken twice; the place where that happens is part
  of the property.

The search for lambda has an invariant of its own (`SearchInv`): lambda stays on the grid,
and the averages rise or fall along it, so that those too large and those too small lie on
two sides of a place and the search steps towards it from either. `AlwaysRunsOn` proves the second half of `SearchEnds`: where
the average lies between those of two neighbouring lambdas and neither is close enough,
the search never comes back, for every table of averages. `AlwaysNearer` is the safety part
of the first: where the average can be reached and the steps are fine enough, a turn finds
lambda, or steps to where it is found, or has one step less to go.

### Session (`Session_proofs`)

`MappingServed` speaks of the list as it is after any number of commands. The inductive
invariant, `IInv`, says of the list and of the one `artnet` was made from that all its masters
can be placed and are within the range (`Placeable`); that there is one for each kind the
library serves until one is removed (`Complete`); that before the first `init` there is
nothing (`Fresh`); and that with one `init`, of a file without repetition, no
master is in the list twice (`Single`). A run after an `init` then fails only for a kind
that has no master, and `Complete` says which these are. The work is in what `checkMasters` makes of a list
(`CheckMastersServes`), from one kind (`OfKindPicks`, `ListedOrLibraryServes`) to all of
them put one behind the other (`FlattenHolds`, `FlattenApart` of `Common_proofs`).

`RoomForAll` follows from `Single`. A master that is listed once has its share divided
once (`OnlyRatio`), so the sum over the entries is the sum over the masters (`SumByKey`), and
shares rounded up suffice (`SharesSuffice`, as in `RoomLeft` below). The theorem has no bound
on the nodes; `MaxNodes` bounds what TLC tries. `AlwaysHandedOver` ties the session to the
mapping: what a run hands over is what `MasterAssumption` of `TechMapping` asks for.

### Technology mapping (`TechMapping_proofs`)

`IInv` follows the loops. `RoomLeft`: the shares of the masters of a kind are rounded up,
so they add up to the nodes of the kind at least, while the node that waits is not among
those that have one; hence some master has fewer nodes than its share (`RoomWhileAssigning`,
with the lemmas on sums of `Common_proofs`). This is why the inner `while` ends.
`EdgesWritten`, `OneDriver` and `PinsWrittenUnlessMutual` come from what a handled node
has for its neighbours (`HandedRight`): an input term of its own for each driver, an
output term for each load. The nets made so far are those of the used output terms met so
far, each with exactly the loads of its term and under a name no other net has
(`NetsRight`, `NameIsNew`): the name of a port is that of its only driver, and the numbers
rise. `IInv` also says what holds where two nodes drive each other and one term was
overwritten; the properties have `NoMutual` as a condition, and `pins_written` shows
that they must. Clock and reset pins need no such condition: no neighbour is a key for them.

### The network and the shell (`OpenRoad_proofs`)

`DriversComplete` and `DriversExact` hold of `DbNetwork` for every set of masters and
ports, all edits and all blocks, those of DEF files and of a database included
(`LoadBlock`). The invariant adds that the map is empty until there is a block (`Fresh`),
which is why the first block finds no set of another one. For an edit that moves a pin the
old net loses a driver and the new one is told; a set too large is still complete, and
`tidy` excludes just the edits that leave one too large.

`LibrariesLinked` holds for any number of files and links in any order. `LibertyLinked`
speaks of the last library made of a LEF file, but later ones take over only if the
earlier were right, so `LibInv` says of every library made what its cells are linked to
(`LinksFirst`), that behind it is one of the last LEF file with the same cell (`LastBehind`),
and that the liberty cell leads back to it (`LeadsBack`).

`BlockIsFlat`: being joined by modules is an equivalence between nets, so nets that are
joined are made the same nets of the block; a pin stays on the last net that claims it and
a port on the first. A net is lost exactly if what it is joined with is met nowhere
(`TakersFacts`). `Landed` says where every pin and
port ends, and `LinkedFlat` follows. Its two exceptions are part of the property: the code
loses those connections.

`ShellImplementsDbNetwork` proves that every command is a step of `DbNetwork` or none; for
a link that is `Landed` again, which shows that what was made is a block. So the theorems
about the map of drivers hold of the shell (`ShellDriversComplete`, `ShellDriversExact`).

### What is only model-checked

* What needs fairness (`UndrivenServed`, `Terminates` and the first half of `SearchEnds`,
  `SearchStops`): the prover reaches neither fairness nor `ENABLED`. What each rests on is
  proved, that there is a step to take and that it leads on (`AlwaysServable`,
  `StagesRunOut`, `AlwaysNearer`); that this adds up to an end is TLC's to check. Every other
  property of the passing runs is a theorem.
* What a recursive definition computes for every input. Theorems of induction have an
  operator as parameter, which the prover cannot instantiate. Where a proof needs one it
  is done by hand, with the least number or the smallest set that fails (`NatLeast`,
  `SmallestSet`, `PartsInduction`).

## 6. Not modelled

Names, messages and file layout, what `writeSdc` prints included; the cell list that
`create_spec` and `write_spec` copy into the file; the second version of
`timingPathConstruction` and the functions only it calls, which nothing calls; the boxes
and lists of the bins after matching, which nothing reads any more; rounding of doubles
in the ratio of logic and in the masters' shares, which are exact here; the averages
that `write_spec` prints beside the histograms.

Of the designs `write_spec` measures: terms and ports of direction INOUT, which
extend boxes, and INPUT ports of a use other than SIGNAL.

Of dbSta: iterators and casts of pointers, which keep no state; escaping of names;
`findClkNets`, which searches the engine; `dbSdcNetwork`, which matches name patterns;
`replaceCell`, which the code allows between masters of the same terminals only and so
changes no connection; `deletePin` of an instance's pin and `mergeInto`, which leave the
program. What a DEF file or a database holds is any block (`LoadBlock`): the theorems
cover it, the run does not enumerate it. Of the shell: start-up, the glue to Tcl, the
writers of DEF and of the database. The logger formats text and, in `errorQuit`, ends
the program, which is where it shows in the other modules.

## 7. Plan

Done: all modules of section 2, the proofs of section 5.
