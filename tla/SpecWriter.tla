----------------------------- MODULE SpecWriter ------------------------------
(***************************************************************************)
(* ArtNetGen::writeSpec: a placed design is measured instance by instance, *)
(* and the histograms become the lines of a specification file, from which *)
(* readSpec takes the number of instances.                                 *)
(*                                                                         *)
(* A distance is divided by the side of a bin, which is itself rounded     *)
(* down.  Terms without a net play no part and are left out.               *)
(***************************************************************************)
EXTENDS Integers, Sequences, FiniteSets, FiniteSetsExt, Functions, SequencesExt, Folds, Common

CONSTANTS
  Inst,         \* the instances, 1..n
  Designs,      \* [at, width, height, nets]: place of each instance against the
                \*   corner of the core, size of the core, and the nets:
                \*   [outs, others, ins, ctl], the instances with a SIGNAL output
                \*   term on it and those with a further output term, a second
                \*   one or one of another use, the number of signal inputs of
                \*   each instance and that of its clock and reset inputs
  MaxInSigCnt,  \* getMaxInSigCnt(): inputs of the largest master
  FaninLimit,   \* 6
  FanoutLimit   \* 50

ASSUME DesignAssumption ==
  /\ IsFiniteSet(Inst) /\ Inst = 1..Cardinality(Inst) /\ Inst # {}
  /\ MaxInSigCnt \in Nat /\ FaninLimit \in Nat /\ FanoutLimit \in Nat
  /\ \A d \in Designs :
       /\ d.width \in Nat /\ d.height \in Nat
       /\ d.at \in [Inst -> Int \X Int]
       /\ Len(d.nets) \in Nat /\ DOMAIN d.nets = 1..Len(d.nets)
       /\ \A n \in DOMAIN d.nets :
            /\ d.nets[n].outs \subseteq Inst /\ d.nets[n].others \subseteq Inst
            /\ d.nets[n].ins \in [Inst -> Nat] /\ d.nets[n].ctl \in [Inst -> Nat]
       /\ \A i \in Inst :
            SumFunction([n \in DOMAIN d.nets |-> d.nets[n].ins[i]]) <= MaxInSigCnt

VARIABLES
  design,       \* the design in the database
  next,         \* the instance measured next
  fanin, fanout, bbox, edgelen,   \* the histograms: bags of values
  instanceCnt,  \* what readSpec makes of the file
  phase         \* "measure", "sort", "read", "exit", "crash"

hists == <<fanin, fanout, bbox, edgelen>>
measureVars == <<design, next, hists, instanceCnt, phase>>

Abs(x) == IF x < 0 THEN -x ELSE x
Smaller(a, b) == IF a < b THEN a ELSE b

numInsts == Cardinality(Inst)

\* dimX + dimY after the loop over the dimensions, which grows dimX first
DimSum(cnt) ==
  CHOOSE s \in 2..(cnt + 2) :
    LET Bins(t) == ((t + 1) \div 2) * (t \div 2)
    IN  Bins(s) >= CeilSqrt(cnt) /\ \A t \in 2..(s - 1) : Bins(t) < CeilSqrt(cnt)

\* Mutant: as many lines as the library has inputs.
maxFaninsOfLibrary == MaxInSigCnt

\* Values the file has FANIN lines for, and lines of lengths and boxes
maxFanins == Smaller(FaninLimit, MaxInSigCnt)
maxLength == DimSum(numInsts)

\* Mutant: the bin is measured on one side.
binSizeOfWidth == design.width \div maxLength

binSize == (design.width + design.height) \div maxLength

Nets == DOMAIN design.nets
DrivenBy(i) == {n \in Nets : i \in design.nets[n].outs}

\* Input terms of an instance on a net, of whatever use; and who has any
Terms(n, j) == design.nets[n].ins[j] + design.nets[n].ctl[j]
OnNet(n) == design.nets[n].outs \cup design.nets[n].others \cup {j \in Inst : Terms(n, j) > 0}

\* Fanins are the signal inputs, fanouts all input terms of the nets driven.
numFanins(i) == SumFunction([n \in Nets |-> design.nets[n].ins[i]])
EdgesTo(i, j) == SumFunctionOnSet([n \in Nets |-> Terms(n, j)], DrivenBy(i))
numFanouts(i) == SumFunction([j \in Inst |-> EdgesTo(i, j)])

Length(i, j) ==
  (Abs(design.at[i][1] - design.at[j][1]) + Abs(design.at[i][2] - design.at[j][2])) \div binSize

\* Half perimeter of the box around an instance and the nets it drives
Box(i) == {i} \cup UNION {OnNet(n) : n \in DrivenBy(i)}
bboxSize(i) ==
  LET Span(c) == Max({design.at[j][c] : j \in Box(i)}) - Min({design.at[j][c] : j \in Box(i)})
  IN  (Span(1) + Span(2)) \div binSize

\* Bags of values: value |-> how often
Count(h, v) == IF v \in DOMAIN h THEN h[v] ELSE 0
Plus(h, v, k) == [x \in (DOMAIN h) \cup {v} |-> IF x = v THEN Count(h, x) + k ELSE h[x]]

Loads(i) == {j \in Inst : EdgesTo(i, j) > 0}
LoadsAt(i, v) == {j \in Loads(i) : Length(i, j) = v}

\* Mutant: every load counts once.
EdgesToLoadsOnce(h, i) ==
  [v \in (DOMAIN h) \cup {Length(i, j) : j \in Loads(i)} |->
     Count(h, v) + Cardinality(LoadsAt(i, v))]

\* One edge for each input term on the nets the instance drives
EdgesOf(h, i) ==
  [v \in (DOMAIN h) \cup {Length(i, j) : j \in Loads(i)} |->
     Count(h, v) + SumFunctionOnSet([j \in Inst |-> EdgesTo(i, j)], LoadsAt(i, v))]

FanoutCut(i) == Smaller(numFanouts(i), FanoutLimit)

\* Sum of the lines 0..max of a histogram
LinesSum(h, max) == SumFunction([v \in 0..max |-> Count(h, v)])
-----------------------------------------------------------------------------
MeasureInit ==
  /\ design \in Designs
  /\ next = 1
  /\ fanin = <<>> /\ fanout = <<>> /\ bbox = <<>> /\ edgelen = <<>>
  /\ instanceCnt = 0
  /\ phase = "measure"

SharedOutput(i) ==
  \E n \in DrivenBy(i) : design.nets[n].outs # {i} \/ design.nets[n].others # {}

\* One turn of the loop over the instances
Measure ==
  /\ phase = "measure" /\ next \in Inst
  /\ ~ SharedOutput(next) /\ binSize # 0
  /\ fanin' = Plus(fanin, numFanins(next), 1)
  /\ fanout' = Plus(fanout, FanoutCut(next), 1)
  /\ bbox' = Plus(bbox, bboxSize(next), 1)
  /\ edgelen' = EdgesOf(edgelen, next)
  /\ next' = next + 1
  /\ UNCHANGED <<design, instanceCnt, phase>>

\* A second output term on a net, of whatever use, ends the program.
InvalidOutput ==
  /\ phase = "measure" /\ next \in Inst /\ SharedOutput(next)
  /\ phase' = "exit"
  /\ UNCHANGED <<design, next, hists, instanceCnt>>

\* In a core smaller than the layout a bin has no side: division by zero.
NoBinSize ==
  /\ phase = "measure" /\ next \in Inst /\ binSize = 0
  /\ phase' = "crash"
  /\ UNCHANGED <<design, next, hists, instanceCnt>>

\* Only the values up to the limits get a line.  The last line is the average
\* depth, for which the design is sorted.
WriteLines ==
  /\ phase = "measure" /\ next \notin Inst
  /\ phase' = "sort"
  /\ UNCHANGED <<design, next, hists, instanceCnt>>

\* readSpec adds up the FANIN lines; CELL_COUNT is not looked at.
ReadSpec ==
  /\ phase = "sort"
  /\ instanceCnt' = LinesSum(fanin, maxFanins)
  /\ phase' = "read"
  /\ UNCHANGED <<design, next, hists>>

MeasureNext == Measure \/ InvalidOutput \/ NoBinSize \/ WriteLines
-----------------------------------------------------------------------------
Total(h) == SumFunction(h)

\* Reading the file back gives the instances that were measured but for those
\* with more inputs than the file has lines for, which are lost without a word.
InstancesKept ==
  phase = "read" =>
    instanceCnt = numInsts - Cardinality({i \in Inst : numFanins(i) > FaninLimit})

\* The lengths are counted from the drivers, the fanins from the loads.  They
\* agree but for the inputs on nets that no instance drives with a SIGNAL output
\* (a port does, or nothing), which have no length, and the clock and reset
\* inputs an instance drives, which are no fanin.
EdgesBalance ==
  LET Undriven == {n \in Nets : design.nets[n].outs = {}}
      signals == [n \in Nets |-> SumFunction(design.nets[n].ins)]
      controls == [n \in Nets |-> SumFunction(design.nets[n].ctl)]
  IN  phase = "read" =>
        Total(edgelen) + SumFunctionOnSet(signals, Undriven)
          = SumFunction([v \in DOMAIN fanin |-> v * fanin[v]])
              + SumFunctionOnSet(controls, Nets \ Undriven)

\* Instances that are not placed in the core, which is not looked at
Outside(i) == design.at[i][1] \notin 0..design.width \/ design.at[i][2] \notin 0..design.height

\* The side of a bin is rounded down, which makes lengths come out larger.  In
\* a core that is large against the layout that loses none: when the lines of
\* the file miss a length or a box, it is longer than the last line and has an
\* instance outside the core.
LengthsWritten ==
  /\ phase = "read"
  /\ (design.width + design.height) % maxLength < (design.width + design.height) \div maxLength
  => /\ LinesSum(edgelen, maxLength) # Total(edgelen) =>
          \E i \in Inst : \E j \in Loads(i) :
            Length(i, j) > maxLength /\ (Outside(i) \/ Outside(j))
     /\ LinesSum(bbox, maxLength) # numInsts =>
          \E i \in Inst : bboxSize(i) > maxLength /\ \E j \in Box(i) : Outside(j)
=============================================================================
