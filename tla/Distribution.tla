---------------------------- MODULE Distribution -----------------------------
(***************************************************************************)
(* Distribution::init and getSamplingVector: the histogram lines of a      *)
(* specification file become a vector of ratios, the ratios become targets *)
(* that share out a total, and the targets become the vector lengths are   *)
(* drawn from.                                                             *)
(*                                                                         *)
(* A ratio is an integer weight: init divides by the sum of the ratios, so *)
(* only their proportions count.                                           *)
(***************************************************************************)
EXTENDS Integers, Sequences, FiniteSets, SequencesExt

CONSTANTS
  Values,    \* values a line of the file may name
  Weights,   \* ratios a line may give
  MaxLines,  \* bound on the number of lines
  Maxima,    \* last value init is asked for
  Totals     \* totalCnt: nodes or edges to share out

ASSUME DistributionAssumption ==
  /\ Values \subseteq Nat /\ Weights \subseteq Nat
  /\ Maxima \subseteq Nat /\ Totals \subseteq Nat \ {0}
  /\ MaxLines \in Nat \ {0}

VARIABLES
  lines,        \* the vector of DistributionInfo passed to init
  max,          \* max_
  totalCnt,     \* totalCnt_
  tr,           \* ratio of value v at v + 1
  nextLine,     \* the line the first loop looks at
  totalTarCnt,  \* sum of the targets so far
  info,         \* info_: [target, count] of value v at v + 1
  sampling,     \* result of getSamplingVector before it is shuffled
  pc            \* "lines", "targets", "ready", "done", "undefined"

params == <<lines, max, totalCnt>>
distVars == <<params, tr, nextLine, totalTarCnt, info, sampling, pc>>

Line == [value : Values, ratio : Weights]
SumOf(s) == SumFunction(s)

\* totalTarRatio
totalTarRatio == SumOf([i \in DOMAIN lines |-> lines[i].ratio])

\* The values the file skips have ratio 0.
Padded(ratios, value) ==
  ratios \o [i \in 1..(IF value > Len(ratios) THEN value - Len(ratios) ELSE 0) |-> 0]

\* Mutant: the share is rounded down.
SharesDown(ratio) == {(totalCnt * ratio) \div totalTarRatio}

\* ceil(1.0 * totalCnt * ratio).  Where the exact value is an integer the
\* doubles may come out just above it, except at 0 and at the total.
Shares(ratio) ==
  LET exact == totalCnt * ratio
      up == (exact + totalTarRatio - 1) \div totalTarRatio
  IN  {up} \cup IF exact % totalTarRatio = 0 /\ ratio \notin {0, totalTarRatio}
                THEN {up + 1} ELSE {}

\* Mutant: a share that does not fit is dropped.
DroppedAtCap(share) == IF totalTarCnt + share > totalCnt THEN 0 ELSE share

\* What is left of the total, if the share is more
Capped(share) ==
  IF totalTarCnt + share > totalCnt THEN totalCnt - totalTarCnt ELSE share
-----------------------------------------------------------------------------
\* Ratios that are all 0 are left out: init divides 0.0 by 0.0 then.
DistInit ==
  /\ lines \in BoundedSeq(Line, MaxLines) \ {<<>>}
  /\ totalTarRatio > 0
  /\ max \in Maxima
  /\ totalCnt \in Totals
  /\ tr = <<>> /\ nextLine = 1
  /\ totalTarCnt = 0 /\ info = <<>> /\ sampling = <<>>
  /\ pc = "lines"

\* One turn of the loop over the lines
ReadLine ==
  /\ pc = "lines" /\ nextLine <= Len(lines)
  /\ LET line == lines[nextLine]
     IN  tr' = Append(Padded(tr, line.value), line.ratio)
  /\ nextLine' = nextLine + 1
  /\ UNCHANGED <<params, totalTarCnt, info, sampling, pc>>

EndLines ==
  /\ pc = "lines" /\ nextLine > Len(lines)
  /\ pc' = "targets"
  /\ UNCHANGED <<params, tr, nextLine, totalTarCnt, info, sampling>>

\* One turn of the loop over the values; Len(info) is the value.
SetTarget ==
  /\ pc = "targets" /\ Len(info) <= max /\ Len(info) < Len(tr)
  /\ \E share \in Shares(tr[Len(info) + 1]) :
       LET target == Capped(share)
       IN  /\ info' = Append(info, [target |-> target, count |-> 0])
           /\ totalTarCnt' = totalTarCnt + target
  /\ UNCHANGED <<params, tr, nextLine, sampling, pc>>

\* The file ends before max: tr is read and written behind its end.
ReadBehindEnd ==
  /\ pc = "targets" /\ Len(info) <= max /\ Len(info) >= Len(tr)
  /\ pc' = "undefined"
  /\ UNCHANGED <<params, tr, nextLine, totalTarCnt, info, sampling>>

\* All nodes or edges start with value 0.
SetCount ==
  /\ pc = "targets" /\ Len(info) > max
  /\ info' = [info EXCEPT ![1].count = totalCnt]
  /\ pc' = "ready"
  /\ UNCHANGED <<params, tr, nextLine, totalTarCnt, sampling>>

\* getSamplingVector: every value as often as its target says
GetSamplingVector ==
  /\ pc = "ready"
  /\ sampling' = FlattenSeq([i \in 1..(max + 1) |->
                               [j \in 1..info[i].target |-> i - 1]])
  /\ pc' = "done"
  /\ UNCHANGED <<params, tr, nextLine, totalTarCnt, info>>

DistNext == ReadLine \/ EndLines \/ SetTarget \/ ReadBehindEnd \/ SetCount \/ GetSamplingVector
-----------------------------------------------------------------------------
\* The file names its values in rising order and none behind the last one
\* init is asked for, as the writers of specification files do.
Rising == \A i, j \in DOMAIN lines : i < j => lines[i].value < lines[j].value
Within == \A i \in DOMAIN lines : lines[i].value <= max
WellFormed == Rising /\ Within

\* Ratio the file gives for a value
FileRatio(v) ==
  SumOf([i \in DOMAIN lines |-> IF lines[i].value = v THEN lines[i].ratio ELSE 0])

\* The sampling vector of a well-formed histogram has one entry for each edge
\* to draw, although every share is rounded up before the sum is capped.
SamplesAddUp ==
  pc = "done" /\ WellFormed => Len(sampling) = totalCnt

\* No target is further from its exact share than the number of values with a
\* ratio up to it: what rounding takes from the tail stays bounded.
TargetsClose ==
  WellFormed => \A v \in 0..(Len(info) - 1) :
    LET exact == totalCnt * FileRatio(v)
        off == totalTarRatio * Cardinality({u \in 0..v : FileRatio(u) > 0})
        got == totalTarRatio * info[v + 1].target
    IN  got - exact <= off /\ exact - got <= off
=============================================================================
