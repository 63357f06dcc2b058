------------------------------ MODULE SpecFile -------------------------------
(***************************************************************************)
(* From a specification file to the lengths edges are drawn from.  The     *)
(* file is written by hand, or create_spec makes it: createSpec looks for  *)
(* a distribution with the average asked for, samples it into the lines of *)
(* a histogram, readSpec takes the number of instances back from the       *)
(* lines, and Netlist::initialize grows a layout for it.  Writer and       *)
(* reader compute the layout on their own.  In either case                 *)
(* Distribution::init shares out a total by the lines.                     *)
(*                                                                         *)
(* createSpec makes four histograms, one after the other, that have to do  *)
(* with each other only through the instances FANIN adds up to; here it    *)
(* makes that one and any one of the others.  What shape the distribution  *)
(* found has is left open, but for being positive.                         *)
(***************************************************************************)
EXTENDS Distribution, AverageSearch, Floorplan

CONSTANTS
  InstCnts,      \* numbers of instances asked for
  Degrees,       \* average net degrees asked for, in tenths
  MaxFanins,     \* min(6, getMaxInSigCnt())
  MaxFanouts,    \* 50
  Probs          \* weights that make up the shape of a distribution

ASSUME SpecFileAssumption ==
  /\ InstCnts \subseteq Nat \ {0} /\ Degrees \subseteq Nat \ {0}
  /\ MaxFanins \in Nat \ {0} /\ MaxFanouts \in Nat \ {0, 1}
  /\ Probs \subseteq Nat \ {0}

Pairs == {<<"FANIN", k>> : k \in {"FANOUT", "NETBBOX", "WINDOW"}}
Lengthy == {"NETBBOX", "WINDOW"}

\* pc of Distribution goes through "dims", "shape", "search", "count", "read" and
\* "layout" before the lines are there.
VARIABLES
  numInsts, numEdges,
  dimX, dimY,      \* the layout createSpec expects
  kinds,           \* the histograms made, <<>> for a file written by hand
  weights,         \* value |-> weight, of the distribution being sampled
  samples,         \* value |-> count, as far as it was sampled
  fanins           \* the samples of FANIN, the first kind

request == <<numInsts, numEdges, kinds>>
expected == <<dimX, dimY>>
made == <<weights, samples, fanins>>
createVars == <<request, expected, made>>

Total(f) == SumFunction(f)

\* Mutant: the root is rounded down.
binsWantedDown == CHOOSE k \in 0..numInsts : k * k <= numInsts /\ (k + 1) * (k + 1) > numInsts

\* ceil(sqrt(numInsts)), the least number of bins
binsWanted == CeilSqrt(numInsts)

\* The kind being made
kind == IF fanins = <<>> THEN kinds[1] ELSE kinds[2]

\* Values a histogram has lines for
MinOf(k) == IF k \in Lengthy THEN 0 ELSE 1
MaxOf(k) == CASE k = "FANIN" -> MaxFanins
              [] k = "FANOUT" -> MaxFanouts
              [] k \in Lengthy -> dimX + dimY

\* Values that are sampled: makeExpDistribution stops before the last one.
Sampled(k) == MinOf(k)..(IF k = "FANIN" THEN MaxOf(k) ELSE MaxOf(k) - 1)

\* nrolls
Rolls(k) == IF k = "WINDOW" THEN numEdges ELSE numInsts

\* ceil(1.0 * prob * nrolls), in float: where the exact value is an integer it
\* may come out one more.
Counts(w, sum, rolls) ==
  {CeilDiv(w * rolls, sum)}
    \cup IF (w * rolls) % sum = 0 /\ w # sum THEN {((w * rolls) \div sum) + 1} ELSE {}

\* Mutant: the count is not cut.
CutNever(count, rolls, tot) == count

\* A count is cut to what is left.
Cut(count, rolls, tot) == IF tot + count > rolls THEN rolls - tot ELSE count

\* The lines of a histogram, 0 for values that were not sampled
FileLines(h, k) ==
  [i \in 1..(MaxOf(k) + 1) |-> [value |-> i - 1, ratio |-> IF i - 1 \in DOMAIN h THEN h[i - 1] ELSE 0]]
-----------------------------------------------------------------------------
Unasked == numInsts = 1 /\ numEdges = 1 /\ kinds = <<>>

\* Nothing of Distribution has happened yet.
Undistributed ==
  /\ lines = <<>> /\ max = 0 /\ totalCnt = 0
  /\ tr = <<>> /\ nextLine = 1 /\ totalTarCnt = 0 /\ info = <<>> /\ sampling = <<>>

\* A file by hand: its lines, or what the instances in it add up to
LinesByHand == DistInit /\ NoPlan /\ Unasked
CountsByHand == Undistributed /\ PlanInit /\ Unasked /\ pc = "layout"

Created ==
  /\ numInsts \in InstCnts
  /\ \E deg \in Degrees : numEdges = CeilDiv(numInsts * deg, 10)
  /\ kinds \in Pairs
  /\ Undistributed /\ NoPlan
  /\ pc = "dims"

Init ==
  /\ LinesByHand \/ CountsByHand \/ Created
  /\ SearchInit
  /\ dimX = 1 /\ dimY = 1 /\ weights = <<>> /\ samples = <<>> /\ fanins = <<>>

\* What of Distribution stays untouched until the lines are read
unread == <<params, tr, nextLine, totalTarCnt, info, sampling>>

\* One turn of the loop over the dimensions in createSpec, and its end
GrowDims ==
  /\ pc = "dims"
  /\ IF dimX * dimY < binsWanted
     THEN /\ IF dimX = dimY THEN dimX' = dimX + 1 /\ UNCHANGED dimY
                            ELSE dimY' = dimY + 1 /\ UNCHANGED dimX
          /\ UNCHANGED pc
     ELSE pc' = "shape" /\ UNCHANGED expected
  /\ UNCHANGED <<request, made, planVars, unread, searchVars>>

BeginSearch ==
  /\ pc = "shape" /\ Begin(kind = "FANIN")
  /\ pc' = "search"
  /\ UNCHANGED <<createVars, planVars, unread>>

TurnSearch ==
  /\ pc = "search" /\ Search
  /\ UNCHANGED <<createVars, planVars, unread, pc>>

\* The search has ended with some shape; minProb keeps every weight above 0.
EndSearch ==
  /\ pc = "search" /\ End
  /\ \E w \in [Sampled(kind) -> Probs] : weights' = w
  /\ pc' = "count"
  /\ UNCHANGED <<request, expected, samples, fanins, planVars, unread>>

\* One turn of the sampling loop, by rising values
CountValue ==
  LET open == DOMAIN weights \ DOMAIN samples
      v == CHOOSE x \in open : \A y \in open : x <= y
  IN  /\ pc = "count" /\ open # {}
      /\ \E count \in Counts(weights[v], Total(weights), Rolls(kind)) :
           samples' = [x \in (DOMAIN samples) \cup {v} |->
             IF x = v THEN Cut(count, Rolls(kind), Total(samples)) ELSE samples[x]]
      /\ UNCHANGED <<request, expected, weights, fanins, planVars,
                     unread, pc, searchVars>>

EndSampling ==
  /\ pc = "count" /\ DOMAIN weights = DOMAIN samples
  /\ IF fanins = <<>>
     THEN fanins' = samples /\ samples' = <<>> /\ pc' = "shape"
     ELSE pc' = "read" /\ UNCHANGED <<samples, fanins>>
  /\ weights' = <<>>
  /\ UNCHANGED <<request, expected, planVars, unread, searchVars>>

\* readSpec takes the instance count from the FANIN lines, not from CELL_COUNT.
\* A bound: created files are read under one setting of the other parameters.
ReadSpec ==
  /\ pc = "read"
  /\ instanceCnt' = Total(fanins)
  /\ initCellCnt' \in InitCellCnts(instanceCnt', 100)
  /\ inputPinCnt' = 1 /\ outputPinCnt' = 1
  /\ stage' = "layout"
  /\ pc' = "layout"
  /\ UNCHANGED <<request, expected, made, layout, place, type, primIns, primOuts, scan,
                 unread, searchVars>>

\* initialize hands the lines to Distribution::init, lengths with the range of
\* its own layout.  The total is the share of the instances or of their edges
\* that is not kept for registers: any number.  A behaviour follows the
\* distributions or the nodes from here on: they come together in matching.
InitDistribution ==
  /\ pc = "layout" /\ kinds # <<>>
  /\ stage = "layout" /\ binCnt >= totalBinCnt
  /\ lines' = FileLines(samples, kinds[2])
  /\ max' = IF kinds[2] \in Lengthy THEN layoutDimX + layoutDimY ELSE MaxFanouts
  /\ totalCnt' \in Totals
  /\ pc' = "lines"
  /\ UNCHANGED <<createVars, planVars, tr, nextLine, totalTarCnt, info, sampling, searchVars>>

Initialize == pc = "layout" /\ PlanNext /\ UNCHANGED <<createVars, distVars, searchVars>>

Next ==
  \/ GrowDims \/ BeginSearch \/ TurnSearch \/ EndSearch \/ CountValue \/ EndSampling
  \/ ReadSpec \/ Initialize \/ InitDistribution
  \/ DistNext /\ UNCHANGED <<createVars, planVars, searchVars>>

vars == <<createVars, distVars, searchVars, planVars>>
Spec == Init /\ [][Next]_vars /\ WF_vars(Next)
-----------------------------------------------------------------------------
\* create_spec comes back whenever the average can be reached and the steps of
\* lambda are fine enough.
SearchStops == (pc = "search" /\ status = "search" /\ Reachable /\ Fine) ~> (pc = "count")

\* Where a step jumps over the averages close enough, the search goes to and fro
\* for ever, although the average lies within reach.
SearchRunsOn == [](status = "search" /\ Jumps => [](pc = "search"))

\* When the search for lambda comes to an end, and when it never does
SearchEnds == SearchStops /\ SearchRunsOn

\* What create_spec was asked for survives the file: although every count is
\* rounded up and the sum cut, the reader counts the instances asked for, and
\* every histogram adds up to the nodes or edges it describes.
TotalsSurvive ==
  pc = "layout" /\ kinds # <<>> =>
    instanceCnt = numInsts /\ Total(samples) = Rolls(kinds[2])

\* However a file orders or repeats its values, the vector of ratios reaches its
\* largest value.  readSpec asks for just that one, and the reader's layout
\* never asks for more than create_spec wrote, so only a file written by hand
\* that stops short of dimX + dimY is read behind its end.
ReadsInside ==
  pc = "undefined" => kinds = <<>> /\ \A i \in DOMAIN lines : lines[i].value < max
=============================================================================
