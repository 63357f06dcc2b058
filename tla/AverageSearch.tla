---------------------------- MODULE AverageSearch ----------------------------
(***************************************************************************)
(* The loops of makeFoissonDistribution and makeExpDistribution that look  *)
(* for the parameter lambda of a distribution: one fixed step up or down,  *)
(* by the sign of the error, until the average is close to the one asked   *)
(* for.  Lambda is counted in steps of 0.01, averages in a common unit.    *)
(***************************************************************************)
EXTENDS Integers, FiniteSets

CONSTANTS
  Lowest, Highest,   \* lambdas whose average is known, in steps: the grid
  Averages,          \* tables lambda |-> average of the distribution
  Targets,           \* averages asked for
  Tol,               \* 0.03 or 0.05
  Start              \* lambda to begin with: 1.5 or 0.1

Grid == Lowest..Highest

ASSUME SearchAssumption ==
  /\ Lowest \in Int /\ Highest \in Int /\ Start \in Grid
  /\ Averages \subseteq [Grid -> Int] /\ Targets \subseteq Int
  /\ Tol \in Nat \ {0}

VARIABLES
  avgOf, avgVal,   \* the distribution and the average asked for
  rising,          \* the average grows with lambda: makeFoissonDistribution
  lambda,
  status           \* "idle", "search", "found", "outside" (off the grid)

searchVars == <<avgOf, avgVal, rising, lambda, status>>

error == avgOf[lambda] - avgVal
Abs(x) == IF x < 0 THEN -x ELSE x

\* The test that ends the search
Close(e) == Abs(e) < Tol

\* Mutant: both loops step the same way.
StepUpOnDeficit == IF error > 0 THEN -1 ELSE 1

\* makeFoissonDistribution lowers lambda where the average is too large,
\* makeExpDistribution raises it.
Step == IF (error > 0) = rising THEN -1 ELSE 1
-----------------------------------------------------------------------------
Monotone(f, up) ==
  \A i, j \in Grid : i < j => IF up THEN f[i] <= f[j] ELSE f[j] <= f[i]

SearchInit ==
  /\ avgOf = <<>> /\ avgVal = 0 /\ rising = FALSE /\ lambda = Start
  /\ status = "idle"

\* Both functions begin with a lambda of their own; the grid is counted from it.
Begin(up) ==
  /\ status = "idle"
  /\ avgOf' \in {f \in Averages : Monotone(f, up)} /\ avgVal' \in Targets
  /\ rising' = up /\ lambda' = Start
  /\ status' = "search"

\* One turn of the loop
Search ==
  /\ status = "search"
  /\ IF Close(error)
     THEN status' = "found" /\ UNCHANGED lambda
     ELSE IF lambda + Step \in Grid
     THEN lambda' = lambda + Step /\ UNCHANGED status
     ELSE status' = "outside" /\ UNCHANGED lambda
  /\ UNCHANGED <<avgOf, avgVal, rising>>

\* The caller has what it asked for.
End ==
  /\ status = "found"
  /\ avgOf' = <<>> /\ avgVal' = 0 /\ rising' = FALSE /\ lambda' = Start
  /\ status' = "idle"
-----------------------------------------------------------------------------
\* The average asked for lies between the averages of the grid.
Reachable ==
  /\ \E l \in Grid : avgOf[l] <= avgVal
  /\ \E l \in Grid : avgOf[l] >= avgVal

\* No step jumps over the averages that are close enough.
Fine == \A l \in Lowest..(Highest - 1) : Abs(avgOf[l + 1] - avgOf[l]) < 2 * Tol

\* Two neighbours lie on either side of the average asked for, neither of them
\* close to it.
Jumps ==
  \E l \in Lowest..(Highest - 1) :
    /\ ~ Close(avgOf[l] - avgVal) /\ ~ Close(avgOf[l + 1] - avgVal)
    /\ (avgOf[l] > avgVal) # (avgOf[l + 1] > avgVal)
=============================================================================
