------------------------------- MODULE Common --------------------------------
(***************************************************************************)
(* Operators on numbers that several modules use.                          *)
(***************************************************************************)
EXTENDS Integers, FiniteSets

\* ceil of a quotient, and of a square root
CeilDiv(n, d) == (n + d - 1) \div d
CeilSqrt(n) == CHOOSE k \in 0..n : k * k >= n /\ \A j \in 0..(k - 1) : j * j < n

\* The numbers of a set from the smallest to the largest
Ascending(S) ==
  [k \in 1..Cardinality(S) |->
     CHOOSE n \in S : Cardinality({m \in S : m <= n}) = k]
=============================================================================
