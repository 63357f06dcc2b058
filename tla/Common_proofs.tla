---------------------------- MODULE Common_proofs ----------------------------
(***************************************************************************)
(* Facts about the operators of Common, about numbers, vectors and sums    *)
(* over sets, that the proofs of several modules rest on.  Induction over  *)
(* data is done by least elements (NatLeast, SmallestSet, PartsInduction). *)
(***************************************************************************)
EXTENDS Common, Sequences, SequencesExt, Functions, Folds, FiniteSetsExt, FiniteSetTheorems, SequenceTheorems,
        WellFoundedInduction, TLAPS

\* Appending a new element to a vector
LEMMA AppendNew ==
  ASSUME NEW D, NEW s \in Seq(D), IsInjective(s), NEW e \in D, e \notin Range(s)
  PROVE  /\ Append(s, e) \in Seq(D)
         /\ IsInjective(Append(s, e))
         /\ Range(Append(s, e)) = Range(s) \cup {e}
         /\ Len(Append(s, e)) = Len(s) + 1
<1>1. /\ \A i \in DOMAIN s : Append(s, e)[i] = s[i]
      /\ Append(s, e)[Len(s) + 1] = e
      /\ DOMAIN Append(s, e) = DOMAIN s \cup {Len(s) + 1}
      /\ Append(s, e) \in Seq(D)
      /\ Len(Append(s, e)) = Len(s) + 1
  OBVIOUS
<1>2. \A i \in DOMAIN s : s[i] # e
  BY DEF Range
<1>3. IsInjective(Append(s, e))
  BY <1>1, <1>2 DEF IsInjective
<1>4. Range(Append(s, e)) = Range(s) \cup {e}
  BY <1>1 DEF Range
<1> QED
  BY <1>1, <1>3, <1>4

\* A vector of some is a vector of more.
LEMMA VectorOfMore ==
  ASSUME NEW D, NEW E, D \subseteq E, NEW s \in Seq(D)
  PROVE  s \in Seq(E)
<1>1. s \in [1..Len(s) -> E] /\ Len(s) \in Nat
  OBVIOUS
<1> QED
  BY <1>1

\* What two vectors hold, one after the other
LEMMA RangeOfConcat ==
  ASSUME NEW D, NEW s \in Seq(D), NEW t \in Seq(D)
  PROVE  Range(s \o t) = Range(s) \cup Range(t)
<1>1. /\ s \o t \in Seq(D) /\ Len(s \o t) = Len(s) + Len(t)
      /\ \A i \in 1..(Len(s) + Len(t)) :
           (s \o t)[i] = IF i <= Len(s) THEN s[i] ELSE t[i - Len(s)]
  BY ConcatProperties
<1> DEFINE u == s \o t
<1> HIDE DEF u
<1>2. /\ DOMAIN u = 1..(Len(s) + Len(t)) /\ DOMAIN s = 1..Len(s) /\ DOMAIN t = 1..Len(t)
      /\ Len(s) \in Nat /\ Len(t) \in Nat
  BY <1>1 DEF u
<1>3. \A i \in 1..Len(s) : i \in DOMAIN u /\ u[i] = s[i]
  BY <1>1, <1>2 DEF u
<1>4. \A i \in 1..Len(t) : Len(s) + i \in DOMAIN u /\ u[Len(s) + i] = t[i]
  BY <1>1, <1>2 DEF u
<1>5. \A i \in DOMAIN u : \/ i \in 1..Len(s)
                          \/ \E j \in 1..Len(t) : i = Len(s) + j
  <2> SUFFICES ASSUME NEW i \in DOMAIN u, i > Len(s)
               PROVE  \E j \in 1..Len(t) : i = Len(s) + j
    BY <1>2
  <2>1. i - Len(s) \in 1..Len(t) /\ i = Len(s) + (i - Len(s))
    BY <1>2
  <2> QED
    BY <2>1
<1>6. Range(u) \subseteq Range(s) \cup Range(t)
  <2> SUFFICES ASSUME NEW i \in DOMAIN u PROVE u[i] \in Range(s) \cup Range(t)
    BY DEF Range
  <2>1. CASE i \in 1..Len(s)
    BY <1>2, <1>3, <2>1 DEF Range
  <2>2. CASE \E j \in 1..Len(t) : i = Len(s) + j
    BY <1>2, <1>4, <2>2 DEF Range
  <2> QED
    BY <1>5, <2>1, <2>2
<1>7. Range(s) \subseteq Range(u)
  BY <1>2, <1>3 DEF Range
<1>8. Range(t) \subseteq Range(u)
  BY <1>2, <1>4 DEF Range
<1> QED
  BY <1>6, <1>7, <1>8 DEF u

\* Two vectors that hold nothing in common
LEMMA InjectiveConcat ==
  ASSUME NEW D, NEW s \in Seq(D), NEW t \in Seq(D), IsInjective(s), IsInjective(t),
         Range(s) \cap Range(t) = {}
  PROVE  IsInjective(s \o t)
<1> DEFINE u == s \o t
<1>1. /\ DOMAIN u = 1..(Len(s) + Len(t)) /\ DOMAIN s = 1..Len(s) /\ DOMAIN t = 1..Len(t)
      /\ Len(s) \in Nat /\ Len(t) \in Nat
      /\ \A i \in 1..(Len(s) + Len(t)) : u[i] = IF i <= Len(s) THEN s[i] ELSE t[i - Len(s)]
  <2>1. u \in Seq(D) /\ Len(u) = Len(s) + Len(t)
    BY ConcatProperties
  <2> QED
    BY <2>1, ConcatProperties
<1> HIDE DEF u
<1>2. \A i \in DOMAIN u : /\ i <= Len(s) => i \in DOMAIN s /\ u[i] = s[i]
                          /\ i > Len(s) => i - Len(s) \in DOMAIN t /\ u[i] = t[i - Len(s)]
  BY <1>1
<1>3. \A i \in DOMAIN u : /\ i \in Int
                          /\ i <= Len(s) => u[i] \in Range(s)
                          /\ i > Len(s) => u[i] \in Range(t)
  BY <1>1, <1>2 DEF Range
<1>4. ASSUME NEW i \in DOMAIN u, NEW j \in DOMAIN u, u[i] = u[j] PROVE i = j
  <2>1. CASE i <= Len(s) /\ j <= Len(s)
    <3>1. i \in DOMAIN s /\ j \in DOMAIN s /\ s[i] = s[j]
      BY <1>2, <1>4, <2>1
    <3> QED
      BY <3>1 DEF IsInjective
  <2>2. CASE i > Len(s) /\ j > Len(s)
    <3>1. /\ i - Len(s) \in DOMAIN t /\ j - Len(s) \in DOMAIN t
          /\ t[i - Len(s)] = t[j - Len(s)]
      BY <1>2, <1>4, <2>2
    <3>2. i - Len(s) = j - Len(s)
      BY <3>1 DEF IsInjective
    <3> QED
      BY <1>1, <1>3, <3>2
  <2>3. (i <= Len(s) /\ j > Len(s)) \/ (i > Len(s) /\ j <= Len(s)) => FALSE
    <3>1. \A k \in DOMAIN u : (k <= Len(s) => u[k] \in Range(s)) /\ (k > Len(s) => u[k] \in Range(t))
      BY <1>3
    <3> QED
      BY <1>4, <3>1
  <2>4. i \in Int /\ j \in Int
    BY <1>3
  <2> QED
    BY <1>1, <2>1, <2>2, <2>3, <2>4
<1> QED
  BY <1>4 DEF IsInjective, u

\* Every set of numbers has a least one.
LEMMA NatLeast ==
  ASSUME NEW S \in SUBSET Nat, S # {}
  PROVE  \E i \in S : \A j \in S : i <= j
<1> DEFINE Less == {p \in Nat \X Nat : p[1] < p[2]}
<1>1. IsWellFoundedOn(Less, Nat)
  BY NatLessThanWellFounded DEF OpToRel
<1>2. PICK i \in S : \A j \in S : <<j, i>> \notin Less
  <2> HIDE DEF Less
  <2> QED
    BY <1>1, WFMin
<1>3. ASSUME NEW j \in S PROVE i <= j
  <2>1. <<j, i>> \notin Less
    BY <1>2
  <2> QED
    BY <2>1
<1> QED
  BY <1>3

\* Of finitely many numbers one is the largest.
LEMMA Largest ==
  ASSUME NEW R, IsFiniteSet(R), R # {}, NEW f, \A m \in R : f[m] \in Int
  PROVE  \E m \in R : \A k \in R : f[k] <= f[m]
<1> DEFINE Over(m) == {k \in R : f[k] > f[m]}
           cards == {Cardinality(Over(m)) : m \in R}
<1>1. \A m \in R : IsFiniteSet(Over(m)) /\ Cardinality(Over(m)) \in Nat
  <2> SUFFICES ASSUME NEW m \in R
               PROVE  IsFiniteSet(Over(m)) /\ Cardinality(Over(m)) \in Nat
    OBVIOUS
  <2>1. Over(m) \in SUBSET R
    OBVIOUS
  <2> QED
    BY <2>1, FS_Subset, FS_CardinalityType
<1>2. cards \in SUBSET Nat /\ cards # {}
  BY <1>1
<1>3. PICK m \in R : \A k \in R : Cardinality(Over(m)) <= Cardinality(Over(k))
  <2> HIDE DEF cards
  <2>1. PICK i \in cards : \A j \in cards : i <= j
    BY <1>2, NatLeast
  <2>2. PICK m \in R : i = Cardinality(Over(m))
    BY <2>1 DEF cards
  <2>3. \A k \in R : Cardinality(Over(k)) \in cards
    BY DEF cards
  <2> QED
    BY <2>1, <2>2, <2>3
<1>4. ASSUME NEW k \in R, f[k] > f[m] PROVE FALSE
  <2>1. Over(k) \in SUBSET Over(m) /\ k \in Over(m) /\ k \notin Over(k)
    BY <1>4
  <2> HIDE DEF Over
  <2>2. /\ Cardinality(Over(k)) <= Cardinality(Over(m))
        /\ Cardinality(Over(m)) = Cardinality(Over(k)) => Over(m) = Over(k)
    BY <1>1, <2>1, FS_Subset
  <2>3. /\ Cardinality(Over(m)) <= Cardinality(Over(k))
        /\ Cardinality(Over(k)) \in Nat /\ Cardinality(Over(m)) \in Nat
    BY <1>1, <1>3
  <2> QED
    BY <2>1, <2>2, <2>3
<1>5. \A k \in R : f[k] <= f[m]
  BY <1>4
<1> QED
  BY <1>5

\* The smallest and the largest number of a set
LEMMA MinIsLeast ==
  ASSUME NEW S \in SUBSET Nat, S # {}
  PROVE  Min(S) \in S /\ \A i \in S : Min(S) <= i
<1>1. \E i \in S : \A j \in S : i <= j
  BY NatLeast
<1> QED
  BY <1>1 DEF Min

LEMMA MaxIsLargest ==
  ASSUME NEW S \in SUBSET Nat, IsFiniteSet(S), S # {}
  PROVE  Max(S) \in S /\ \A i \in S : i <= Max(S)
<1> DEFINE f == [i \in S |-> i]
<1>1. \A i \in S : f[i] \in Int
  OBVIOUS
<1>2. PICK m \in S : \A i \in S : f[i] <= f[m]
  <2> HIDE DEF f
  <2> QED
    BY <1>1, Largest
<1>3. \A i \in S : m >= i
  BY <1>2
<1> QED
  BY <1>3 DEF Max

LEMMA MinIs ==
  ASSUME NEW S \in SUBSET Nat, NEW m \in S, \A i \in S : m <= i
  PROVE  Min(S) = m
<1>1. Min(S) \in S /\ \A i \in S : Min(S) <= i
  BY MinIsLeast
<1> DEFINE least == Min(S)
<1>2. least \in Nat /\ m \in Nat /\ least <= m /\ m <= least
  BY <1>1
<1> HIDE DEF least
<1>3. least = m
  BY <1>2
<1> QED
  BY <1>3 DEF least

LEMMA MaxIs ==
  ASSUME NEW S \in SUBSET Nat, IsFiniteSet(S), NEW m \in S, \A i \in S : i <= m
  PROVE  Max(S) = m
<1>1. Max(S) \in S /\ \A i \in S : i <= Max(S)
  BY MaxIsLargest
<1> DEFINE largest == Max(S)
<1>2. largest \in Nat /\ m \in Nat /\ largest <= m /\ m <= largest
  BY <1>1
<1> HIDE DEF largest
<1>3. largest = m
  BY <1>2
<1> QED
  BY <1>3 DEF largest

\* Ascending lists a finite set of numbers, each once.
LEMMA AscendingLists ==
  ASSUME NEW S \in SUBSET Nat, IsFiniteSet(S)
  PROVE  /\ Ascending(S) \in Seq(S)
         /\ IsInjective(Ascending(S))
         /\ Range(Ascending(S)) = S
         /\ Len(Ascending(S)) = Cardinality(S)
<1> DEFINE Upto(n) == {m \in S : m <= n}
           rank == [n \in S |-> Cardinality(Upto(n))]
           D == 1..Cardinality(S)
           a == Ascending(S)
<1>1. Cardinality(S) \in Nat
  BY FS_CardinalityType
<1>2. \A n \in S : rank[n] \in D
  <2> SUFFICES ASSUME NEW n \in S PROVE Cardinality(Upto(n)) \in D
    OBVIOUS
  <2>1. IsFiniteSet(Upto(n)) /\ Cardinality(Upto(n)) <= Cardinality(S)
    BY FS_Subset
  <2>2. n \in Upto(n)
    OBVIOUS
  <2>3. Cardinality(Upto(n)) # 0 /\ Cardinality(Upto(n)) \in Nat
    BY <2>1, <2>2, FS_EmptySet, FS_CardinalityType
  <2> HIDE DEF Upto
  <2> QED
    BY <1>1, <2>1, <2>3
<1>3. \A m, n \in S : m < n => rank[m] # rank[n]
  <2> SUFFICES ASSUME NEW m \in S, NEW n \in S, m < n,
                      Cardinality(Upto(m)) = Cardinality(Upto(n))
               PROVE  FALSE
    OBVIOUS
  <2>1. IsFiniteSet(Upto(n)) /\ Upto(m) \in SUBSET Upto(n)
    <3>1. \A x \in Upto(m) : x \in Upto(n)
      OBVIOUS
    <3> QED
      BY <3>1, FS_Subset
  <2>2. Upto(m) = Upto(n)
    BY <2>1, FS_Subset
  <2> QED
    BY <2>2
<1>4. rank \in Injection(S, D)
  <2>1. \A m, n \in S : rank[m] = rank[n] => m = n
    BY <1>3
  <2> HIDE DEF rank
  <2>2. rank \in [S -> D]
    BY <1>2 DEF rank
  <2> QED
    BY <2>1, <2>2 DEF Injection, IsInjective
<1>5. IsFiniteSet(D) /\ Cardinality(D) = Cardinality(S)
  BY <1>1, FS_Interval
<1>6. rank \in Surjection(S, D)
  <2> HIDE DEF rank, D
  <2> QED
    BY <1>4, <1>5, FS_Injection
<1>7. \A k \in D : \E n \in S : Cardinality(Upto(n)) = k
  BY <1>6 DEF Surjection
<1>8. \A k \in D : a[k] \in S /\ rank[a[k]] = k
  BY <1>7 DEF Ascending
<1>9. a \in [D -> S]
  <2>1. DOMAIN a = D /\ a = [k \in D |-> a[k]]
    BY DEF Ascending
  <2> HIDE DEF a, D
  <2> QED
    BY <1>8, <2>1
<1> HIDE DEF a
<1>10. a \in Seq(S) /\ Len(a) = Cardinality(S)
  BY <1>1, <1>9
<1>11. IsInjective(a)
  <2> HIDE DEF rank, D
  <2> QED
    BY <1>8, <1>9 DEF IsInjective
<1>12. Range(a) = S
  <2>1. \A n \in S : rank[n] \in D /\ rank[a[rank[n]]] = rank[n] /\ a[rank[n]] \in S
    <3> HIDE DEF rank, D
    <3> QED
      BY <1>2, <1>8
  <2>2. \A n \in S : a[rank[n]] = n
    <3> HIDE DEF rank, D
    <3> QED
      BY <2>1, <1>4 DEF Injection, IsInjective
  <2> HIDE DEF rank, D
  <2> QED
    BY <1>9, <2>1, <2>2 DEF Range
<1> QED
  BY <1>10, <1>11, <1>12 DEF a

\* Of several finite sets one has the least elements.
LEMMA SmallestSet ==
  ASSUME NEW F, F # {}, \A s \in F : IsFiniteSet(s)
  PROVE  \E s \in F : \A t \in F : Cardinality(s) <= Cardinality(t)
<1> DEFINE cards == {Cardinality(s) : s \in F}
<1>1. cards \in SUBSET Nat /\ cards # {}
  BY FS_CardinalityType
<1>2. \E i \in cards : \A j \in cards : i <= j
  <2> HIDE DEF cards
  <2> QED
    BY <1>1, NatLeast
<1> QED
  BY <1>2

\* The element a sum takes next, and what a sum over every part of T would be
Chosen(s) == CHOOSE x \in s : TRUE
SumsOf(f, T, sum) ==
  sum = [s \in SUBSET T |-> IF s = {} THEN 0 ELSE f[Chosen(s)] + sum[s \ {Chosen(s)}]]

\* A sum over a set is one that adds its elements one by one.
LEMMA SumIsChosen ==
  ASSUME NEW f, NEW T
  PROVE  SumFunctionOnSet(f, T) = (CHOOSE sum : SumsOf(f, T, sum))[T]
BY DEF SumFunctionOnSet, FoldFunctionOnSet, MapThenFoldSet, SumsOf, Chosen

\* Such sums exist: from the parts with n elements to those with n + 1.
LEMMA SumsExist ==
  ASSUME NEW f, NEW T, IsFiniteSet(T)
  PROVE  SumsOf(f, T, CHOOSE sum : SumsOf(f, T, sum))
<1> DEFINE Small(n) == {s \in SUBSET T : Cardinality(s) <= n}
           Sums(n, g) == g = [s \in Small(n) |->
                                IF s = {} THEN 0 ELSE f[Chosen(s)] + g[s \ {Chosen(s)}]]
           bad == {n \in Nat : ~ \E g : Sums(n, g)}
<1>1. \A s \in SUBSET T : IsFiniteSet(s) /\ Cardinality(s) \in Nat /\ Cardinality(s) <= Cardinality(T)
  BY FS_Subset, FS_CardinalityType
<1>2. \A s \in SUBSET T : s # {} => /\ Chosen(s) \in s
                                    /\ s \ {Chosen(s)} \in SUBSET T
                                    /\ Cardinality(s \ {Chosen(s)}) = Cardinality(s) - 1
  <2> SUFFICES ASSUME NEW s \in SUBSET T, s # {}
               PROVE  /\ Chosen(s) \in s
                      /\ Cardinality(s \ {Chosen(s)}) = Cardinality(s) - 1
    OBVIOUS
  <2>1. Chosen(s) \in s
    BY DEF Chosen
  <2> QED
    BY <1>1, <2>1, FS_RemoveElement
<1>3. 0 \notin bad
  <2> DEFINE g == [s \in Small(0) |-> 0]
  <2>1. \A s \in Small(0) : s = {}
    BY <1>1, FS_EmptySet
  <2>2. g = [s \in Small(0) |-> IF s = {} THEN 0 ELSE f[Chosen(s)] + g[s \ {Chosen(s)}]]
    BY <2>1
  <2> HIDE DEF g
  <2> QED
    BY <2>2
<1>4. ASSUME NEW n \in Nat, n \notin bad PROVE n + 1 \notin bad
  <2>1. PICK g : Sums(n, g)
    BY <1>4
  <2> DEFINE h == [s \in Small(n + 1) |-> IF s = {} THEN 0 ELSE f[Chosen(s)] + g[s \ {Chosen(s)}]]
  <2>2. \A s \in Small(n) : g[s] = h[s]
    <3>1. \A s \in Small(n) : s \in Small(n + 1)
      BY <1>1
    <3> HIDE DEF Small
    <3> QED
      BY <2>1, <3>1
  <2>3. \A s \in Small(n + 1) : s # {} => s \ {Chosen(s)} \in Small(n)
    BY <1>1, <1>2
  <2>4. Sums(n + 1, h)
    <3>1. \A s \in Small(n + 1) : s # {} => g[s \ {Chosen(s)}] = h[s \ {Chosen(s)}]
      BY <2>2, <2>3
    <3> HIDE DEF Small
    <3>2. h = [s \in Small(n + 1) |-> IF s = {} THEN 0 ELSE f[Chosen(s)] + h[s \ {Chosen(s)}]]
      BY <3>1
    <3> HIDE DEF h
    <3> QED
      BY <3>2
  <2> HIDE DEF h, Sums
  <2> QED
    BY <2>4
<1>5. bad = {}
  <2> SUFFICES ASSUME bad # {} PROVE FALSE
    OBVIOUS
  <2>1. PICK n \in bad : \A m \in bad : n <= m
    BY NatLeast
  <2>2. n \in Nat /\ n # 0
    <3>1. bad \subseteq Nat
      OBVIOUS
    <3> HIDE DEF bad
    <3> QED
      BY <1>3, <2>1, <3>1
  <2>3. n - 1 \in Nat /\ n - 1 \notin bad /\ n = (n - 1) + 1
    <3> HIDE DEF bad
    <3> QED
      BY <2>1, <2>2
  <2> HIDE DEF bad
  <2> QED
    BY <1>4, <2>1, <2>3
<1>6. PICK g : Sums(Cardinality(T), g)
  BY <1>1, <1>5
<1>7. Small(Cardinality(T)) = SUBSET T
  BY <1>1
<1>8. SumsOf(f, T, g)
  BY <1>6, <1>7 DEF SumsOf
<1> HIDE DEF Sums
<1> QED
  BY <1>8

\* Two such sums give the same value to every part both know.
LEMMA SumsAgree ==
  ASSUME NEW f, NEW T, IsFiniteSet(T), NEW U \in SUBSET T, NEW g, NEW h,
         SumsOf(f, T, g), SumsOf(f, U, h)
  PROVE  g[U] = h[U]
<1> DEFINE bad == {s \in SUBSET U : g[s] # h[s]}
<1>1. \A s \in SUBSET U : IsFiniteSet(s) /\ Cardinality(s) \in Nat
  BY FS_Subset, FS_CardinalityType
<1>2. SUFFICES ASSUME bad # {} PROVE FALSE
  OBVIOUS
<1>3. PICK s \in bad : \A t \in bad : Cardinality(s) <= Cardinality(t)
  <2> HIDE DEF bad
  <2> QED
    BY <1>1, <1>2, SmallestSet DEF bad
<1>4. s # {}
  BY DEF SumsOf
<1>5. Chosen(s) \in s
  BY <1>4 DEF Chosen
<1>6. s \ {Chosen(s)} \in SUBSET U /\ Cardinality(s \ {Chosen(s)}) < Cardinality(s)
  BY <1>1, <1>5, FS_RemoveElement
<1>7. g[s \ {Chosen(s)}] = h[s \ {Chosen(s)}]
  BY <1>1, <1>3, <1>6
<1>8. g[s] = f[Chosen(s)] + g[s \ {Chosen(s)}] /\ h[s] = f[Chosen(s)] + h[s \ {Chosen(s)}]
  BY <1>4 DEF SumsOf
<1> QED
  BY <1>7, <1>8

\* One such sum, taken apart by one element
LEMMA SumStep ==
  ASSUME NEW f, NEW S, IsFiniteSet(S)
  PROVE  SumFunctionOnSet(f, S) =
           IF S = {} THEN 0 ELSE f[Chosen(S)] + SumFunctionOnSet(f, S \ {Chosen(S)})
<1> DEFINE rest == S \ {Chosen(S)}
           g == CHOOSE sum : SumsOf(f, S, sum)
           h == CHOOSE sum : SumsOf(f, rest, sum)
<1>1. rest \in SUBSET S /\ IsFiniteSet(rest)
  BY FS_Subset
<1>2. SumsOf(f, S, g) /\ SumsOf(f, rest, h)
  BY <1>1, SumsExist
<1>3. SumFunctionOnSet(f, S) = g[S] /\ SumFunctionOnSet(f, rest) = h[rest]
  BY SumIsChosen
<1> HIDE DEF g, h, rest
<1>4. g[rest] = h[rest]
  BY <1>1, <1>2, SumsAgree
<1>5. g[S] = IF S = {} THEN 0 ELSE f[Chosen(S)] + g[rest]
  BY <1>2 DEF SumsOf, rest
<1> QED
  BY <1>3, <1>4, <1>5 DEF rest

\* A sum over finitely many numbers takes them in any order.
LEMMA SumWithout ==
  ASSUME NEW S, IsFiniteSet(S), NEW f, \A i \in S : f[i] \in Int
  PROVE  /\ SumFunctionOnSet(f, S) \in Int
         /\ \A x \in S : SumFunctionOnSet(f, S) = f[x] + SumFunctionOnSet(f, S \ {x})
<1> DEFINE Sum(s) == SumFunctionOnSet(f, s)
           Good(s) == Sum(s) \in Int /\ \A x \in s : Sum(s) = f[x] + Sum(s \ {x})
           bad == {s \in SUBSET S : ~ Good(s)}
<1>1. \A s \in SUBSET S : IsFiniteSet(s) /\ Cardinality(s) \in Nat
  BY FS_Subset, FS_CardinalityType
<1>2. SUFFICES ASSUME bad # {} PROVE FALSE
  OBVIOUS
<1>3. PICK s \in bad : \A t \in bad : Cardinality(s) <= Cardinality(t)
  <2>1. \A t \in bad : IsFiniteSet(t)
    BY <1>1
  <2> HIDE DEF bad
  <2> QED
    BY <1>2, <2>1, SmallestSet
<1>4. ASSUME NEW t \in SUBSET s, t # s PROVE Good(t)
  <2>1. t \in SUBSET S /\ bad \subseteq SUBSET S
    OBVIOUS
  <2>2. Cardinality(t) < Cardinality(s)
    <3>1. s \in SUBSET S
      BY <2>1
    <3> QED
      BY <1>1, <1>4, <2>1, <3>1, FS_Subset
  <2>3. t \notin bad
    <3> HIDE DEF bad
    <3> QED
      BY <1>1, <1>3, <2>1, <2>2
  <2> QED
    BY <2>1, <2>3
<1>5. \A x \in s : Good(s \ {x}) /\ f[x] \in Int
  <2>1. \A x \in s : s \ {x} \in SUBSET s /\ s \ {x} # s
    OBVIOUS
  <2>2. \A x \in s : f[x] \in Int
    OBVIOUS
  <2> HIDE DEF Good
  <2> QED
    BY <1>4, <2>1, <2>2
<1>6. s # {}
  <2>1. Sum({}) = 0
    BY SumStep, FS_EmptySet
  <2>2. Good({})
    BY <2>1
  <2>3. ~ Good(s)
    OBVIOUS
  <2> HIDE DEF Good
  <2> QED
    BY <2>2, <2>3
<1> DEFINE y == Chosen(s)
<1>7. y \in s
  BY <1>6 DEF Chosen
<1>8. Sum(s) = f[y] + Sum(s \ {y})
  BY <1>1, <1>6, SumStep
<1> HIDE DEF y, Sum
<1>9. Sum(s) \in Int
  BY <1>5, <1>7, <1>8
<1>10. ASSUME NEW x \in s, x # y PROVE Sum(s) = f[x] + Sum(s \ {x})
  <2> DEFINE rest == Sum((s \ {x}) \ {y})
  <2>1. (s \ {x}) \ {y} = (s \ {y}) \ {x}
    OBVIOUS
  <2>2. Sum(s \ {x}) = f[y] + rest
    BY <1>5, <1>7, <1>10
  <2>3. Sum(s \ {y}) = f[x] + rest
    BY <1>5, <1>7, <1>10, <2>1
  <2>4. rest \in Int
    <3>1. (s \ {x}) \ {y} \in SUBSET s /\ (s \ {x}) \ {y} # s
      OBVIOUS
    <3> QED
      BY <1>4, <3>1
  <2> HIDE DEF rest
  <2> QED
    BY <1>5, <1>7, <1>8, <2>2, <2>3, <2>4
<1> QED
  BY <1>8, <1>9, <1>10

\* Induction over the parts of a finite set: F are the parts shown.
LEMMA PartsInduction ==
  ASSUME NEW S, IsFiniteSet(S), NEW F, {} \in F,
         \A s \in SUBSET S : \A x \in s : s \ {x} \in F => s \in F
  PROVE  S \in F
<1> DEFINE bad == (SUBSET S) \ F
<1>1. \A s \in bad : IsFiniteSet(s) /\ Cardinality(s) \in Nat
  BY FS_Subset, FS_CardinalityType
<1>2. SUFFICES ASSUME bad # {} PROVE FALSE
  OBVIOUS
<1>3. PICK s \in bad : \A t \in bad : Cardinality(s) <= Cardinality(t)
  <2> HIDE DEF bad
  <2> QED
    BY <1>1, <1>2, SmallestSet
<1>4. PICK x \in s : TRUE
  OBVIOUS
<1>5. s \ {x} \in bad
  OBVIOUS
<1>6. Cardinality(s \ {x}) < Cardinality(s)
  <2>1. IsFiniteSet(s) /\ Cardinality(s) \in Nat
    BY <1>1
  <2>2. Cardinality(s \ {x}) = Cardinality(s) - 1
    BY <1>4, <2>1, FS_RemoveElement
  <2> QED
    BY <2>1, <2>2
<1> HIDE DEF bad
<1> QED
  BY <1>1, <1>3, <1>5, <1>6

\* The sum over nothing
LEMMA SumOfNone ==
  ASSUME NEW f
  PROVE  SumFunctionOnSet(f, {}) = 0
BY SumStep, FS_EmptySet

\* Equal numbers have equal sums, smaller ones a smaller sum.
LEMMA SumAtMost ==
  ASSUME NEW S, IsFiniteSet(S), NEW f, NEW g,
         \A i \in S : f[i] \in Int /\ g[i] \in Int /\ f[i] <= g[i]
  PROVE  SumFunctionOnSet(f, S) <= SumFunctionOnSet(g, S)
<1> DEFINE F == {s \in SUBSET S : SumFunctionOnSet(f, s) <= SumFunctionOnSet(g, s)}
<1>1. {} \in F
  BY SumOfNone
<1>2. ASSUME NEW s \in SUBSET S, NEW x \in s, s \ {x} \in F PROVE s \in F
  <2>1. IsFiniteSet(s) /\ IsFiniteSet(s \ {x})
    BY FS_Subset
  <2>2. /\ SumFunctionOnSet(f, s) = f[x] + SumFunctionOnSet(f, s \ {x})
        /\ SumFunctionOnSet(g, s) = g[x] + SumFunctionOnSet(g, s \ {x})
        /\ SumFunctionOnSet(f, s \ {x}) \in Int /\ SumFunctionOnSet(g, s \ {x}) \in Int
    BY <2>1, SumWithout
  <2>3. SumFunctionOnSet(f, s \ {x}) <= SumFunctionOnSet(g, s \ {x})
    BY <1>2
  <2> QED
    BY <2>2, <2>3
<1> HIDE DEF F
<1>3. S \in F
  BY <1>1, <1>2, PartsInduction
<1> QED
  BY <1>3 DEF F

\* Functions that agree on a set have the same sum over it.
LEMMA SumSame ==
  ASSUME NEW S, IsFiniteSet(S), NEW f, NEW g, \A i \in S : f[i] \in Int /\ f[i] = g[i]
  PROVE  SumFunctionOnSet(f, S) = SumFunctionOnSet(g, S)
<1>1. SumFunctionOnSet(f, S) \in Int /\ SumFunctionOnSet(g, S) \in Int
  BY SumWithout
<1>2. SumFunctionOnSet(f, S) <= SumFunctionOnSet(g, S)
  BY SumAtMost
<1>3. SumFunctionOnSet(g, S) <= SumFunctionOnSet(f, S)
  BY SumAtMost
<1> QED
  BY <1>1, <1>2, <1>3

\* No sum of natural numbers is negative, and each is at most the sum.
LEMMA SumOfNats ==
  ASSUME NEW S, IsFiniteSet(S), NEW f, \A i \in S : f[i] \in Nat
  PROVE  /\ SumFunctionOnSet(f, S) \in Nat
         /\ \A i \in S : f[i] <= SumFunctionOnSet(f, S)
<1> DEFINE F == {s \in SUBSET S : SumFunctionOnSet(f, s) \in Nat}
<1>1. {} \in F
  BY SumOfNone
<1>2. ASSUME NEW s \in SUBSET S, NEW x \in s PROVE
        SumFunctionOnSet(f, s) = f[x] + SumFunctionOnSet(f, s \ {x})
  <2>1. IsFiniteSet(s)
    BY FS_Subset
  <2>2. \A i \in s : f[i] \in Int
    OBVIOUS
  <2> QED
    BY <2>1, <2>2, SumWithout
<1>3. \A s \in SUBSET S : s \in F
  <2> SUFFICES ASSUME NEW T \in SUBSET S PROVE T \in F
    OBVIOUS
  <2>1. IsFiniteSet(T)
    BY FS_Subset
  <2>2. ASSUME NEW s \in SUBSET T, NEW x \in s, s \ {x} \in F PROVE s \in F
    <3>1. s \in SUBSET S
      OBVIOUS
    <3>2. SumFunctionOnSet(f, s) = f[x] + SumFunctionOnSet(f, s \ {x})
      BY <1>2, <3>1
    <3> QED
      BY <2>2, <3>1, <3>2
  <2> HIDE DEF F
  <2> QED
    BY <1>1, <2>1, <2>2, PartsInduction
<1>4. SumFunctionOnSet(f, S) \in Nat
  BY <1>3
<1>5. ASSUME NEW i \in S PROVE f[i] <= SumFunctionOnSet(f, S)
  <2>1. SumFunctionOnSet(f, S) = f[i] + SumFunctionOnSet(f, S \ {i})
    BY <1>2
  <2>2. SumFunctionOnSet(f, S \ {i}) \in Nat
    BY <1>3
  <2> QED
    BY <2>1, <2>2
<1> QED
  BY <1>4, <1>5

\* What is zero does not count.
LEMMA SumOfParts ==
  ASSUME NEW S, IsFiniteSet(S), NEW f, \A i \in S : f[i] \in Int,
         NEW D \in SUBSET S, \A i \in S \ D : f[i] = 0
  PROVE  SumFunctionOnSet(f, S) = SumFunctionOnSet(f, D)
<1> DEFINE F == {s \in SUBSET S : SumFunctionOnSet(f, s) = SumFunctionOnSet(f, s \cap D)}
<1>1. {} \in F
  BY SumOfNone
<1>2. ASSUME NEW s \in SUBSET S, NEW x \in s, s \ {x} \in F PROVE s \in F
  <2>1. IsFiniteSet(s) /\ IsFiniteSet(s \cap D) /\ \A i \in s : f[i] \in Int
    BY FS_Subset
  <2>2. SumFunctionOnSet(f, s) = f[x] + SumFunctionOnSet(f, s \ {x})
    BY <2>1, SumWithout
  <2>3. SumFunctionOnSet(f, s \ {x}) = SumFunctionOnSet(f, (s \ {x}) \cap D)
    BY <1>2
  <2>4. CASE x \in D
    <3>1. (s \ {x}) \cap D = (s \cap D) \ {x} /\ x \in s \cap D /\ \A i \in s \cap D : f[i] \in Int
      BY <2>1, <2>4
    <3>2. SumFunctionOnSet(f, s \cap D) = f[x] + SumFunctionOnSet(f, (s \cap D) \ {x})
      BY <2>1, <3>1, SumWithout
    <3> QED
      BY <2>2, <2>3, <3>1, <3>2
  <2>5. CASE x \notin D
    <3>1. (s \ {x}) \cap D = s \cap D /\ f[x] = 0
      BY <2>5
    <3>2. IsFiniteSet(s \ {x}) /\ \A i \in s \ {x} : f[i] \in Int
      BY <2>1, FS_Subset
    <3>3. SumFunctionOnSet(f, s \ {x}) \in Int
      BY <3>2, SumWithout
    <3>4. SumFunctionOnSet(f, s) = SumFunctionOnSet(f, s \ {x})
      BY <2>2, <3>1, <3>3
    <3> QED
      BY <2>3, <3>1, <3>4
  <2> QED
    BY <2>4, <2>5
<1>3. S \in F
  <2> HIDE DEF F
  <2> QED
    BY <1>1, <1>2, PartsInduction
<1>4. S \cap D = D
  OBVIOUS
<1> QED
  BY <1>3, <1>4

\* One entry that is not 0
LEMMA SumOnlyAt ==
  ASSUME NEW S, IsFiniteSet(S), NEW f, NEW x \in S, f[x] \in Int, \A i \in S \ {x} : f[i] = 0
  PROVE  SumFunctionOnSet(f, S) = f[x]
<1>1. \A i \in S : f[i] \in Int
  OBVIOUS
<1>2. SumFunctionOnSet(f, S) = SumFunctionOnSet(f, {x})
  BY <1>1, SumOfParts
<1>3. SumFunctionOnSet(f, {x}) = f[x] + SumFunctionOnSet(f, {})
  <2>1. IsFiniteSet({x}) /\ {x} \ {x} = {}
    BY FS_Singleton
  <2> QED
    BY <2>1, SumWithout
<1> QED
  BY <1>2, <1>3, SumOfNone

\* The sum over the first entries, one after the other
LEMMA SumUpTo ==
  ASSUME NEW n \in Nat, NEW f, \A i \in 1..(n + 1) : f[i] \in Int
  PROVE  /\ SumFunctionOnSet(f, 1..n) \in Int
         /\ SumFunctionOnSet(f, 1..(n + 1)) = f[n + 1] + SumFunctionOnSet(f, 1..n)
<1>1. IsFiniteSet(1..n) /\ IsFiniteSet(1..(n + 1))
  BY FS_Interval
<1>2. (1..(n + 1)) \ {n + 1} = 1..n /\ n + 1 \in 1..(n + 1)
  OBVIOUS
<1>3. \A i \in 1..n : f[i] \in Int
  OBVIOUS
<1>4. SumFunctionOnSet(f, 1..n) \in Int
  BY <1>1, <1>3, SumWithout
<1>5. SumFunctionOnSet(f, 1..(n + 1)) = f[n + 1] + SumFunctionOnSet(f, 1..n)
  <2> DEFINE S == 1..(n + 1)
  <2>1. IsFiniteSet(S) /\ n + 1 \in S /\ \A i \in S : f[i] \in Int
    BY <1>1, <1>2
  <2>2. S \ {n + 1} = 1..n
    BY <1>2
  <2> HIDE DEF S
  <2>3. SumFunctionOnSet(f, S) = f[n + 1] + SumFunctionOnSet(f, S \ {n + 1})
    BY <2>1, SumWithout
  <2> QED
    BY <2>2, <2>3 DEF S
<1> QED
  BY <1>4, <1>5

\* Sequences and their elements
LEMMA SeqOfFunction ==
  ASSUME NEW D, NEW m \in Nat, NEW q \in [1..m -> D]
  PROVE  q \in Seq(D) /\ Len(q) = m
OBVIOUS

LEMMA ElementOf ==
  ASSUME NEW D, NEW q \in Seq(D), NEW k \in 1..Len(q)
  PROVE  q[k] \in D
OBVIOUS

\* The recursive function FlattenSeq is made of
Flattens(ss, n, f) == f = [i \in 1..n |-> IF i = 1 THEN ss[i] ELSE f[i - 1] \o ss[i]]

\* FlattenSeq is defined by a recursive function: some function satisfies its equations.
LEMMA FlattenIsChosen ==
  ASSUME NEW ss, Len(ss) # 0
  PROVE  FlattenSeq(ss) = (CHOOSE f : Flattens(ss, Len(ss), f))[Len(ss)]
BY DEF FlattenSeq, Flattens

LEMMA FlattenExists ==
  ASSUME NEW ss, NEW n \in Nat
  PROVE  \E f : Flattens(ss, n, f)
<1> DEFINE bad == {k \in Nat : ~ \E f : Flattens(ss, k, f)}
<1>1. SUFFICES ASSUME bad # {} PROVE FALSE
  OBVIOUS
<1>2. PICK k \in bad : \A j \in bad : k <= j
  <2>1. bad \in SUBSET Nat
    OBVIOUS
  <2> HIDE DEF bad
  <2> QED
    BY <1>1, <2>1, NatLeast
<1>3. k \in Nat /\ ~ \E f : Flattens(ss, k, f)
  BY <1>2
<1>4. k # 0
  <2> SUFFICES ASSUME k = 0 PROVE \E f : Flattens(ss, 0, f)
    BY <1>3
  <2> DEFINE g == [i \in 1..0 |-> ss[i]]
  <2>1. g = [i \in 1..0 |-> IF i = 1 THEN ss[i] ELSE g[i - 1] \o ss[i]]
    <3>1. 1..0 = {}
      OBVIOUS
    <3> QED
      BY <3>1
  <2> HIDE DEF g
  <2> QED
    BY <2>1 DEF Flattens
<1>5. PICK m \in Nat : k = m + 1
  <2>1. k - 1 \in Nat /\ k = (k - 1) + 1
    BY <1>3, <1>4
  <2> QED
    BY <2>1
<1>6. m \notin bad
  <2> HIDE DEF bad
  <2> QED
    BY <1>2, <1>5
<1>7. PICK f : Flattens(ss, m, f)
  BY <1>6
<1>8. f = [i \in 1..m |-> IF i = 1 THEN ss[i] ELSE f[i - 1] \o ss[i]]
  BY <1>7 DEF Flattens
<1> DEFINE g == [i \in 1..k |-> IF i = 1 THEN ss[i] ELSE f[i - 1] \o ss[i]]
<1>9. \A i \in 1..m : g[i] = f[i]
  <2> SUFFICES ASSUME NEW i \in 1..m PROVE g[i] = f[i]
    OBVIOUS
  <2>1. i \in 1..k
    BY <1>5
  <2>2. f[i] = IF i = 1 THEN ss[i] ELSE f[i - 1] \o ss[i]
    BY <1>8
  <2> QED
    BY <2>1, <2>2
<1>10. \A i \in 1..k : i # 1 => g[i - 1] = f[i - 1]
  <2> HIDE DEF g
  <2>1. \A i \in 1..k : i # 1 => i - 1 \in 1..m
    BY <1>5
  <2> QED
    BY <1>9, <2>1
<1>11. g = [i \in 1..k |-> IF i = 1 THEN ss[i] ELSE g[i - 1] \o ss[i]]
  BY <1>10
<1> HIDE DEF g
<1> QED
  BY <1>3, <1>11 DEF Flattens

\* A sequence of sequences put one behind the other is as long as they are
\* together.
LEMMA FlattenLength ==
  ASSUME NEW D, NEW n \in Nat \ {0}, NEW ss \in [1..n -> Seq(D)],
         NEW len, \A i \in 1..n : len[i] = Len(ss[i])
  PROVE  FlattenSeq(ss) \in Seq(D) /\ Len(FlattenSeq(ss)) = SumFunctionOnSet(len, 1..n)
<1>1. Len(ss) = n
  OBVIOUS
<1>2. PICK f : f = CHOOSE h : Flattens(ss, n, h)
  OBVIOUS
<1>3. FlattenSeq(ss) = f[n]
  BY <1>1, <1>2, FlattenIsChosen
<1>4. f = [i \in 1..n |-> IF i = 1 THEN ss[i] ELSE f[i - 1] \o ss[i]]
  <2>1. Flattens(ss, n, f)
    BY <1>2, FlattenExists
  <2> QED
    BY <2>1 DEF Flattens
<1> DEFINE Good(k) == f[k] \in Seq(D) /\ Len(f[k]) = SumFunctionOnSet(len, 1..k)
           bad == {k \in 1..n : ~ Good(k)}
<1>5. \A i \in 1..n : ss[i] \in Seq(D) /\ len[i] \in Int
  <2> SUFFICES ASSUME NEW i \in 1..n PROVE ss[i] \in Seq(D) /\ len[i] \in Int
    OBVIOUS
  <2>1. ss[i] \in Seq(D)
    OBVIOUS
  <2>2. Len(ss[i]) \in Nat
    BY <2>1
  <2> QED
    BY <2>1, <2>2
<1>6. ASSUME bad # {} PROVE FALSE
  <2>1. PICK k \in bad : \A j \in bad : k <= j
    <3>1. bad \in SUBSET Nat
      OBVIOUS
    <3> HIDE DEF bad
    <3> QED
      BY <1>6, <3>1, NatLeast
  <2>2. k \in 1..n /\ ~ Good(k)
    BY <2>1
  <2>3. PICK m \in Nat : k = m + 1
    <3>1. k - 1 \in Nat /\ k = (k - 1) + 1
      BY <2>2
    <3> QED
      BY <3>1
  <2>4. SumFunctionOnSet(len, 1..k) = len[k] + SumFunctionOnSet(len, 1..m)
    <3>1. \A i \in 1..(m + 1) : len[i] \in Int
      BY <1>5, <2>2, <2>3
    <3> QED
      BY <2>3, <3>1, SumUpTo
  <2>5. CASE m = 0
    <3>1. k = 1 /\ f[k] = ss[k] /\ 1..m = {}
      BY <1>4, <2>2, <2>3, <2>5
    <3>2. SumFunctionOnSet(len, 1..m) = 0
      BY <3>1, SumOfNone
    <3>3. len[k] = Len(ss[k]) /\ ss[k] \in Seq(D) /\ len[k] \in Int
      BY <1>5, <2>2
    <3>4. SumFunctionOnSet(len, 1..k) = Len(f[k])
      BY <2>4, <3>1, <3>2, <3>3
    <3> QED
      BY <2>2, <3>1, <3>3, <3>4
  <2>6. CASE m # 0
    <3>1. m \in 1..n /\ k # 1 /\ k - 1 = m
      BY <2>2, <2>3, <2>6
    <3>2. m \notin bad
      <4> HIDE DEF bad
      <4> QED
        BY <2>1, <2>3
    <3>3. f[m] \in Seq(D) /\ Len(f[m]) = SumFunctionOnSet(len, 1..m)
      BY <3>1, <3>2
    <3>4. f[k] = f[m] \o ss[k]
      BY <1>4, <2>2, <3>1
    <3>5. ss[k] \in Seq(D) /\ len[k] = Len(ss[k])
      BY <1>5, <2>2
    <3>6. f[k] \in Seq(D) /\ Len(f[k]) = Len(f[m]) + Len(ss[k])
      <4>1. PICK a, b \in Seq(D) : a = f[m] /\ b = ss[k]
        BY <3>3, <3>5
      <4>2. a \o b \in Seq(D) /\ Len(a \o b) = Len(a) + Len(b)
        BY ConcatProperties
      <4> QED
        BY <3>4, <4>1, <4>2
    <3>7. Len(f[m]) \in Nat /\ Len(ss[k]) \in Nat
      BY <3>3, <3>5
    <3>8. Len(f[k]) = SumFunctionOnSet(len, 1..k)
      BY <2>4, <3>3, <3>5, <3>6, <3>7
    <3> QED
      BY <2>2, <3>6, <3>8
  <2> QED
    BY <2>5, <2>6
<1>7. n \notin bad /\ n \in 1..n
  BY <1>6
<1> QED
  BY <1>3, <1>7

\* Those of a set that have a value in S, and how many: the sum over the values
Having(G, v, S) == {n \in G : v[n] \in S}

\* How many have a value in S is the sum over S of how many have each.
LEMMA SumOfCounts ==
  ASSUME NEW S, IsFiniteSet(S), NEW G, IsFiniteSet(G), NEW v, NEW c,
         \A m \in S : c[m] = Cardinality(Having(G, v, {m}))
  PROVE  SumFunctionOnSet(c, S) = Cardinality(Having(G, v, S))
<1> DEFINE With(s) == Having(G, v, s)
           F == {s \in SUBSET S : SumFunctionOnSet(c, s) = Cardinality(With(s))}
<1>1. {} \in F
  BY SumOfNone, FS_EmptySet DEF Having
<1>2. ASSUME NEW s \in SUBSET S, NEW x \in s, s \ {x} \in F PROVE s \in F
  <2> DEFINE rest == With(s \ {x})
             own == With({x})
  <2>1. IsFiniteSet(s) /\ IsFiniteSet(rest) /\ IsFiniteSet(own)
    BY FS_Subset DEF Having
  <2>2. \A m \in s : c[m] \in Int
    <3> SUFFICES ASSUME NEW m \in s PROVE c[m] \in Int
      OBVIOUS
    <3>1. IsFiniteSet(With({m}))
      BY FS_Subset DEF Having
    <3>2. c[m] = Cardinality(With({m}))
      OBVIOUS
    <3> QED
      BY <3>1, <3>2, FS_CardinalityType
  <2>3. SumFunctionOnSet(c, s) = c[x] + SumFunctionOnSet(c, s \ {x})
    BY <2>1, <2>2, SumWithout
  <2>4. With(s) = own \cup rest /\ own \cap rest = {}
    BY DEF Having
  <2>5. c[x] = Cardinality(own) /\ SumFunctionOnSet(c, s \ {x}) = Cardinality(rest)
    BY <1>2
  <2> HIDE DEF rest, own, With
  <2>6. Cardinality(With(s)) = Cardinality(own) + Cardinality(rest)
    <3>1. Cardinality(own \cup rest) = Cardinality(own) + Cardinality(rest) - Cardinality(own \cap rest)
      BY <2>1, FS_Union
    <3>2. Cardinality(own) \in Nat /\ Cardinality(rest) \in Nat /\ Cardinality({}) = 0
      BY <2>1, FS_CardinalityType, FS_EmptySet
    <3>3. Cardinality(own \cap rest) = 0
      BY <2>4, <3>2
    <3>4. Cardinality(With(s)) = Cardinality(own \cup rest)
      BY <2>4
    <3> QED
      BY <3>1, <3>2, <3>3, <3>4
  <2> QED
    BY <2>3, <2>5, <2>6
<1> HIDE DEF F
<1>3. S \in F
  BY <1>1, <1>2, PartsInduction
<1> QED
  BY <1>3 DEF F

\* Sums added number by number
LEMMA SumPlus ==
  ASSUME NEW S, IsFiniteSet(S), NEW f, NEW g, NEW h,
         \A i \in S : f[i] \in Int /\ g[i] \in Int /\ h[i] = f[i] + g[i]
  PROVE  SumFunctionOnSet(h, S) = SumFunctionOnSet(f, S) + SumFunctionOnSet(g, S)
<1> DEFINE F == {s \in SUBSET S :
                   SumFunctionOnSet(h, s) = SumFunctionOnSet(f, s) + SumFunctionOnSet(g, s)}
<1>1. {} \in F
  BY SumOfNone
<1>2. ASSUME NEW s \in SUBSET S, NEW x \in s, s \ {x} \in F PROVE s \in F
  <2>1. IsFiniteSet(s) /\ IsFiniteSet(s \ {x})
    BY FS_Subset
  <2>2. \A i \in s : f[i] \in Int /\ g[i] \in Int /\ h[i] \in Int
    OBVIOUS
  <2>3. /\ SumFunctionOnSet(f, s) = f[x] + SumFunctionOnSet(f, s \ {x})
        /\ SumFunctionOnSet(f, s \ {x}) \in Int
    BY <2>1, <2>2, SumWithout
  <2>4. /\ SumFunctionOnSet(g, s) = g[x] + SumFunctionOnSet(g, s \ {x})
        /\ SumFunctionOnSet(g, s \ {x}) \in Int
    BY <2>1, <2>2, SumWithout
  <2>5. /\ SumFunctionOnSet(h, s) = h[x] + SumFunctionOnSet(h, s \ {x})
        /\ SumFunctionOnSet(h, s \ {x}) \in Int
    BY <2>1, <2>2, SumWithout
  <2>6. h[x] = f[x] + g[x] /\ f[x] \in Int /\ g[x] \in Int
    OBVIOUS
  <2>7. SumFunctionOnSet(h, s \ {x}) = SumFunctionOnSet(f, s \ {x}) + SumFunctionOnSet(g, s \ {x})
    BY <1>2
  <2> QED
    BY <2>3, <2>4, <2>5, <2>6, <2>7
<1> HIDE DEF F
<1>3. S \in F
  BY <1>1, <1>2, PartsInduction
<1> QED
  BY <1>3 DEF F

\* The sum of a constant
LEMMA SumOfConstant ==
  ASSUME NEW S, IsFiniteSet(S), NEW f, NEW c \in Int, \A i \in S : f[i] = c
  PROVE  SumFunctionOnSet(f, S) = c * Cardinality(S)
<1> DEFINE F == {s \in SUBSET S : SumFunctionOnSet(f, s) = c * Cardinality(s)}
<1>1. {} \in F
  BY SumOfNone, FS_EmptySet
<1>2. ASSUME NEW s \in SUBSET S, NEW x \in s, s \ {x} \in F PROVE s \in F
  <2>1. IsFiniteSet(s) /\ IsFiniteSet(s \ {x})
    BY FS_Subset
  <2>2. SumFunctionOnSet(f, s) = f[x] + SumFunctionOnSet(f, s \ {x}) /\ f[x] = c
    BY <2>1, SumWithout
  <2>3. SumFunctionOnSet(f, s \ {x}) = c * Cardinality(s \ {x})
    BY <1>2
  <2>4. PICK n \in Nat : n = Cardinality(s \ {x})
    BY <2>1, FS_CardinalityType
  <2>5. Cardinality(s) = n + 1
    <3>1. Cardinality(s) \in Nat /\ Cardinality(s \ {x}) = Cardinality(s) - 1
      BY <2>1, FS_RemoveElement, FS_CardinalityType
    <3> QED
      BY <2>4, <3>1
  <2>6. c * (n + 1) = c + c * n
    OBVIOUS
  <2> QED
    BY <2>2, <2>3, <2>4, <2>5, <2>6
<1> HIDE DEF F
<1>3. S \in F
  BY <1>1, <1>2, PartsInduction
<1> QED
  BY <1>3 DEF F

\* Two sets that have nothing in common
LEMMA SumOfBoth ==
  ASSUME NEW S, IsFiniteSet(S), NEW f, \A i \in S : f[i] \in Int, NEW D \in SUBSET S
  PROVE  SumFunctionOnSet(f, S) = SumFunctionOnSet(f, D) + SumFunctionOnSet(f, S \ D)
<1> DEFINE g == [i \in S |-> IF i \in D THEN f[i] ELSE 0]
           h == [i \in S |-> IF i \in D THEN 0 ELSE f[i]]
<1>1. \A i \in S : g[i] \in Int /\ h[i] \in Int /\ f[i] = g[i] + h[i]
  OBVIOUS
<1>2. IsFiniteSet(D) /\ IsFiniteSet(S \ D)
  BY FS_Subset
<1>3. /\ \A i \in S \ D : g[i] = 0
      /\ \A i \in S \ (S \ D) : h[i] = 0
      /\ \A i \in D : g[i] \in Int /\ g[i] = f[i]
      /\ \A i \in S \ D : h[i] \in Int /\ h[i] = f[i]
  OBVIOUS
<1> HIDE DEF g, h
<1>4. SumFunctionOnSet(f, S) = SumFunctionOnSet(g, S) + SumFunctionOnSet(h, S)
  BY <1>1, SumPlus
<1>5. SumFunctionOnSet(g, S) = SumFunctionOnSet(g, D)
  BY <1>1, <1>3, SumOfParts
<1>6. SumFunctionOnSet(g, D) = SumFunctionOnSet(f, D)
  BY <1>2, <1>3, SumSame
<1>7. SumFunctionOnSet(h, S) = SumFunctionOnSet(h, S \ D)
  <2>1. S \ D \in SUBSET S
    OBVIOUS
  <2> QED
    BY <1>1, <1>3, <2>1, SumOfParts
<1>8. SumFunctionOnSet(h, S \ D) = SumFunctionOnSet(f, S \ D)
  BY <1>2, <1>3, SumSame
<1> QED
  BY <1>4, <1>5, <1>6, <1>7, <1>8

\* A sum put together by a key: part[k] is the sum over those with the key k.
IsByKey(part, K, f, S, key) ==
  /\ \A i \in S : f[i] \in Int /\ key[i] \in K
  /\ \A k \in K : part[k] = SumFunctionOnSet(f, Having(S, key, {k}))

LEMMA SumByKey ==
  ASSUME NEW S, IsFiniteSet(S), NEW K, IsFiniteSet(K), NEW f, NEW key, NEW part,
         IsByKey(part, K, f, S, key)
  PROVE  SumFunctionOnSet(part, K) = SumFunctionOnSet(f, S)
<1> USE DEF IsByKey
<1> DEFINE With(s) == Having(S, key, s)
           F == {s \in SUBSET K : SumFunctionOnSet(part, s) = SumFunctionOnSet(f, With(s))}
<1>1. {} \in F
  <2>1. With({}) = {}
    BY DEF Having
  <2> QED
    BY <2>1, SumOfNone
<1>2. \A s : IsFiniteSet(With(s)) /\ SumFunctionOnSet(f, With(s)) \in Int
  <2> SUFFICES ASSUME NEW s PROVE IsFiniteSet(With(s)) /\ SumFunctionOnSet(f, With(s)) \in Int
    OBVIOUS
  <2>1. With(s) \in SUBSET S
    BY DEF Having
  <2>2. IsFiniteSet(With(s)) /\ \A i \in With(s) : f[i] \in Int
    BY <2>1, FS_Subset
  <2> QED
    BY <2>2, SumWithout
<1>3. ASSUME NEW s \in SUBSET K, NEW x \in s, s \ {x} \in F PROVE s \in F
  <2>1. IsFiniteSet(s)
    BY FS_Subset
  <2>2. \A k \in s : part[k] \in Int
    BY <1>2
  <2>3. SumFunctionOnSet(part, s) = part[x] + SumFunctionOnSet(part, s \ {x})
    BY <2>1, <2>2, SumWithout
  <2>4. With(s) \ With({x}) = With(s \ {x}) /\ With({x}) \in SUBSET With(s)
    BY DEF Having
  <2>5. \A i \in With(s) : f[i] \in Int
    BY DEF Having
  <2>6. SumFunctionOnSet(f, With(s)) = SumFunctionOnSet(f, With({x})) + SumFunctionOnSet(f, With(s) \ With({x}))
    <3> HIDE DEF With
    <3> QED
      BY <1>2, <2>4, <2>5, SumOfBoth
  <2>7. part[x] = SumFunctionOnSet(f, With({x}))
    OBVIOUS
  <2>8. SumFunctionOnSet(part, s \ {x}) = SumFunctionOnSet(f, With(s \ {x}))
    BY <1>3
  <2>9. SumFunctionOnSet(part, s) = SumFunctionOnSet(f, With(s))
    <3> HIDE DEF With
    <3> QED
      BY <2>3, <2>4, <2>6, <2>7, <2>8
  <2> QED
    BY <2>9
<1>4. K \in F
  <2> HIDE DEF F
  <2> QED
    BY <1>1, <1>3, PartsInduction
<1>5. With(K) = S
  BY DEF Having
<1> QED
  BY <1>4, <1>5

\* A table is summed by rows or by columns.
AreRowsAndColumns(row, A, col, B, t) ==
  /\ \A a \in A : \A b \in B : t[a][b] \in Int
  /\ \A a \in A : row[a] = SumFunctionOnSet(t[a], B)
  /\ \A b \in B : col[b] = SumFunctionOnSet([a \in A |-> t[a][b]], A)

LEMMA SumSwap ==
  ASSUME NEW A, IsFiniteSet(A), NEW B, IsFiniteSet(B), NEW t, NEW row, NEW col,
         AreRowsAndColumns(row, A, col, B, t)
  PROVE  SumFunctionOnSet(row, A) = SumFunctionOnSet(col, B)
<1> USE DEF AreRowsAndColumns
<1> DEFINE ColOf(s) == [b \in B |-> SumFunctionOnSet([a \in A |-> t[a][b]], s)]
           F == {s \in SUBSET A : SumFunctionOnSet(row, s) = SumFunctionOnSet(ColOf(s), B)}
<1>1. \A s \in SUBSET A : \A b \in B : SumFunctionOnSet([a \in A |-> t[a][b]], s) \in Int
  <2> SUFFICES ASSUME NEW s \in SUBSET A, NEW b \in B
               PROVE  SumFunctionOnSet([a \in A |-> t[a][b]], s) \in Int
    OBVIOUS
  <2> DEFINE g == [a \in A |-> t[a][b]]
  <2>1. IsFiniteSet(s) /\ \A a \in s : g[a] \in Int
    BY FS_Subset
  <2> HIDE DEF g
  <2>2. SumFunctionOnSet(g, s) \in Int
    BY <2>1, SumWithout
  <2> QED
    BY <2>2 DEF g
<1>2. {} \in F
  <2>1. \A b \in B : ColOf({})[b] = 0
    BY SumOfNone
  <2> DEFINE c == ColOf({})
  <2> HIDE DEF c
  <2>2. SumFunctionOnSet(c, B) = 0
    <3>1. SumFunctionOnSet(c, B) = 0 * Cardinality(B)
      <4>1. \A b \in B : c[b] = 0
        BY <2>1 DEF c
      <4>2. 0 \in Int
        OBVIOUS
      <4> QED
        BY <4>1, <4>2, SumOfConstant
    <3>2. Cardinality(B) \in Nat
      BY FS_CardinalityType
    <3> QED
      BY <3>1, <3>2
  <2>3. SumFunctionOnSet(row, {}) = 0
    BY SumOfNone
  <2> QED
    BY <2>2, <2>3 DEF c
<1>3. ASSUME NEW s \in SUBSET A, NEW x \in s, s \ {x} \in F PROVE s \in F
  <2>1. IsFiniteSet(s) /\ s \ {x} \in SUBSET A
    BY FS_Subset
  <2>2. \A a \in s : row[a] \in Int
    <3> SUFFICES ASSUME NEW a \in s PROVE row[a] \in Int
      OBVIOUS
    <3>1. row[a] = SumFunctionOnSet(t[a], B) /\ \A b \in B : t[a][b] \in Int
      OBVIOUS
    <3> QED
      BY <3>1, SumWithout
  <2>3. SumFunctionOnSet(row, s) = row[x] + SumFunctionOnSet(row, s \ {x})
    BY <2>1, <2>2, SumWithout
  <2> DEFINE c == ColOf(s)
             d == ColOf(s \ {x})
             e == t[x]
  <2>4. \A b \in B : c[b] = e[b] + d[b] /\ e[b] \in Int /\ d[b] \in Int
    <3> SUFFICES ASSUME NEW b \in B PROVE c[b] = e[b] + d[b] /\ e[b] \in Int /\ d[b] \in Int
      OBVIOUS
    <3> DEFINE g == [a \in A |-> t[a][b]]
    <3>1. \A a \in s : g[a] \in Int
      OBVIOUS
    <3>2. c[b] = SumFunctionOnSet(g, s) /\ d[b] = SumFunctionOnSet(g, s \ {x}) /\ g[x] = e[b]
      OBVIOUS
    <3>3. SumFunctionOnSet(g, s) = g[x] + SumFunctionOnSet(g, s \ {x})
      <4> HIDE DEF g, c, d, e
      <4> QED
        BY <2>1, <3>1, SumWithout
    <3>4. e[b] \in Int
      OBVIOUS
    <3>5. d[b] \in Int
      BY <1>1, <2>1
    <3> HIDE DEF g, c, d, e
    <3> QED
      BY <3>2, <3>3, <3>4, <3>5
  <2>5. row[x] = SumFunctionOnSet(e, B)
    OBVIOUS
  <2>6. SumFunctionOnSet(row, s \ {x}) = SumFunctionOnSet(d, B)
    BY <1>3
  <2> HIDE DEF c, d, e
  <2>7. SumFunctionOnSet(c, B) = SumFunctionOnSet(e, B) + SumFunctionOnSet(d, B)
    BY <2>4, SumPlus
  <2>8. SumFunctionOnSet(row, s) = SumFunctionOnSet(c, B)
    BY <2>3, <2>5, <2>6, <2>7
  <2> QED
    BY <2>8 DEF c
<1>4. A \in F
  <2> HIDE DEF F
  <2> QED
    BY <1>2, <1>3, PartsInduction
<1>5. \A b \in B : col[b] = ColOf(A)[b] /\ col[b] \in Int
  BY <1>1
<1> DEFINE c == ColOf(A)
<1>6. SumFunctionOnSet(row, A) = SumFunctionOnSet(c, B)
  BY <1>4
<1> HIDE DEF c
<1>7. SumFunctionOnSet(col, B) = SumFunctionOnSet(c, B)
  BY <1>5, SumSame DEF c
<1> QED
  BY <1>6, <1>7

\* What a quotient is, rounded down and rounded up
LEMMA QuotientBounds ==
  ASSUME NEW n \in Int, NEW d \in Nat \ {0}
  PROVE  /\ n \div d \in Int /\ (n \in Nat => n \div d \in Nat)
         /\ (n \div d) * d <= n /\ n < (n \div d) * d + d
OBVIOUS

\* A quotient rounded up is at least the exact one.
LEMMA CeilDivBounds ==
  ASSUME NEW n \in Nat, NEW d \in Nat \ {0}
  PROVE  CeilDiv(n, d) \in Nat /\ n <= CeilDiv(n, d) * d /\ CeilDiv(n, d) * d < n + d
<1> DEFINE a == n + d - 1
           q == (a \div d) * d
<1>1. a \in Nat
  OBVIOUS
<1>2. a \div d \in Nat /\ q <= a /\ a < q + d
  BY <1>1, QuotientBounds
<1> HIDE DEF a
<1>3. CeilDiv(n, d) = a \div d /\ q \in Int
  BY <1>2 DEF CeilDiv, a
<1> HIDE DEF q
<1>4. n <= q /\ q < n + d
  BY <1>2, <1>3 DEF a
<1> QED
  BY <1>2, <1>3, <1>4 DEF q

\* Shares of N rounded up give N at least.
LEMMA SharesSuffice ==
  ASSUME NEW S, IsFiniteSet(S), S # {}, NEW N \in Nat,
         NEW share, \A m \in S : share[m] \in Nat \ {0},
         NEW c, \A m \in S : c[m] = CeilDiv(share[m] * N, SumFunctionOnSet(share, S))
  PROVE  /\ \A m \in S : c[m] \in Nat
         /\ SumFunctionOnSet(c, S) \in Nat
         /\ N <= SumFunctionOnSet(c, S)
<1> DEFINE T == SumFunctionOnSet(share, S)
           F == {s \in SUBSET S :
                   N * SumFunctionOnSet(share, s) <= T * SumFunctionOnSet(c, s)}
<1>1. T \in Nat \ {0}
  <2>1. PICK m \in S : TRUE
    OBVIOUS
  <2>2. T \in Nat /\ share[m] <= T
    BY SumOfNats
  <2> QED
    BY <2>2
<1>2. \A m \in S : c[m] \in Nat /\ share[m] * N <= c[m] * T
  <2> SUFFICES ASSUME NEW m \in S PROVE c[m] \in Nat /\ share[m] * N <= c[m] * T
    OBVIOUS
  <2>1. share[m] * N \in Nat
    OBVIOUS
  <2> HIDE DEF T
  <2> QED
    BY <1>1, <2>1, CeilDivBounds DEF T
<1>3. {} \in F
  <2> HIDE DEF T
  <2> QED
    BY <1>1, SumOfNone
<1>4. ASSUME NEW s \in SUBSET S, NEW x \in s, s \ {x} \in F PROVE s \in F
  <2> DEFINE a == SumFunctionOnSet(share, s \ {x})
             b == SumFunctionOnSet(c, s \ {x})
  <2>1. IsFiniteSet(s)
    BY FS_Subset
  <2>2. IsFiniteSet(s \ {x})
    BY <2>1, FS_Subset
  <2>3. /\ SumFunctionOnSet(share, s) = share[x] + a
        /\ SumFunctionOnSet(c, s) = c[x] + b
    BY <1>2, <2>1, SumWithout
  <2>4. a \in Int /\ b \in Int
    BY <1>2, <2>2, SumWithout
  <2>5. N * a <= T * b
    BY <1>4
  <2>6. share[x] * N <= c[x] * T /\ share[x] \in Nat /\ c[x] \in Nat
    BY <1>2
  <2> HIDE DEF a, b, T
  <2>7. N * (share[x] + a) = share[x] * N + N * a /\ T * (c[x] + b) = c[x] * T + T * b
    BY <1>1, <2>4, <2>6
  <2> DEFINE p == share[x] * N
             q == c[x] * T
             u == N * a
             v == T * b
  <2>8. p \in Int /\ q \in Int /\ u \in Int /\ v \in Int /\ p <= q /\ u <= v
    BY <1>1, <2>4, <2>5, <2>6
  <2> HIDE DEF p, q, u, v
  <2>9. p + u <= q + v
    BY <2>8
  <2>10. N * (share[x] + a) <= T * (c[x] + b)
    BY <2>7, <2>9 DEF p, q, u, v
  <2> QED
    BY <2>3, <2>10
<1>5. N * T <= T * SumFunctionOnSet(c, S)
  <2> HIDE DEF F
  <2>1. S \in F
    BY <1>3, <1>4, PartsInduction
  <2> QED
    BY <2>1 DEF F
<1>6. SumFunctionOnSet(c, S) \in Nat
  BY <1>2, SumOfNats
<1> DEFINE C == SumFunctionOnSet(c, S)
<1> HIDE DEF T, C
<1>7. N <= C
  <2> SUFFICES ASSUME C + 1 <= N PROVE FALSE
    BY <1>6 DEF C
  <2>1. C \in Nat
    BY <1>6 DEF C
  <2>2. T * (C + 1) <= T * N /\ T * (C + 1) = T * C + T /\ T * N = N * T
    BY <1>1, <2>1
  <2>3. N * T <= T * C
    BY <1>5 DEF C
  <2> DEFINE tc == T * C
             nt == N * T
  <2>4. tc \in Int /\ nt \in Int
    BY <1>1, <2>1
  <2>5. tc + T <= nt /\ nt <= tc
    BY <2>2, <2>3
  <2> HIDE DEF tc, nt
  <2> QED
    BY <1>1, <2>4, <2>5
<1> QED
  BY <1>2, <1>6, <1>7 DEF C

\* The elements of a list differ in a key.
Apart(s, key) == \A i, j \in DOMAIN s : i # j => key[s[i]] # key[s[j]]

\* Two lists whose elements differ in a key, each from the other's too
LEMMA ConcatApart ==
  ASSUME NEW D, NEW s \in Seq(D), NEW t \in Seq(D), NEW key, Apart(s, key), Apart(t, key),
         \A a \in Range(s), b \in Range(t) : key[a] # key[b]
  PROVE  Apart(s \o t, key)
<1> DEFINE u == s \o t
<1>1. /\ DOMAIN u = 1..(Len(s) + Len(t)) /\ DOMAIN s = 1..Len(s) /\ DOMAIN t = 1..Len(t)
      /\ Len(s) \in Nat /\ Len(t) \in Nat
      /\ \A i \in 1..(Len(s) + Len(t)) : u[i] = IF i <= Len(s) THEN s[i] ELSE t[i - Len(s)]
  <2>1. u \in Seq(D) /\ Len(u) = Len(s) + Len(t)
    BY ConcatProperties
  <2> QED
    BY <2>1, ConcatProperties
<1> HIDE DEF u
<1>2. \A i \in DOMAIN u : /\ i <= Len(s) => i \in DOMAIN s /\ u[i] = s[i]
                          /\ i > Len(s) => i - Len(s) \in DOMAIN t /\ u[i] = t[i - Len(s)]
  BY <1>1
<1>3. \A i \in DOMAIN u : /\ i \in Int
                          /\ i <= Len(s) => u[i] \in Range(s)
                          /\ i > Len(s) => u[i] \in Range(t)
  BY <1>1, <1>2 DEF Range
<1>4. ASSUME NEW i \in DOMAIN u, NEW j \in DOMAIN u, i # j PROVE key[u[i]] # key[u[j]]
  <2>1. i \in Int /\ j \in Int
    BY <1>3
  <2>2. CASE i <= Len(s) /\ j <= Len(s)
    <3>1. i \in DOMAIN s /\ j \in DOMAIN s /\ u[i] = s[i] /\ u[j] = s[j]
      BY <1>2, <2>2
    <3> QED
      BY <1>4, <3>1 DEF Apart
  <2>3. CASE i > Len(s) /\ j > Len(s)
    <3>1. /\ i - Len(s) \in DOMAIN t /\ j - Len(s) \in DOMAIN t
          /\ u[i] = t[i - Len(s)] /\ u[j] = t[j - Len(s)]
      BY <1>2, <2>3
    <3>2. i - Len(s) # j - Len(s)
      BY <1>1, <1>4, <2>1
    <3> QED
      BY <3>1, <3>2 DEF Apart
  <2>4. CASE i <= Len(s) /\ j > Len(s)
    BY <1>3, <2>4
  <2>5. CASE i > Len(s) /\ j <= Len(s)
    BY <1>3, <2>5
  <2> QED
    BY <1>1, <2>1, <2>2, <2>3, <2>4, <2>5
<1> QED
  BY <1>4 DEF Apart, u

\* What the lists put together so far hold
Holds(ss, f, k) ==
  \A e : e \in Range(f[k]) <=> \E i \in 1..k : e \in Range(ss[i])

LEMMA FlattenPrefix ==
  ASSUME NEW D, NEW n \in Nat \ {0}, NEW ss \in [1..n -> Seq(D)], NEW f, Flattens(ss, n, f)
  PROVE  \A k \in 1..n : f[k] \in Seq(D) /\ Holds(ss, f, k)
<1>1. f = [i \in 1..n |-> IF i = 1 THEN ss[i] ELSE f[i - 1] \o ss[i]]
  BY DEF Flattens
<1> DEFINE Good(k) == f[k] \in Seq(D) /\ Holds(ss, f, k)
           bad == {k \in 1..n : ~ Good(k)}
<1>2. \A i \in 1..n : ss[i] \in Seq(D)
  OBVIOUS
<1>3. ASSUME bad # {} PROVE FALSE
  <2>1. PICK k \in bad : \A j \in bad : k <= j
    <3>1. bad \in SUBSET Nat
      OBVIOUS
    <3> HIDE DEF bad
    <3> QED
      BY <1>3, <3>1, NatLeast
  <2>2. k \in 1..n /\ ~ Good(k)
    BY <2>1
  <2>3. PICK m \in Nat : k = m + 1
    <3>1. k - 1 \in Nat /\ k = (k - 1) + 1
      BY <2>2
    <3> QED
      BY <3>1
  <2>4. CASE m = 0
    <3>1. k = 1 /\ f[k] = ss[k] /\ 1..k = {k}
      BY <1>1, <2>2, <2>3, <2>4
    <3> QED
      BY <1>2, <2>2, <3>1 DEF Holds
  <2>5. CASE m # 0
    <3>1. m \in 1..n /\ k # 1 /\ k - 1 = m
      BY <2>2, <2>3, <2>5
    <3>2. m \notin bad
      <4>1. ~ k <= m
        BY <2>3
      <4> HIDE DEF bad
      <4> QED
        BY <2>1, <4>1
    <3>3. f[m] \in Seq(D) /\ Holds(ss, f, m)
      BY <3>1, <3>2
    <3>4. f[k] = f[m] \o ss[k]
      BY <1>1, <2>2, <3>1
    <3>5. f[k] \in Seq(D) /\ Range(f[k]) = Range(f[m]) \cup Range(ss[k])
      <4>1. PICK a, b \in Seq(D) : a = f[m] /\ b = ss[k]
        BY <1>2, <2>2, <3>3
      <4>2. a \o b \in Seq(D) /\ Range(a \o b) = Range(a) \cup Range(b)
        BY ConcatProperties, RangeOfConcat
      <4> QED
        BY <3>4, <4>1, <4>2
    <3>6. \A i : i \in 1..k <=> i \in 1..m \/ i = k
      BY <2>3
    <3>7. Holds(ss, f, k)
      BY <3>3, <3>5, <3>6 DEF Holds
    <3> QED
      BY <2>2, <3>5, <3>7
  <2> QED
    BY <2>4, <2>5
<1> QED
  BY <1>3

\* A sequence of sequences put one behind the other holds what they hold.
LEMMA FlattenHolds ==
  ASSUME NEW D, NEW n \in Nat \ {0}, NEW ss \in [1..n -> Seq(D)]
  PROVE  /\ FlattenSeq(ss) \in Seq(D)
         /\ \A e : e \in Range(FlattenSeq(ss)) <=> \E i \in 1..n : e \in Range(ss[i])
<1>1. Len(ss) = n
  OBVIOUS
<1>2. PICK f : f = CHOOSE h : Flattens(ss, n, h)
  OBVIOUS
<1>3. FlattenSeq(ss) = f[n]
  BY <1>1, <1>2, FlattenIsChosen
<1>4. Flattens(ss, n, f)
  BY <1>2, FlattenExists
<1>5. n \in 1..n
  OBVIOUS
<1>6. f[n] \in Seq(D) /\ Holds(ss, f, n)
  BY <1>4, <1>5, FlattenPrefix
<1> QED
  BY <1>3, <1>6 DEF Holds

\* The lists of a sequence differ in a key, within each and from each other.
AllApart(ss, n, key) ==
  /\ \A i \in 1..n : Apart(ss[i], key)
  /\ \A i, j \in 1..n : i # j => \A a \in Range(ss[i]), b \in Range(ss[j]) : key[a] # key[b]

LEMMA FlattenApart ==
  ASSUME NEW D, NEW n \in Nat \ {0}, NEW ss \in [1..n -> Seq(D)], NEW key, AllApart(ss, n, key)
  PROVE  Apart(FlattenSeq(ss), key)
<1>1. Len(ss) = n
  OBVIOUS
<1>2. PICK f : f = CHOOSE h : Flattens(ss, n, h)
  OBVIOUS
<1>3. FlattenSeq(ss) = f[n]
  BY <1>1, <1>2, FlattenIsChosen
<1>4. Flattens(ss, n, f)
  BY <1>2, FlattenExists
<1>5. f = [i \in 1..n |-> IF i = 1 THEN ss[i] ELSE f[i - 1] \o ss[i]]
  BY <1>4 DEF Flattens
<1>6. \A k \in 1..n : f[k] \in Seq(D) /\ Holds(ss, f, k)
  BY <1>4, FlattenPrefix
<1> DEFINE bad == {k \in 1..n : ~ Apart(f[k], key)}
<1>7. ASSUME bad # {} PROVE FALSE
  <2>1. PICK k \in bad : \A j \in bad : k <= j
    <3>1. bad \in SUBSET Nat
      OBVIOUS
    <3> HIDE DEF bad
    <3> QED
      BY <1>7, <3>1, NatLeast
  <2>2. k \in 1..n /\ ~ Apart(f[k], key)
    BY <2>1
  <2>3. PICK m \in Nat : k = m + 1
    <3>1. k - 1 \in Nat /\ k = (k - 1) + 1
      BY <2>2
    <3> QED
      BY <3>1
  <2>4. CASE m = 0
    <3>1. k = 1 /\ f[k] = ss[k]
      BY <1>5, <2>2, <2>3, <2>4
    <3> QED
      BY <2>2, <3>1 DEF AllApart
  <2>5. CASE m # 0
    <3>1. m \in 1..n /\ k # 1 /\ k - 1 = m
      BY <2>2, <2>3, <2>5
    <3>2. m \notin bad
      <4>1. ~ k <= m
        BY <2>3
      <4> HIDE DEF bad
      <4> QED
        BY <2>1, <4>1
    <3>3. Apart(f[m], key) /\ Apart(ss[k], key)
      BY <2>2, <3>1, <3>2 DEF AllApart
    <3>4. f[k] = f[m] \o ss[k]
      BY <1>5, <2>2, <3>1
    <3>5. \A a \in Range(f[m]), b \in Range(ss[k]) : key[a] # key[b]
      <4> SUFFICES ASSUME NEW a \in Range(f[m]), NEW b \in Range(ss[k])
                   PROVE  key[a] # key[b]
        OBVIOUS
      <4>1. PICK i \in 1..m : a \in Range(ss[i])
        BY <1>6, <3>1 DEF Holds
      <4>2. i \in 1..n /\ i # k
        BY <2>2, <2>3
      <4> QED
        BY <2>2, <4>1, <4>2 DEF AllApart
    <3>6. Apart(f[k], key)
      <4>1. PICK s, t \in Seq(D) : s = f[m] /\ t = ss[k]
        BY <1>6, <2>2, <3>1
      <4>2. Apart(s \o t, key)
        BY <3>3, <3>5, <4>1, ConcatApart
      <4> QED
        BY <3>4, <4>1, <4>2
    <3> QED
      BY <2>2, <3>6
  <2> QED
    BY <2>4, <2>5
<1>8. n \notin bad /\ n \in 1..n
  BY <1>7
<1> QED
  BY <1>3, <1>8

\* A list without one of its entries
LEMMA WithoutEntry ==
  ASSUME NEW D, NEW s \in Seq(D), NEW x \in 1..Len(s)
  PROVE  /\ RemoveAt(s, x) \in Seq(D)
         /\ Len(RemoveAt(s, x)) = Len(s) - 1
         /\ \A k \in 1..(Len(s) - 1) : RemoveAt(s, x)[k] = IF k < x THEN s[k] ELSE s[k + 1]
<1> DEFINE a == SubSeq(s, 1, x - 1)
           b == SubSeq(s, x + 1, Len(s))
<1>1. PICK n \in Nat : n = Len(s) /\ x \in 1..n
  OBVIOUS
<1>2. a \in Seq(D) /\ Len(a) = x - 1 /\ \A k \in 1..(x - 1) : a[k] = s[k]
  BY <1>1
<1>3. b \in Seq(D) /\ Len(b) = n - x /\ \A k \in 1..(n - x) : b[k] = s[x + k]
  BY <1>1
<1>4. RemoveAt(s, x) = a \o b
  BY DEF RemoveAt
<1> HIDE DEF a, b
<1>5. /\ a \o b \in Seq(D) /\ Len(a \o b) = Len(a) + Len(b)
      /\ \A k \in 1..(Len(a) + Len(b)) :
           (a \o b)[k] = IF k <= Len(a) THEN a[k] ELSE b[k - Len(a)]
  BY <1>2, <1>3, ConcatProperties
<1>6. Len(a) + Len(b) = n - 1
  BY <1>1, <1>2, <1>3
<1>7. \A k \in 1..(n - 1) : (a \o b)[k] = IF k < x THEN s[k] ELSE s[k + 1]
  <2> SUFFICES ASSUME NEW k \in 1..(n - 1) PROVE (a \o b)[k] = IF k < x THEN s[k] ELSE s[k + 1]
    OBVIOUS
  <2>1. (a \o b)[k] = IF k <= x - 1 THEN a[k] ELSE b[k - (x - 1)]
    BY <1>2, <1>5, <1>6
  <2>2. CASE k < x
    BY <1>1, <1>2, <2>1, <2>2
  <2>3. CASE ~ k < x
    <3>1. k - (x - 1) \in 1..(n - x) /\ x + (k - (x - 1)) = k + 1 /\ ~ k <= x - 1
      BY <1>1, <2>3
    <3> QED
      BY <1>3, <2>1, <2>3, <3>1
  <2> QED
    BY <2>2, <2>3
<1> QED
  BY <1>1, <1>4, <1>5, <1>6, <1>7
=============================================================================
