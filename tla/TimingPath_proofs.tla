------------------------- MODULE TimingPath_proofs --------------------------
(***************************************************************************)
(* Proofs about TimingPath, for every matched netlist, every layout and    *)
(* every limit on fanin, fanout and depth.                                 *)
(*                                                                         *)
(* The inductive invariant is IInv: the types of the tables; the vectors,  *)
(* which mirror each other, hold nothing twice and stay within the degrees *)
(* (VectorsInv); the registers listed by bin and the running counts        *)
(* (TablesExact); and what the splitting loop leaves behind it (Passed).   *)
(* The work is in MoveVectors: what moving the drivers or the loads of one *)
(* or two registers to a new one does to every vector.  From it follow the *)
(* degrees (MovedDegrees), that no path is cut (MoveKeeps), and that every *)
(* step is one of module Rewiring (NextRefines), whose theorems then hold  *)
(* of the loops; with them the recursion of topologicalSort reaches every  *)
(* node (OrderDefined) and its depths are those marking compares.          *)
(***************************************************************************)
EXTENDS TimingPath, Common_proofs

\* removeSource and removeSink: the element is gone, the others stay.
LEMMA RemoveOne ==
  ASSUME NEW D, NEW s \in Seq(D), IsInjective(s), NEW e
  PROVE  /\ RemoveFirst(s, e) \in Seq(D)
         /\ IsInjective(RemoveFirst(s, e))
         /\ Range(RemoveFirst(s, e)) = Range(s) \ {e}
         /\ Len(RemoveFirst(s, e)) = IF e \in Range(s) THEN Len(s) - 1 ELSE Len(s)
<1> DEFINE t == RemoveFirst(s, e)
<1>1. CASE e \notin Range(s)
  <2>1. ~ \E i \in 1..Len(s) : s[i] = e
    BY <1>1 DEF Range
  <2>2. t = s
    BY <2>1 DEF RemoveFirst
  <2> QED
    BY <1>1, <2>2
<1>2. CASE e \in Range(s)
  <2>1. PICK k \in 1..Len(s) : s[k] = e
    BY <1>2 DEF Range
  <2>2. {i \in 1..Len(s) : s[i] = e} = {k}
    BY <2>1 DEF IsInjective
  <2>3. SelectInSeq(s, LAMBDA v : v = e) = k
    BY <2>2 DEF SelectInSeq, Min
  <2>4. t = SubSeq(s, 1, k - 1) \o SubSeq(s, k + 1, Len(s))
    BY <2>1, <2>3 DEF RemoveFirst, RemoveAt
  <2>5. /\ t \in Seq(D) /\ Len(t) = Len(s) - 1
        /\ \A i \in 1..(Len(s) - 1) : t[i] = IF i < k THEN s[i] ELSE s[i + 1]
    <3> DEFINE u == SubSeq(s, 1, k - 1)
               v == SubSeq(s, k + 1, Len(s))
    <3>1. /\ u \in Seq(D) /\ Len(u) = k - 1
          /\ \A i \in 1..(k - 1) : u[i] = s[i]
      <4>1. \A i \in 1..(k - 1) : s[i] \in D
        BY <2>1
      <4> QED
        BY <2>1, <4>1, SubSeqProperties
    <3>2. /\ v \in Seq(D) /\ Len(v) = Len(s) - k
          /\ \A i \in 1..(Len(s) - k) : v[i] = s[k + i]
      <4>1. \A i \in (k + 1)..Len(s) : s[i] \in D
        BY <2>1
      <4> QED
        BY <2>1, <4>1, SubSeqProperties
    <3> HIDE DEF u, v, t
    <3>3. t = u \o v
      BY <2>4 DEF u, v
    <3> QED
      <4>1. /\ t \in Seq(D) /\ Len(t) = Len(u) + Len(v)
            /\ \A i \in 1..(Len(s) - 1) :
                 t[i] = IF i <= k - 1 THEN u[i] ELSE v[i - (k - 1)]
        <5>1. Len(u) + Len(v) = Len(s) - 1
          BY <2>1, <3>1, <3>2, LenProperties
        <5>2. \A i \in 1..(Len(u) + Len(v)) :
                t[i] = IF i <= Len(u) THEN u[i] ELSE v[i - Len(u)]
          BY <3>1, <3>2, <3>3, ConcatProperties
        <5>3. t \in Seq(D) /\ Len(t) = Len(u) + Len(v)
          BY <3>1, <3>2, <3>3, ConcatProperties
        <5> QED
          BY <3>1, <5>1, <5>2, <5>3
      <4>2. ASSUME NEW i \in 1..(Len(s) - 1)
            PROVE  t[i] = IF i < k THEN s[i] ELSE s[i + 1]
        <5>1. CASE i < k
          BY <2>1, <3>1, <3>2, <4>1, <5>1
        <5>2. CASE i >= k
          <6>1. t[i] = v[i - (k - 1)] /\ i - (k - 1) \in 1..(Len(s) - k)
            BY <2>1, <3>1, <3>2, <4>1, <5>2
          <6>2. v[i - (k - 1)] = s[k + (i - (k - 1))]
            BY <3>2, <6>1
          <6>3. k + (i - (k - 1)) = i + 1
            BY <2>1
          <6> QED
            BY <2>1, <5>2, <6>1, <6>2, <6>3
        <5> QED
          BY <2>1, <5>1, <5>2
      <4> QED
        BY <2>1, <3>1, <3>2, <4>1, <4>2
  <2> HIDE DEF t
  <2>6. IsInjective(t)
    <3> DEFINE at(i) == IF i < k THEN i ELSE i + 1
    <3>1. \A i \in 1..(Len(s) - 1) : at(i) \in 1..Len(s) /\ t[i] = s[at(i)]
      BY <2>1, <2>5
    <3>2. \A i, j \in 1..(Len(s) - 1) : at(i) = at(j) => i = j
      BY <2>1
    <3>3. DOMAIN t = 1..(Len(s) - 1) /\ DOMAIN s = 1..Len(s)
      BY <2>5
    <3> HIDE DEF at
    <3> QED
      BY <3>1, <3>2, <3>3 DEF IsInjective
  <2>7. Range(t) \subseteq Range(s) \ {e}
    <3> SUFFICES ASSUME NEW i \in 1..(Len(s) - 1) PROVE t[i] \in Range(s) \ {e}
      BY <2>5 DEF Range
    <3>1. CASE i < k
      BY <2>1, <2>5, <3>1, SMTT(30) DEF Range, IsInjective
    <3>2. CASE i >= k
      <4>1. i + 1 \in 1..Len(s) /\ i + 1 # k /\ t[i] = s[i + 1]
        BY <2>1, <2>5, <3>2
      <4> QED
        BY <2>1, <4>1 DEF Range, IsInjective
    <3> QED
      BY <2>1, <3>1, <3>2
  <2>8. Range(s) \ {e} \subseteq Range(t)
    <3> SUFFICES ASSUME NEW i \in 1..Len(s), s[i] # e PROVE s[i] \in Range(t)
      BY DEF Range
    <3>1. CASE i < k
      BY <2>1, <2>5, <3>1 DEF Range
    <3>2. CASE i > k
      <4>1. i - 1 \in 1..(Len(s) - 1) /\ t[i - 1] = s[i]
        BY <2>1, <2>5, <3>2
      <4> QED
        BY <2>5, <4>1 DEF Range
    <3> QED
      BY <2>1, <3>1, <3>2
  <2> QED
    BY <1>2, <2>5, <2>6, <2>7, <2>8 DEF t
<1> QED
  BY <1>1, <1>2

\* Distinct keeps every element, once.
LEMMA DistinctOnce ==
  ASSUME NEW D, NEW s \in Seq(D)
  PROVE  /\ Distinct(s) \in Seq(D)
         /\ IsInjective(Distinct(s))
         /\ Range(Distinct(s)) = Range(s)
         /\ Len(Distinct(s)) <= Len(s)
<1> DEFINE I == {i \in DOMAIN s : \A j \in 1..(i - 1) : s[j] # s[i]}
           a == Ascending(I)
           d == Distinct(s)
<1>1. I \in SUBSET (1..Len(s))
  OBVIOUS
<1>2. IsFiniteSet(I) /\ Cardinality(I) <= Len(s) /\ Cardinality(I) \in Nat
  <2>1. IsFiniteSet(1..Len(s)) /\ Cardinality(1..Len(s)) = Len(s)
    <3>1. PICK n : n = Len(s)
      OBVIOUS
    <3>2. 1 \in Int /\ n \in Int /\ n >= 0
      BY <3>1
    <3>3. IsFiniteSet(1..n) /\ Cardinality(1..n) = IF 1 > n THEN 0 ELSE n - 1 + 1
      BY <3>2, FS_Interval
    <3>4. Cardinality(1..n) = n
      BY <3>2, <3>3
    <3> QED
      BY <3>1, <3>3, <3>4
  <2> HIDE DEF I
  <2> QED
    BY <1>1, <2>1, FS_Subset, FS_CardinalityType
<1>3. I \in SUBSET Nat
  BY <1>1
<1>4. a \in Seq(I) /\ IsInjective(a) /\ Range(a) = I /\ Len(a) = Cardinality(I)
  <2> HIDE DEF I
  <2> QED
    BY <1>2, <1>3, AscendingLists
<1>5. d = [k \in DOMAIN a |-> s[a[k]]]
  BY DEF Distinct
<1> HIDE DEF d, a, I
<1>6. \A k \in DOMAIN a : a[k] \in I /\ a[k] \in DOMAIN s /\ d[k] = s[a[k]]
  <2>1. \A k \in DOMAIN a : a[k] \in Range(a)
    BY DEF Range
  <2> QED
    BY <1>1, <1>4, <1>5, <2>1, LenProperties
<1>7. d \in Seq(D) /\ Len(d) = Len(a) /\ DOMAIN d = DOMAIN a
  <2>1. DOMAIN a = 1..Len(a) /\ Len(a) \in Nat
    BY <1>4
  <2>2. d \in [1..Len(a) -> D]
    BY <1>5, <1>6, <2>1
  <2> QED
    BY <2>1, <2>2
<1>8. \A i, j \in I : s[i] = s[j] => i = j
  <2> SUFFICES ASSUME NEW i \in I, NEW j \in I, i < j PROVE s[i] # s[j]
    BY <1>3
  <2> QED
    BY <1>1, <1>3 DEF I
<1>9. IsInjective(d)
  BY <1>4, <1>6, <1>7, <1>8 DEF IsInjective
<1>10. Range(d) \subseteq Range(s)
  BY <1>6, <1>7 DEF Range
<1>11. Range(s) \subseteq Range(d)
  <2> SUFFICES ASSUME NEW n \in DOMAIN s PROVE s[n] \in Range(d)
    BY DEF Range
  <2> DEFINE Same == {i \in DOMAIN s : s[i] = s[n]}
  <2>1. PICK i \in Same : \A j \in Same : i <= j
    <3>1. Same \subseteq Nat /\ Same # {}
      OBVIOUS
    <3> HIDE DEF Same
    <3> QED
      BY <3>1, NatLeast
  <2>2. i \in I
    BY <2>1 DEF I
  <2>3. PICK k \in DOMAIN a : a[k] = i
    BY <1>4, <2>2 DEF Range
  <2> QED
    BY <1>6, <1>7, <2>1, <2>3 DEF Range
<1> QED
  <2>1. Range(d) = Range(s)
    BY <1>10, <1>11
  <2> QED
    BY <1>2, <1>4, <1>7, <1>9, <2>1 DEF d
-----------------------------------------------------------------------------
\* Two tables of vectors that mirror each other, without repetitions
Paired(near, far) ==
  /\ \A m, n \in Node : n \in Range(far[m]) <=> m \in Range(near[n])
  /\ \A n \in Node : IsInjective(near[n]) /\ IsInjective(far[n])

\* One register, or two, to be replaced
Pick(regs, N) == regs \in Seq(N) /\ Len(regs) \in {1, 2} /\ IsInjective(regs)

\* The neighbours of the registers
Beyond(regs, near) == {m \in Node : \E r \in Range(regs) : m \in Range(near[r])}

\* The registers of a pick
LEMMA PickRange ==
  ASSUME NEW N, NEW regs, Pick(regs, N)
  PROVE  /\ regs[1] \in N /\ regs[Len(regs)] \in N
         /\ Range(regs) = {regs[1], regs[Len(regs)]}
         /\ Len(regs) = 2 => regs[1] # regs[2]
         /\ Range(regs) \subseteq N
<1>1. DOMAIN regs = 1..Len(regs)
  BY DEF Pick
<1>2. CASE Len(regs) = 1
  BY <1>1, <1>2 DEF Pick, Range
<1>3. CASE Len(regs) = 2
  BY <1>1, <1>3 DEF Pick, Range, IsInjective
<1> QED
  BY <1>2, <1>3 DEF Pick

\* The neighbours of the registers are those of the one and those of the other.
LEMMA EndsOfPick ==
  ASSUME NEW N \in SUBSET Node, NEW near \in [Node -> Seq(N)],
         NEW regs, Pick(regs, N)
  PROVE  /\ Ends(regs, near) \in Seq(N)
         /\ Range(Ends(regs, near)) = Beyond(regs, near)
         /\ Len(Ends(regs, near)) = IF Len(regs) = 1 THEN Len(near[regs[1]])
                                    ELSE Len(near[regs[1]]) + Len(near[regs[2]])
<1>1. /\ regs[1] \in N /\ regs[Len(regs)] \in N
      /\ Range(regs) = {regs[1], regs[Len(regs)]}
  BY PickRange
<1>2. \A n \in N : near[n] \in Seq(N) /\ Range(near[n]) \subseteq N
  BY DEF Range
<1>3. CASE Len(regs) = 1
  BY <1>1, <1>2, <1>3 DEF Ends, Beyond
<1>4. CASE Len(regs) = 2
  <2>1. Ends(regs, near) = near[regs[1]] \o near[regs[2]]
    BY <1>4 DEF Ends
  <2>2. Range(Ends(regs, near)) = Range(near[regs[1]]) \cup Range(near[regs[2]])
    BY <1>1, <1>2, <1>4, <2>1, RangeOfConcat
  <2>3. Range(Ends(regs, near)) = Beyond(regs, near)
    BY <1>1, <1>2, <1>4, <2>2 DEF Beyond
  <2> QED
    BY <1>1, <1>2, <1>4, <2>1, <2>3, ConcatProperties
<1> QED
  BY <1>3, <1>4 DEF Pick

\* What becomes of a neighbour's vector s: the new node comes in, the registers
\* go out, and it grows no longer.
Rerouted(s, regs, c, t) ==
  /\ IsInjective(t)
  /\ Range(t) = (Range(s) \cup {c}) \ Range(regs)
  /\ Len(t) <= Len(s)
  /\ Len(regs) = 1 => Len(t) = Len(s)

\* A push and the removals after it reroute the vector.
LEMMA RedirectedVector ==
  ASSUME NEW N \in SUBSET Node, NEW s \in Seq(N), IsInjective(s),
         NEW c \in Node \ N, NEW regs, Pick(regs, N),
         \E r \in Range(regs) : r \in Range(s)
  PROVE  /\ Redirected(s, regs, c) \in Seq(N \cup {c})
         /\ Rerouted(s, regs, c, Redirected(s, regs, c))
<1> DEFINE a == Append(s, c)
           b == RemoveFirst(a, regs[1])
           d == RemoveFirst(b, regs[2])
           t == Redirected(s, regs, c)
           C == N \cup {c}
<1>1. /\ regs[1] \in N /\ Range(regs) = {regs[1], regs[Len(regs)]}
      /\ Len(regs) = 2 => regs[1] # regs[2]
      /\ Range(regs) \subseteq N
  BY PickRange
<1>2. s \in Seq(C) /\ c \in C /\ c \notin Range(s)
  BY DEF Range
<1>3. a \in Seq(C) /\ IsInjective(a) /\ Range(a) = Range(s) \cup {c} /\ Len(a) = Len(s) + 1
  <2> HIDE DEF C
  <2> QED
    BY <1>2, AppendNew
<1>4. /\ b \in Seq(C) /\ IsInjective(b) /\ Range(b) = Range(a) \ {regs[1]}
      /\ Len(b) = IF regs[1] \in Range(a) THEN Len(a) - 1 ELSE Len(a)
  <2> HIDE DEF C, a
  <2> QED
    BY <1>3, RemoveOne
<1>5. Len(s) \in Nat
  OBVIOUS
<1>6. CASE Len(regs) = 1
  <2>1. t = b
    BY <1>6 DEF Redirected
  <2> HIDE DEF a, b, t, C
  <2>2. Range(t) = (Range(s) \cup {c}) \ Range(regs)
    BY <1>1, <1>3, <1>4, <1>6, <2>1
  <2>3. Len(t) = Len(s)
    BY <1>1, <1>3, <1>4, <1>5, <1>6, <2>1
  <2> QED
    BY <1>4, <1>5, <2>1, <2>2, <2>3 DEF t, C, Rerouted
<1>7. CASE Len(regs) = 2
  <2>1. t = d
    BY <1>7 DEF Redirected
  <2>2. /\ d \in Seq(C) /\ IsInjective(d) /\ Range(d) = Range(b) \ {regs[2]}
        /\ Len(d) = IF regs[2] \in Range(b) THEN Len(b) - 1 ELSE Len(b)
    <3> HIDE DEF C, b
    <3> QED
      BY <1>4, RemoveOne
  <2> HIDE DEF a, b, d, t, C
  <2>3. Range(t) = (Range(s) \cup {c}) \ Range(regs)
    BY <1>1, <1>3, <1>4, <1>7, <2>1, <2>2
  <2>4. Len(t) <= Len(s)
    <3>1. regs[1] \in Range(a) \/ regs[2] \in Range(b)
      BY <1>1, <1>3, <1>4, <1>7
    <3> QED
      BY <1>3, <1>4, <1>5, <2>1, <2>2, <3>1
  <2> QED
    BY <1>7, <2>1, <2>2, <2>3, <2>4 DEF t, C, Rerouted
<1> QED
  BY <1>6, <1>7 DEF Pick

\* Who is in the vectors after the registers regs gave their neighbours to c
MovedRanges(near, far, in, out, regs, c) ==
  \A n \in Node :
    /\ Range(in[n]) = IF n = c THEN Beyond(regs, near)
                      ELSE IF n \in Range(regs) THEN {c} ELSE Range(near[n])
    /\ Range(out[n]) = IF n = c THEN Range(regs)
                       ELSE IF n \in Beyond(regs, near)
                       THEN (Range(far[n]) \cup {c}) \ Range(regs)
                       ELSE Range(far[n])

\* How long they are then: no old vector grows, but that of a register towards c.
MovedLengths(near, far, in, out, regs, c) ==
  /\ Len(in[c]) <= Len(Ends(regs, near)) /\ Len(out[c]) = Len(regs)
  /\ \A n \in Node \ {c} :
       /\ Len(in[n]) = IF n \in Range(regs) THEN 1 ELSE Len(near[n])
       /\ Len(out[n]) <= Len(far[n])
       /\ Len(regs) = 1 => Len(out[n]) = Len(far[n])

\* A move leaves the two tables so, and they still mirror each other.  N are the
\* nodes there are, c is the new one.
LEMMA MoveVectors ==
  ASSUME NEW N \in SUBSET Node,
         NEW near \in [Node -> Seq(N)], NEW far \in [Node -> Seq(N)],
         Paired(near, far),
         NEW c \in Node \ N, near[c] = <<>>, far[c] = <<>>,
         NEW regs, Pick(regs, N),
         NEW in, NEW out,
         in = NearSide(near, regs, c), out = FarSide(near, far, regs, c)
  PROVE  /\ in \in [Node -> Seq(N \cup {c})] /\ out \in [Node -> Seq(N \cup {c})]
         /\ MovedRanges(near, far, in, out, regs, c)
         /\ MovedLengths(near, far, in, out, regs, c)
         /\ Paired(in, out)
<1> DEFINE R == Range(regs)
           B == Beyond(regs, near)
           C == N \cup {c}
           ends == Ends(regs, near)
<1>1. /\ R \subseteq N /\ c \notin R /\ R \subseteq Node
      /\ regs \in Seq(C) /\ IsInjective(regs) /\ Len(regs) \in Nat
  BY PickRange DEF Pick
<1>2. ends \in Seq(N) /\ Range(ends) = B /\ Len(ends) \in Nat
  <2>1. ends \in Seq(N) /\ Range(ends) = B
    BY EndsOfPick
  <2> HIDE DEF ends
  <2> QED
    BY <2>1
<1>3. /\ Distinct(ends) \in Seq(N) /\ IsInjective(Distinct(ends))
      /\ Range(Distinct(ends)) = B /\ Len(Distinct(ends)) <= Len(ends)
  BY <1>2, DistinctOnce
<1>4. \A n \in Node : /\ near[n] \in Seq(N) /\ far[n] \in Seq(N)
                      /\ near[n] \in Seq(C) /\ far[n] \in Seq(C)
                      /\ IsInjective(near[n]) /\ IsInjective(far[n])
                      /\ Len(near[n]) \in Nat /\ Len(far[n]) \in Nat
                      /\ Range(near[n]) \subseteq N /\ Range(far[n]) \subseteq N
  BY DEF Paired, Range
<1>5. /\ <<c>> \in Seq(C) /\ Range(<<c>>) = {c} /\ IsInjective(<<c>>) /\ Len(<<c>>) = 1
  BY DEF Range, IsInjective
<1>6. \A m, n \in Node : n \in Range(far[m]) <=> m \in Range(near[n])
  BY DEF Paired
<1>7. B \subseteq N /\ c \notin B
  BY <1>1, <1>4 DEF Beyond
<1>8. \A n \in B : Range(far[n]) \cap R # {}
  BY <1>1, <1>6 DEF Beyond
<1>9. \A n \in Node : in[n] = IF n = c THEN Distinct(ends)
                              ELSE IF n \in R THEN <<c>> ELSE near[n]
  BY DEF NearSide
<1>10. \A n \in Node : out[n] = IF n = c THEN regs
                                ELSE IF n \in B THEN Redirected(far[n], regs, c)
                                ELSE far[n]
  BY <1>2 DEF FarSide
<1>11. ASSUME NEW n \in B
       PROVE  /\ out[n] \in Seq(C) /\ IsInjective(out[n])
              /\ Range(out[n]) = (Range(far[n]) \cup {c}) \ R
              /\ Len(out[n]) <= Len(far[n])
              /\ Len(regs) = 1 => Len(out[n]) = Len(far[n])
  <2>1. n \in Node /\ n # c /\ out[n] = Redirected(far[n], regs, c)
    BY <1>7, <1>10
  <2> HIDE DEF B
  <2>2. Range(far[n]) \cap R # {} /\ far[n] \in Seq(N) /\ IsInjective(far[n])
    BY <1>4, <1>8, <2>1
  <2>3. Pick(regs, N) /\ N \in SUBSET Node /\ c \in Node \ N
    OBVIOUS
  <2> DEFINE s == far[n]
  <2>4. s \in Seq(N) /\ IsInjective(s) /\ \E r \in Range(regs) : r \in Range(s)
    BY <2>2
  <2> HIDE DEF s
  <2>5. /\ Redirected(s, regs, c) \in Seq(N \cup {c})
        /\ Rerouted(s, regs, c, Redirected(s, regs, c))
    BY <2>3, <2>4, RedirectedVector
  <2> QED
    BY <2>1, <2>5 DEF s, Rerouted
<1>12. in = [n \in Node |-> in[n]] /\ out = [n \in Node |-> out[n]]
  BY DEF NearSide, FarSide
<1> HIDE DEF R, B, ends, C
<1>13. \A n \in Node :
         /\ in[n] \in Seq(C) /\ out[n] \in Seq(C)
         /\ IsInjective(in[n]) /\ IsInjective(out[n])
         /\ Range(in[n]) = IF n = c THEN B
                           ELSE IF n \in R THEN {c} ELSE Range(near[n])
         /\ Range(out[n]) = IF n = c THEN R
                            ELSE IF n \in B THEN (Range(far[n]) \cup {c}) \ R
                            ELSE Range(far[n])
  <2> SUFFICES ASSUME NEW n \in Node
               PROVE /\ in[n] \in Seq(C) /\ out[n] \in Seq(C)
                     /\ IsInjective(in[n]) /\ IsInjective(out[n])
                     /\ Range(in[n]) = IF n = c THEN B
                                       ELSE IF n \in R THEN {c} ELSE Range(near[n])
                     /\ Range(out[n]) = IF n = c THEN R
                                        ELSE IF n \in B THEN (Range(far[n]) \cup {c}) \ R
                                        ELSE Range(far[n])
    OBVIOUS
  <2>1. Distinct(ends) \in Seq(C)
    BY <1>3 DEF C
  <2>2. in[n] \in Seq(C) /\ IsInjective(in[n])
    BY <1>3, <1>4, <1>5, <1>9, <2>1
  <2>3. Range(in[n]) = IF n = c THEN B
                       ELSE IF n \in R THEN {c} ELSE Range(near[n])
    BY <1>3, <1>5, <1>9
  <2>4. CASE n \in B
    BY <1>7, <1>11, <2>2, <2>3, <2>4
  <2>5. CASE n \notin B
    <3>1. out[n] = IF n = c THEN regs ELSE far[n]
      BY <1>10, <2>5
    <3>2. Range(out[n]) = IF n = c THEN R
                          ELSE IF n \in B THEN (Range(far[n]) \cup {c}) \ R
                          ELSE Range(far[n])
      BY <2>5, <3>1 DEF R
    <3> QED
      BY <1>1, <1>4, <2>2, <2>3, <3>1, <3>2
  <2> QED
    BY <2>4, <2>5
<1>14. in \in [Node -> Seq(C)] /\ out \in [Node -> Seq(C)]
  BY <1>12, <1>13
<1>15. Len(in[c]) <= Len(ends) /\ Len(out[c]) = Len(regs)
  BY <1>3, <1>9, <1>10
<1>16. \A n \in Node \ {c} :
         /\ Len(in[n]) = IF n \in R THEN 1 ELSE Len(near[n])
         /\ Len(out[n]) <= Len(far[n])
         /\ Len(regs) = 1 => Len(out[n]) = Len(far[n])
  <2> SUFFICES ASSUME NEW n \in Node \ {c}
               PROVE  /\ Len(in[n]) = IF n \in R THEN 1 ELSE Len(near[n])
                      /\ Len(out[n]) <= Len(far[n])
                      /\ Len(regs) = 1 => Len(out[n]) = Len(far[n])
    OBVIOUS
  <2>1. Len(in[n]) = IF n \in R THEN 1 ELSE Len(near[n])
    BY <1>5, <1>9
  <2>2. n \notin B => out[n] = far[n]
    BY <1>10
  <2> QED
    BY <1>4, <1>11, <2>1, <2>2
<1>17. ASSUME NEW m \in Node, NEW n \in Node
       PROVE  n \in Range(out[m]) <=> m \in Range(in[n])
  <2>1. m \in B <=> \E r \in R : m \in Range(near[r])
    BY DEF B, R, Beyond
  <2>2. Range(near[c]) = {} /\ Range(far[c]) = {}
    BY DEF Range
  <2>3. /\ n \in Range(far[m]) <=> m \in Range(near[n])
        /\ \A r \in R : m \in Range(near[r]) <=> r \in Range(far[m])
        /\ c \notin Range(far[m]) /\ c \notin Range(near[n])
    BY <1>1, <1>4, <1>6
  <2>4. /\ Range(in[n]) = IF n = c THEN B
                          ELSE IF n \in R THEN {c} ELSE Range(near[n])
        /\ Range(out[m]) = IF m = c THEN R
                           ELSE IF m \in B THEN (Range(far[m]) \cup {c}) \ R
                           ELSE Range(far[m])
    BY <1>13
  <2>5. CASE m = c
    BY <1>1, <1>7, <2>2, <2>3, <2>4, <2>5
  <2>6. CASE m # c /\ n = c
    BY <1>1, <1>7, <2>3, <2>4, <2>6
  <2>7. CASE m # c /\ n # c
    BY <1>1, <1>7, <2>1, <2>3, <2>4, <2>7
  <2> QED
    BY <2>5, <2>6, <2>7
<1>18. Paired(in, out)
  BY <1>13, <1>17 DEF Paired
<1> QED
  BY <1>13, <1>14, <1>15, <1>16, <1>18
     DEF R, B, ends, C, MovedRanges, MovedLengths
-----------------------------------------------------------------------------
\* Nodes are numbered from 1, and no vector or bin lists one that does not exist.
TypeOK ==
  /\ nodeCnt \in MatchedCnt..MaxNode
  /\ bin \in [Node -> Bins] /\ type \in [Node -> NodeType]
  /\ sources \in [Node -> Seq(nodes)] /\ sinks \in [Node -> Seq(nodes)]
  /\ targets \in [Bins -> SUBSET nodes]
  /\ numComb \in Int /\ numSequ \in Int /\ ratio \in Int \X Int
  /\ edgeLength \in Nat /\ todo \in SUBSET Bins
  /\ cur \in Nat \ {0}
  /\ pc \in {"mark", "front", "back", "split", "done"} \cup Undefined

\* A node that does not exist yet has no neighbours.
Unborn == \A n \in Node \ nodes : sources[n] = <<>> /\ sinks[n] = <<>>

\* The splitting loop leaves behind it only registers that have a master.
Passed ==
  /\ \A n \in nodes : n < cur /\ type[n] = "Sequential" => HasMaster(n)
  /\ pc \notin {"split", "done"} => cur = 1
  /\ pc = "done" => cur > nodeCnt

\* A register has logic above it: where the limits allow no edge there is none.
EdgesAllowed ==
  (\E n \in Node : type[n] = "Sequential") => MaxFanin # 0 /\ MaxFanout # 0

VectorsInv == Unborn /\ Paired(sources, sinks) /\ DegreesInRange /\ EdgesAllowed

IInv == TypeOK /\ VectorsInv /\ TablesExact /\ Passed

\* The nodes are among those there is room for.
LEMMA NodesInNode == TypeOK => nodes \subseteq Node /\ nodeCnt \in Nat
BY SizeAssumption DEF TypeOK, nodes, Node

\* There is a bin for the nodes not created yet.
LEMMA PlaceInBins == 0 \in Bins
<1>1. DimX * DimY >= 1
  BY SizeAssumption
<1> QED
  BY <1>1, SizeAssumption DEF Bins

\* The vectors of the matched netlist
LEMMA MatchedVectors ==
  ASSUME NEW E, E \subseteq (1..MatchedCnt) \X (1..MatchedCnt), NEW S \in SUBSET (1..MatchedCnt)
  PROVE  /\ Ascending(S) \in Seq(1..MatchedCnt)
         /\ IsInjective(Ascending(S))
         /\ Range(Ascending(S)) = S
         /\ Len(Ascending(S)) = Cardinality(S)
<1>1. IsFiniteSet(1..MatchedCnt)
  BY SizeAssumption, FS_Interval
<1>2. IsFiniteSet(S) /\ S \in SUBSET Nat
  <2>1. IsFiniteSet(S)
    BY <1>1, FS_Subset
  <2> QED
    BY <2>1
<1>3. Ascending(S) \in Seq(S)
  BY <1>2, AscendingLists
<1>4. Ascending(S) \in Seq(1..MatchedCnt)
  BY <1>3, SeqMonotonic
<1> QED
  BY <1>2, <1>4, AscendingLists

\* distMatching leaves a netlist of which the invariant holds.
LEMMA InitInv == Init => IInv
<1> SUFFICES ASSUME Init PROVE IInv
  OBVIOUS
<1>1. PICK E \in MatchedEdges :
        /\ sources = [n \in Node |-> Ascending({m \in Node : <<m, n>> \in E})]
        /\ sinks = [n \in Node |-> Ascending({m \in Node : <<n, m>> \in E})]
  BY DEF Init
<1>2. E \subseteq (1..MatchedCnt) \X (1..MatchedCnt)
  BY EdgeAssumption
<1>3. nodes = 1..MatchedCnt /\ 1..MatchedCnt \subseteq Node
  BY SizeAssumption DEF Init, nodes, Node
<1> DEFINE Above(n) == {m \in 1..MatchedCnt : <<m, n>> \in E}
           Beneath(n) == {m \in 1..MatchedCnt : <<n, m>> \in E}
<1>4. \A n \in Node : sources[n] = Ascending(Above(n)) /\ sinks[n] = Ascending(Beneath(n))
  <2>1. \A n : {m \in Node : <<m, n>> \in E} = Above(n)
    BY <1>2, <1>3
  <2>2. \A n : {m \in Node : <<n, m>> \in E} = Beneath(n)
    BY <1>2, <1>3
  <2> HIDE DEF Above, Beneath
  <2> QED
    BY <1>1, <2>1, <2>2
<1>5. \A n \in Node :
        /\ sources[n] \in Seq(nodes) /\ sinks[n] \in Seq(nodes)
        /\ IsInjective(sources[n]) /\ IsInjective(sinks[n])
        /\ Range(sources[n]) = Above(n) /\ Range(sinks[n]) = Beneath(n)
        /\ Len(sources[n]) = Cardinality(Above(n))
        /\ Len(sinks[n]) = Cardinality(Beneath(n))
  <2> SUFFICES ASSUME NEW n \in Node
               PROVE /\ sources[n] \in Seq(nodes) /\ sinks[n] \in Seq(nodes)
                     /\ IsInjective(sources[n]) /\ IsInjective(sinks[n])
                     /\ Range(sources[n]) = Above(n) /\ Range(sinks[n]) = Beneath(n)
                     /\ Len(sources[n]) = Cardinality(Above(n))
                     /\ Len(sinks[n]) = Cardinality(Beneath(n))
    OBVIOUS
  <2>1. Above(n) \in SUBSET (1..MatchedCnt) /\ Beneath(n) \in SUBSET (1..MatchedCnt)
    OBVIOUS
  <2> HIDE DEF Above, Beneath
  <2> QED
    BY <1>2, <1>3, <1>4, <2>1, MatchedVectors
<1>6. TypeOK
  <2>1. sources \in [Node -> Seq(nodes)] /\ sinks \in [Node -> Seq(nodes)]
    BY <1>1, <1>5
  <2>2. bin \in [Node -> Bins] /\ type \in [Node -> NodeType]
    BY SizeAssumption, PlaceInBins DEF Init, Node, NodeType
  <2> QED
    BY <2>1, <2>2, SizeAssumption DEF Init, TypeOK, nodes
<1>7. Unborn
  <2> SUFFICES ASSUME NEW n \in Node \ nodes
               PROVE  sources[n] = <<>> /\ sinks[n] = <<>>
    BY DEF Unborn
  <2>1. Above(n) = {} /\ Beneath(n) = {}
    BY <1>2, <1>3
  <2>2. Len(sources[n]) = 0 /\ Len(sinks[n]) = 0
    <3> HIDE DEF Above, Beneath
    <3> QED
      BY <1>5, <2>1, FS_EmptySet
  <2> QED
    BY <1>5, <2>2
<1>8. Paired(sources, sinks)
  <2>1. \A m, n \in Node : n \in Beneath(m) <=> m \in Above(n)
    BY <1>2
  <2> HIDE DEF Above, Beneath
  <2> QED
    BY <1>5, <2>1 DEF Paired
<1>9. DegreesInRange
  <2>1. \A n \in nodes : /\ Cardinality(Above(n)) <= MaxFanin
                         /\ Cardinality(Beneath(n)) <= MaxFanout
    BY <1>3, EdgeAssumption
  <2>2. pc = "mark"
    BY DEF Init
  <2> HIDE DEF Above, Beneath
  <2> QED
    BY <1>3, <1>5, <2>1, <2>2 DEF DegreesInRange
<1>10. TablesExact /\ Passed
  BY <1>3, SizeAssumption DEF Init, TablesExact, Passed, nodes
<1>11. EdgesAllowed
  BY SizeAssumption DEF Init, EdgesAllowed, Node
<1> QED
  BY <1>6, <1>7, <1>8, <1>9, <1>10, <1>11 DEF IInv, VectorsInv
-----------------------------------------------------------------------------
\* The two moves are the same with the vectors swapped.
Moves(near, far, in, out, regs, c) ==
  /\ in \in [Node -> Seq(nodes \cup {c})] /\ out \in [Node -> Seq(nodes \cup {c})]
  /\ MovedRanges(near, far, in, out, regs, c)
  /\ MovedLengths(near, far, in, out, regs, c)
  /\ Paired(in, out)

\* The number of the new node is free, and so are its vectors.
LEMMA FreshNode ==
  ASSUME TypeOK, Unborn, nodeCnt < MaxNode
  PROVE  /\ nodeCnt + 1 \in Node \ nodes /\ nodes \in SUBSET Node
         /\ 1..(nodeCnt + 1) = nodes \cup {nodeCnt + 1}
         /\ sources[nodeCnt + 1] = <<>> /\ sinks[nodeCnt + 1] = <<>>
<1>1. nodeCnt + 1 \in Node \ nodes /\ nodes \in SUBSET Node
  BY NodesInNode, SizeAssumption DEF Node, nodes
<1>2. 1..(nodeCnt + 1) = nodes \cup {nodeCnt + 1}
  BY NodesInNode DEF nodes
<1> QED
  BY <1>1, <1>2 DEF Unborn

\* addSources and what follows it swap the vectors as MoveVectors says ...
LEMMA FrontMoves ==
  ASSUME TypeOK, VectorsInv, nodeCnt < MaxNode, NEW regs, Pick(regs, nodes),
         MoveInFront(regs, nodeCnt + 1)
  PROVE  Moves(sources, sinks, sources', sinks', regs, nodeCnt + 1)
<1>1. Paired(sources, sinks) /\ Unborn
  BY DEF VectorsInv
<1>2. sources \in [Node -> Seq(nodes)] /\ sinks \in [Node -> Seq(nodes)]
  BY DEF TypeOK
<1>3. sources' = NearSide(sources, regs, nodeCnt + 1)
  BY DEF MoveInFront
<1>4. sinks' = FarSide(sources, sinks, regs, nodeCnt + 1)
  BY DEF MoveInFront
<1>5. /\ nodeCnt + 1 \in Node \ nodes /\ nodes \in SUBSET Node
      /\ sources[nodeCnt + 1] = <<>> /\ sinks[nodeCnt + 1] = <<>>
  BY <1>1, FreshNode
<1> QED
  BY <1>1, <1>2, <1>3, <1>4, <1>5, MoveVectors DEF Moves

\* ... and so do addSinks and what follows it.
LEMMA BehindMoves ==
  ASSUME TypeOK, VectorsInv, nodeCnt < MaxNode, NEW regs, Pick(regs, nodes),
         MoveBehind(regs, nodeCnt + 1)
  PROVE  Moves(sinks, sources, sinks', sources', regs, nodeCnt + 1)
<1>1. Paired(sinks, sources) /\ Unborn
  BY DEF VectorsInv, Paired
<1>2. sources \in [Node -> Seq(nodes)] /\ sinks \in [Node -> Seq(nodes)]
  BY DEF TypeOK
<1>3. sinks' = NearSide(sinks, regs, nodeCnt + 1)
  BY DEF MoveBehind
<1>4. sources' = FarSide(sinks, sources, regs, nodeCnt + 1)
  BY DEF MoveBehind
<1>5. /\ nodeCnt + 1 \in Node \ nodes /\ nodes \in SUBSET Node
      /\ sources[nodeCnt + 1] = <<>> /\ sinks[nodeCnt + 1] = <<>>
  BY <1>1, FreshNode
<1> QED
  BY <1>1, <1>2, <1>3, <1>4, <1>5, MoveVectors DEF Moves

\* The vectors of the nodes N are within the limits, and no other node has any.
Within(near, far, N, lim, olim) ==
  /\ \A n \in N : Len(near[n]) <= lim /\ Len(far[n]) <= olim
  /\ \A n \in Node \ N : near[n] = <<>> /\ far[n] = <<>>

\* A move keeps to the limits if the new register does.
LEMMA MovedDegrees ==
  ASSUME TypeOK, Unborn, nodeCnt < MaxNode, NEW regs, Pick(regs, nodes),
         NEW near \in [Node -> Seq(nodes)], NEW far \in [Node -> Seq(nodes)],
         NEW in, NEW out,
         Moves(near, far, in, out, regs, nodeCnt + 1),
         NEW lim \in Nat \ {0}, NEW olim \in Nat, Len(regs) <= olim,
         Within(near, far, nodes, lim, olim),
         Len(Ends(regs, near)) <= lim
  PROVE  Within(in, out, nodes \cup {nodeCnt + 1}, lim, olim)
<1> DEFINE c == nodeCnt + 1
<1>1. /\ c \in Node \ nodes /\ nodes \in SUBSET Node
  BY FreshNode
<1>2. Range(regs) \subseteq nodes /\ Len(regs) \in {1, 2}
  BY PickRange DEF Pick
<1>3. Ends(regs, near) \in Seq(nodes)
  BY <1>1, EndsOfPick
<1> HIDE DEF c
<1>4. /\ in \in [Node -> Seq(nodes \cup {c})] /\ out \in [Node -> Seq(nodes \cup {c})]
      /\ Len(in[c]) <= Len(Ends(regs, near)) /\ Len(out[c]) = Len(regs)
      /\ \A n \in Node \ {c} :
           /\ Len(in[n]) = IF n \in Range(regs) THEN 1 ELSE Len(near[n])
           /\ Len(out[n]) <= Len(far[n])
  BY DEF Moves, MovedLengths, c
<1>5. \A n \in Node : /\ Len(in[n]) \in Nat /\ Len(out[n]) \in Nat
                      /\ Len(near[n]) \in Nat /\ Len(far[n]) \in Nat
  BY <1>4
<1>6. Len(Ends(regs, near)) \in Nat
  BY <1>3
<1>7. ASSUME NEW n \in nodes \cup {c} PROVE Len(in[n]) <= lim /\ Len(out[n]) <= olim
  <2>1. CASE n = c
    <3>1. Len(in[c]) <= Len(Ends(regs, near)) /\ Len(out[c]) = Len(regs)
      BY <1>4
    <3>2. Len(in[c]) \in Nat
      BY <1>1, <1>5
    <3>3. Len(out[c]) <= olim
      BY <3>1
    <3>4. Len(in[c]) <= lim
      BY <1>6, <3>1, <3>2
    <3> QED
      BY <2>1, <3>3, <3>4
  <2>2. CASE n # c
    <3>1. n \in Node /\ n \in nodes
      BY <1>1, <2>2
    <3>2. Len(in[n]) <= lim
      <4>1. Len(in[n]) = IF n \in Range(regs) THEN 1 ELSE Len(near[n])
        BY <1>4, <2>2, <3>1
      <4>2. Len(near[n]) <= lim
        BY <3>1 DEF Within
      <4> QED
        BY <4>1, <4>2
    <3>3. Len(out[n]) <= olim
      BY <1>4, <1>5, <2>2, <3>1 DEF Within
    <3> QED
      BY <3>2, <3>3
  <2> QED
    BY <2>1, <2>2
<1>8. ASSUME NEW n \in Node \ (nodes \cup {c}) PROVE in[n] = <<>> /\ out[n] = <<>>
  <2>1. near[n] = <<>> /\ far[n] = <<>> /\ n \notin Range(regs) /\ n # c
    BY <1>2 DEF Within
  <2>2. Len(in[n]) = 0 /\ Len(out[n]) = 0
    BY <1>4, <1>5, <2>1
  <2>3. in[n] \in Seq(nodes \cup {c}) /\ out[n] \in Seq(nodes \cup {c})
    BY <1>4
  <2> QED
    BY <2>2, <2>3, EmptySeq
<1> QED
  BY <1>7, <1>8 DEF c, Within

\* One new register, in front or behind: the vectors stay in order.
LEMMA MoveInv ==
  ASSUME TypeOK, VectorsInv, nodeCnt < MaxNode, NEW regs, Pick(regs, nodes),
         nodeCnt' = nodeCnt + 1,
         type[regs[1]] = "Sequential", pc \notin Undefined, pc' = pc,
         \/ /\ MoveInFront(regs, nodeCnt + 1)
            /\ Len(Ends(regs, sources)) <= MaxFanin /\ Len(regs) <= MaxFanout
         \/ /\ MoveBehind(regs, nodeCnt + 1)
            /\ Len(Ends(regs, sinks)) <= MaxFanout /\ Len(regs) <= MaxFanin
  PROVE  /\ sources' \in [Node -> Seq(nodes')] /\ sinks' \in [Node -> Seq(nodes')]
         /\ VectorsInv'
<1>1. nodes' = nodes \cup {nodeCnt + 1} /\ Unborn
  <2>1. Unborn
    BY DEF VectorsInv
  <2> QED
    BY <2>1, FreshNode DEF nodes
<1>2. sources \in [Node -> Seq(nodes)] /\ sinks \in [Node -> Seq(nodes)]
  BY DEF TypeOK
<1>3. /\ MaxFanin \in Nat \ {0} /\ MaxFanout \in Nat \ {0}
      /\ EdgesAllowed'
  <2>1. regs[1] \in Node
    BY <1>1, PickRange, FreshNode
  <2> QED
    BY <2>1, DegreeAssumption DEF VectorsInv, EdgesAllowed
<1>4. CASE /\ MoveInFront(regs, nodeCnt + 1)
           /\ Len(Ends(regs, sources)) <= MaxFanin /\ Len(regs) <= MaxFanout
  <2>1. Moves(sources, sinks, sources', sinks', regs, nodeCnt + 1)
    BY <1>4, FrontMoves
  <2>2. Within(sources, sinks, nodes, MaxFanin, MaxFanout)
    BY DEF VectorsInv, DegreesInRange, Unborn, Within
  <2>3. Within(sources', sinks', nodes', MaxFanin, MaxFanout)
    BY <1>1, <1>2, <1>3, <1>4, <2>1, <2>2, MovedDegrees
  <2>4. sources' \in [Node -> Seq(nodes')] /\ sinks' \in [Node -> Seq(nodes')]
    BY <1>1, <2>1 DEF Moves
  <2>5. Paired(sources', sinks')
    BY <2>1 DEF Moves, Paired
  <2> QED
    BY <1>3, <2>3, <2>4, <2>5 DEF VectorsInv, DegreesInRange, Unborn, Within, Undefined
<1>5. CASE /\ MoveBehind(regs, nodeCnt + 1)
           /\ Len(Ends(regs, sinks)) <= MaxFanout /\ Len(regs) <= MaxFanin
  <2>1. Moves(sinks, sources, sinks', sources', regs, nodeCnt + 1)
    BY <1>5, BehindMoves
  <2>2. Within(sinks, sources, nodes, MaxFanout, MaxFanin)
    BY DEF VectorsInv, DegreesInRange, Unborn, Within
  <2>3. Within(sinks', sources', nodes', MaxFanout, MaxFanin)
    BY <1>1, <1>2, <1>3, <1>5, <2>1, <2>2, MovedDegrees
  <2>4. sources' \in [Node -> Seq(nodes')] /\ sinks' \in [Node -> Seq(nodes')]
    BY <1>1, <2>1 DEF Moves
  <2>5. Paired(sources', sinks')
    BY <2>1 DEF Moves, Paired
  <2> QED
    BY <1>3, <2>3, <2>4, <2>5 DEF VectorsInv, DegreesInRange, Unborn, Within, Undefined
<1> QED
  BY <1>4, <1>5
-----------------------------------------------------------------------------
\* The nodes of a type can be counted.
LEMMA FiniteTypes ==
  ASSUME TypeOK, NEW t
  PROVE  IsFiniteSet(OfType(t)) /\ Cardinality(OfType(t)) \in Nat
<1>1. OfType(t) \in SUBSET nodes /\ IsFiniteSet(nodes)
  BY NodesInNode, FS_Interval DEF OfType, nodes
<1> QED
  BY <1>1, FS_Subset, FS_CardinalityType

\* The registers a merging loop takes are two of the netlist's, and fit.
LEMMA PairPicked ==
  ASSUME TypeOK, TablesExact, pc \in {"front", "back"}, NEW id \in Bins,
         NEW regs \in Pairs(id)
  PROVE  /\ Pick(regs, nodes) /\ Len(regs) = 2
         /\ \A r \in Range(regs) : type[r] = "Sequential"
         /\ IF pc = "front" THEN FitsInFront(regs[1], regs[2])
            ELSE Len(sinks[regs[1]]) + Len(sinks[regs[2]]) < MaxFanout
<1> DEFINE C == Candidates(id)
<1>1. C \subseteq OfType("Sequential")
  BY DEF Candidates, TablesExact
<1>2. IsFiniteSet(C) /\ Cardinality(C) \in Nat
  BY <1>1, FiniteTypes, FS_Subset, FS_CardinalityType
<1> HIDE DEF C
<1>3. ASSUME NEW s \in SetToSeqs(C), NEW i \in 1..(Len(s) - 1), regs = <<s[i], s[i + 1]>>
      PROVE  /\ Pick(regs, nodes) /\ Len(regs) = 2
             /\ \A r \in Range(regs) : type[r] = "Sequential"
  <2>1. /\ s \in [1..Cardinality(C) -> C] /\ Len(s) = Cardinality(C)
        /\ \A j, k \in 1..Cardinality(C) : j # k => s[j] # s[k]
    BY <1>2 DEF SetToSeqs
  <2>2. i \in 1..Cardinality(C) /\ i + 1 \in 1..Cardinality(C) /\ i # i + 1
    BY <1>2, <2>1
  <2>3. s[i] \in C /\ s[i + 1] \in C /\ s[i] # s[i + 1]
    BY <2>1, <2>2
  <2>4. regs \in Seq(nodes) /\ Len(regs) = 2 /\ regs[1] = s[i] /\ regs[2] = s[i + 1]
    BY <1>1, <1>3, <2>3 DEF OfType
  <2>5. Range(regs) = {s[i], s[i + 1]} /\ IsInjective(regs)
    BY <1>3, <2>3 DEF Range, IsInjective
  <2> QED
    BY <1>1, <2>3, <2>4, <2>5 DEF Pick, OfType
<1>4. CASE pc = "front"
  <2>1. PICK s \in Sorted(C, sources) :
          regs \in LET fit == {i \in 1..(Len(s) - 1) : FitsInFront(s[i], s[i + 1])}
                   IN  {<<s[i], s[i + 1]>> : i \in {j \in fit : \A k \in fit : j <= k}}
    BY <1>4 DEF Pairs, FrontPairs, C
  <2>2. PICK i \in 1..(Len(s) - 1) : FitsInFront(s[i], s[i + 1]) /\ regs = <<s[i], s[i + 1]>>
    BY <2>1
  <2>3. s \in SetToSeqs(C)
    BY DEF Sorted
  <2> QED
    BY <1>3, <1>4, <2>2, <2>3
<1>5. CASE pc = "back"
  <2>1. PICK s \in Sorted(C, sinks) :
          /\ Len(s) > 1 /\ Len(sinks[s[1]]) + Len(sinks[s[2]]) < MaxFanout
          /\ regs = <<s[1], s[2]>>
    BY <1>5 DEF Pairs, BackPairs, C
  <2>2. s \in SetToSeqs(C)
    BY DEF Sorted
  <2>3. Len(s) \in Nat
    BY <1>2, <2>2 DEF SetToSeqs
  <2>4. 1 \in 1..(Len(s) - 1) /\ regs = <<s[1], s[1 + 1]>>
    BY <2>1, <2>3
  <2>5. Pick(regs, nodes) /\ Len(regs) = 2 /\ \A r \in Range(regs) : type[r] = "Sequential"
    BY <1>3, <2>2, <2>4
  <2> QED
    BY <1>5, <2>1, <2>5
<1> QED
  BY <1>4, <1>5

\* The new register is in the bin of the first old one; those become logic.
LEMMA Retyped ==
  ASSUME TypeOK, Unborn, nodeCnt < MaxNode, NEW regs, Pick(regs, nodes), NewRegister(regs),
         \A r \in Range(regs) : type[r] = "Sequential"
  PROVE  /\ nodeCnt' \in MatchedCnt..MaxNode /\ nodes' = nodes \cup {nodeCnt + 1}
         /\ bin' \in [Node -> Bins] /\ type' \in [Node -> NodeType]
         /\ \A n \in nodes : bin'[n] = bin[n]
         /\ bin'[nodeCnt + 1] = bin[regs[1]]
         /\ \A n \in Node : type'[n] = IF n = nodeCnt + 1 THEN "Sequential"
                                       ELSE IF n \in Range(regs) THEN "Combinational"
                                       ELSE type[n]
         /\ OfType("Sequential")' = (OfType("Sequential") \ Range(regs)) \cup {nodeCnt + 1}
         /\ OfType("Combinational")' = OfType("Combinational") \cup Range(regs)
<1>1. /\ nodeCnt + 1 \in Node \ nodes /\ nodes \in SUBSET Node
      /\ 1..(nodeCnt + 1) = nodes \cup {nodeCnt + 1}
  BY FreshNode
<1>2. nodeCnt' = nodeCnt + 1 /\ nodeCnt \in Nat
  BY NodesInNode DEF NewRegister
<1>3. nodes' = nodes \cup {nodeCnt + 1}
  BY <1>1, <1>2 DEF nodes
<1>4. nodeCnt' \in MatchedCnt..MaxNode
  BY <1>2, SizeAssumption DEF TypeOK
<1>5. /\ Range(regs) \subseteq nodes /\ regs[1] \in nodes
  BY PickRange
<1>6. \A n \in Node : type'[n] = IF n = nodeCnt + 1 THEN "Sequential"
                                 ELSE IF n \in Range(regs) THEN "Combinational"
                                 ELSE type[n]
  BY DEF NewRegister
<1>7. type' \in [Node -> NodeType] /\ type \in [Node -> NodeType]
  BY DEF NewRegister, TypeOK, NodeType
<1>8. /\ bin' \in [Node -> Bins] /\ \A n \in nodes : bin'[n] = bin[n]
      /\ bin'[nodeCnt + 1] = bin[regs[1]]
  BY <1>1, <1>5 DEF NewRegister, TypeOK
<1>9. OfType("Sequential")' = (OfType("Sequential") \ Range(regs)) \cup {nodeCnt + 1}
  BY <1>1, <1>3, <1>5, <1>6 DEF OfType
<1>10. OfType("Combinational")' = OfType("Combinational") \cup Range(regs)
  BY <1>1, <1>3, <1>5, <1>6 DEF OfType
<1> QED
  BY <1>3, <1>4, <1>6, <1>7, <1>8, <1>9, <1>10

\* The lists and counts kept by hand follow one merge.
LEMMA MergeTables ==
  ASSUME TypeOK, Unborn, TablesExact, pc \in {"front", "back"},
         nodeCnt < MaxNode, NEW regs, Pick(regs, nodes), Len(regs) = 2,
         \A r \in Range(regs) : type[r] = "Sequential",
         NewRegister(regs), targets' = TargetsAfter(regs),
         numComb' = numComb + 2, numSequ' = numSequ - 1
  PROVE  targets' \in [Bins -> SUBSET nodes'] /\ TablesExact'
<1> DEFINE R == Range(regs)
           c == nodeCnt + 1
           seq == OfType("Sequential")
           comb == OfType("Combinational")
<1>1. /\ nodes' = nodes \cup {c} /\ c \notin nodes
      /\ \A n \in nodes : bin'[n] = bin[n]
      /\ bin'[c] = bin[regs[1]]
      /\ OfType("Sequential")' = (seq \ R) \cup {c}
      /\ OfType("Combinational")' = comb \cup R
  BY Retyped, FreshNode
<1>2. /\ R = {regs[1], regs[2]} /\ regs[1] # regs[2]
      /\ R \subseteq seq /\ R \cap comb = {} /\ R \subseteq nodes
  BY PickRange DEF OfType
<1>3. seq \subseteq nodes /\ comb \subseteq nodes
  BY DEF OfType
<1>4. IsFiniteSet(seq) /\ IsFiniteSet(comb)
  BY FiniteTypes
<1>5. /\ \A b \in Bins : targets[b] = {n \in seq : bin[n] = b}
      /\ numComb = Cardinality(comb) /\ numSequ = Cardinality(seq)
  BY DEF TablesExact
<1>6. \A b \in Bins : targets'[b] = (targets[b] \ R) \cup IF b = bin[regs[1]] THEN {c} ELSE {}
  BY DEF TargetsAfter
<1>7. targets' = [b \in Bins |-> targets'[b]]
  BY DEF TargetsAfter
<1> HIDE DEF c, seq, comb, R
<1>8. \A b \in Bins : targets'[b] = {n \in OfType("Sequential")' : bin'[n] = b}
  <2> SUFFICES ASSUME NEW b \in Bins
               PROVE  targets'[b] = {n \in OfType("Sequential")' : bin'[n] = b}
    OBVIOUS
  <2>1. targets'[b] = ({n \in seq : bin[n] = b} \ R) \cup IF b = bin[regs[1]] THEN {c} ELSE {}
    BY <1>5, <1>6
  <2>2. \A n \in seq : bin'[n] = bin[n]
    BY <1>1, <1>3
  <2> QED
    BY <1>1, <2>1, <2>2
<1>9. \A b \in Bins : targets'[b] \in SUBSET nodes'
  BY <1>1, <1>3, <1>8
<1>10. targets' \in [Bins -> SUBSET nodes']
  BY <1>7, <1>9
<1>11. Cardinality(comb \cup R) = Cardinality(comb) + 2
  <2>1. comb \cup R = (comb \cup {regs[1]}) \cup {regs[2]}
    BY <1>2
  <2>2. /\ IsFiniteSet(comb \cup {regs[1]})
        /\ Cardinality(comb \cup {regs[1]}) = Cardinality(comb) + 1
    BY <1>2, <1>4, FS_AddElement
  <2>3. Cardinality((comb \cup {regs[1]}) \cup {regs[2]}) = Cardinality(comb \cup {regs[1]}) + 1
    BY <1>2, <2>2, FS_AddElement
  <2>4. Cardinality(comb) \in Nat
    BY <1>4, FS_CardinalityType
  <2>5. Cardinality(comb \cup R) = Cardinality(comb \cup {regs[1]}) + 1
    BY <2>1, <2>3
  <2> QED
    BY <2>2, <2>4, <2>5
<1>12. Cardinality((seq \ R) \cup {c}) = Cardinality(seq) - 1
  <2>1. seq \ R = (seq \ {regs[1]}) \ {regs[2]}
    BY <1>2
  <2>2. /\ IsFiniteSet(seq \ {regs[1]})
        /\ Cardinality(seq \ {regs[1]}) = Cardinality(seq) - 1
    BY <1>2, <1>4, FS_RemoveElement
  <2>3. /\ IsFiniteSet(seq \ R)
        /\ Cardinality(seq \ R) = Cardinality(seq \ {regs[1]}) - 1
    <3>1. regs[2] \in seq \ {regs[1]}
      BY <1>2
    <3>2. /\ IsFiniteSet((seq \ {regs[1]}) \ {regs[2]})
          /\ Cardinality((seq \ {regs[1]}) \ {regs[2]}) = Cardinality(seq \ {regs[1]}) - 1
      BY <2>2, <3>1, FS_RemoveElement
    <3> QED
      BY <2>1, <3>2
  <2>4. Cardinality((seq \ R) \cup {c}) = Cardinality(seq \ R) + 1
    BY <1>1, <1>3, <2>3, FS_AddElement
  <2>5. Cardinality(seq) \in Nat
    BY <1>4, FS_CardinalityType
  <2> QED
    BY <2>2, <2>3, <2>4, <2>5
<1>13. /\ numComb' = Cardinality(OfType("Combinational")')
       /\ numSequ' = Cardinality(OfType("Sequential")')
  BY <1>1, <1>5, <1>11, <1>12
<1>14. TablesExact'
  BY <1>8, <1>13 DEF TablesExact
<1> QED
  BY <1>10, <1>14
-----------------------------------------------------------------------------
\* The largest of a set of numbers
Top(A) == CHOOSE d \in A : \A e \in A : e <= d

\* One turn of the recursion of `order': the depth of n when that of its drivers
\* is f
Depth(n, f) ==
  IF type[n] \in {"Sequential", "PrimaryIn"} \/ sources[n] = <<>> THEN 0
  ELSE 1 + Top({f[m] : m \in Range(sources[n])})

\* How TLA+ defines the recursive function `order'
LEMMA OrderChosen == order = CHOOSE f : f = [n \in nodes |-> Depth(n, f)]
BY DEF order, Depth, Top

\* Without an edge all nodes are at the top and none is too deep.
LEMMA NoneTooDeep ==
  ASSUME TypeOK, VectorsInv, MaxFanin = 0 \/ MaxFanout = 0
  PROVE  TooDeep = {}
<1>1. ASSUME NEW n \in nodes PROVE sources[n] = <<>>
  <2>1. sources[n] \in Seq(nodes) /\ nodes \subseteq Node
    BY NodesInNode DEF TypeOK
  <2> SUFFICES ASSUME sources[n] # <<>> PROVE FALSE
    OBVIOUS
  <2>2. Len(sources[n]) \in Nat \ {0} /\ Len(sources[n]) <= MaxFanin
    BY <2>1, EmptySeq DEF VectorsInv, DegreesInRange
  <2>3. PICK m \in nodes : m = sources[n][1] /\ m \in Range(sources[n])
    <3>1. 1 \in 1..Len(sources[n])
      BY <2>2
    <3>2. sources[n][1] \in nodes
      BY <2>1, <3>1, ElementOf
    <3> QED
      BY <2>1, <3>1, <3>2 DEF Range
  <2>4. n \in Range(sinks[m])
    BY <2>1, <2>3 DEF VectorsInv, Paired
  <2>5. sinks[m] \in Seq(nodes) /\ Len(sinks[m]) <= MaxFanout
    BY <2>1 DEF TypeOK, VectorsInv, DegreesInRange
  <2>6. Len(sinks[m]) \in Nat \ {0}
    BY <2>4, <2>5 DEF Range
  <2> QED
    BY <2>2, <2>5, <2>6, DegreeAssumption
<1>2. [n \in nodes |-> 0] = [n \in nodes |-> Depth(n, [k \in nodes |-> 0])]
  BY <1>1 DEF Depth
<1>3. \E f : f = [n \in nodes |-> Depth(n, f)]
  BY <1>2
<1>4. order = [n \in nodes |-> Depth(n, order)]
  BY <1>3, OrderChosen
<1>5. \A n \in nodes : order[n] = 0
  BY <1>1, <1>4 DEF Depth
<1>6. targetMaxOrder # 0
  BY DegreeAssumption DEF targetMaxOrder
<1> QED
  BY <1>5, <1>6 DEF TooDeep, OfType

\* Marking changes types only.
LEMMA MarkPassInv ==
  ASSUME IInv, MarkPass
  PROVE  IInv'
<1>1. /\ nodeCnt' = nodeCnt /\ bin' = bin /\ sources' = sources /\ sinks' = sinks
      /\ targets' = targets /\ numComb' = numComb /\ numSequ' = numSequ
      /\ ratio' = ratio /\ edgeLength' = edgeLength /\ todo' = todo
      /\ cur' = cur /\ pc' = pc /\ pc = "mark"
  BY DEF MarkPass, merging
<1>2. type' \in [Node -> NodeType]
  BY DEF MarkPass, IInv, TypeOK, NodeType
<1>3. nodes' = nodes
  BY <1>1 DEF nodes
<1>4. TypeOK'
  BY <1>1, <1>2, <1>3 DEF IInv, TypeOK
<1>5. VectorsInv'
  <2>1. MaxFanin # 0 /\ MaxFanout # 0
    BY NoneTooDeep DEF IInv, MarkPass
  <2> QED
    BY <1>1, <1>3, <2>1
       DEF IInv, VectorsInv, Unborn, Paired, DegreesInRange, EdgesAllowed
<1>6. TablesExact' /\ Passed'
  BY <1>1, <1>3, NodesInNode DEF IInv, TablesExact, Passed, nodes
<1> QED
  BY <1>4, <1>5, <1>6 DEF IInv

\* The tables are built from the types.
LEMMA EndMarkingInv ==
  ASSUME IInv, EndMarking
  PROVE  IInv'
<1>1. /\ nodeCnt' = nodeCnt /\ bin' = bin /\ sources' = sources /\ sinks' = sinks
      /\ type' = type /\ cur' = cur /\ pc = "mark" /\ pc' = "front"
      /\ edgeLength' = 0 /\ todo' = Bins
      /\ targets' = [b \in Bins |-> {n \in OfType("Sequential") : bin[n] = b}]
      /\ numComb' = Cardinality(OfType("Combinational"))
      /\ numSequ' = Cardinality(OfType("Sequential"))
      /\ ratio' = <<numComb', numComb' + numSequ'>>
  BY DEF EndMarking, netlist
<1>2. nodes' = nodes /\ \A t : OfType(t)' = OfType(t)
  BY <1>1 DEF nodes, OfType
<1>3. numComb' \in Nat /\ numSequ' \in Nat
  BY <1>1, FiniteTypes DEF IInv
<1>4. targets' \in [Bins -> SUBSET nodes]
  BY <1>1 DEF OfType
<1>5. TypeOK'
  BY <1>1, <1>2, <1>3, <1>4 DEF IInv, TypeOK
<1>6. VectorsInv'
  BY <1>1, <1>2 DEF IInv, VectorsInv, Unborn, Paired, DegreesInRange, EdgesAllowed
<1>7. TablesExact'
  BY <1>1, <1>2 DEF TablesExact
<1>8. Passed'
  BY <1>1, <1>2, NodesInNode DEF IInv, Passed, nodes
<1> QED
  BY <1>5, <1>6, <1>7, <1>8 DEF IInv

\* As many neighbours change hands as the two registers have.
LEMMA TwoEnds ==
  ASSUME NEW N \in SUBSET Node, NEW near \in [Node -> Seq(N)],
         NEW regs, Pick(regs, N), Len(regs) = 2
  PROVE  Len(Ends(regs, near)) = Len(near[regs[1]]) + Len(near[regs[2]])
<1>1. near[regs[1]] \in Seq(N) /\ near[regs[2]] \in Seq(N)
  BY PickRange
<1>2. Ends(regs, near) = near[regs[1]] \o near[regs[2]]
  BY DEF Ends
<1> QED
  BY <1>1, <1>2, ConcatProperties

\* A merge in either loop
LEMMA MergeInv ==
  ASSUME IInv, NEW id \in Bins, pc \in {"front", "back"},
         NEW regs \in Pairs(id), Merge(regs), todo' = todo \ {id}, UNCHANGED <<edgeLength, cur, pc>>
  PROVE  IInv'
<1>1. TypeOK /\ VectorsInv /\ Unborn /\ TablesExact /\ Passed
  BY DEF IInv, VectorsInv
<1>2. /\ Pick(regs, nodes) /\ Len(regs) = 2
      /\ \A r \in Range(regs) : type[r] = "Sequential"
      /\ IF pc = "front" THEN FitsInFront(regs[1], regs[2])
         ELSE Len(sinks[regs[1]]) + Len(sinks[regs[2]]) < MaxFanout
  BY <1>1, PairPicked
<1>3. /\ nodeCnt < MaxNode /\ NewRegister(regs) /\ nodeCnt' = nodeCnt + 1
      /\ Len(regs) <= (IF pc = "front" THEN MaxFanout ELSE MaxFanin)
      /\ IF pc = "front" THEN MoveInFront(regs, nodeCnt + 1)
                         ELSE MoveBehind(regs, nodeCnt + 1)
      /\ targets' = TargetsAfter(regs)
      /\ numComb' = numComb + 2 /\ numSequ' = numSequ - 1
      /\ ratio' = <<numComb' + numSequ', numComb' + 2 * numSequ'>>
  BY DEF Merge, NewRegister, Indexable
<1>4. /\ nodeCnt' \in MatchedCnt..MaxNode
      /\ bin' \in [Node -> Bins] /\ type' \in [Node -> NodeType]
  BY <1>1, <1>2, <1>3, Retyped
<1>5. targets' \in [Bins -> SUBSET nodes'] /\ TablesExact'
  BY <1>1, <1>2, <1>3, MergeTables
<1>6. /\ sources' \in [Node -> Seq(nodes')] /\ sinks' \in [Node -> Seq(nodes')]
      /\ VectorsInv'
  <2>1. /\ sources \in [Node -> Seq(nodes)] /\ sinks \in [Node -> Seq(nodes)]
        /\ nodes \in SUBSET Node
    BY <1>1, NodesInNode DEF TypeOK
  <2>2. /\ regs[1] \in Node /\ regs[2] \in Node /\ type[regs[1]] = "Sequential"
        /\ pc \notin Undefined /\ pc' = pc
    <3>1. regs[1] \in Range(regs) /\ regs[1] \in nodes /\ regs[2] \in nodes
      BY <1>2, PickRange
    <3>2. pc \notin Undefined
      BY DEF Undefined
    <3> QED
      BY <1>2, <2>1, <3>1, <3>2
  <2>3. CASE pc = "front"
    <3>1. Len(Ends(regs, sources)) <= MaxFanin
      <4> DEFINE fit == Len(sources[regs[1]]) + Len(sources[regs[2]])
      <4>1. fit <= MaxFanin
        BY <1>2, <2>3 DEF FitsInFront
      <4>2. Len(Ends(regs, sources)) = fit
        BY <1>2, <2>1, <2>2, TwoEnds
      <4> HIDE DEF fit
      <4> QED
        BY <4>1, <4>2
    <3> QED
      BY <1>1, <1>2, <1>3, <2>2, <2>3, <3>1, MoveInv
  <2>4. CASE pc = "back"
    <3>1. Len(Ends(regs, sinks)) <= MaxFanout
      <4> DEFINE fit == Len(sinks[regs[1]]) + Len(sinks[regs[2]])
      <4>1. fit < MaxFanout /\ MaxFanout \in Nat /\ fit \in Nat
        BY <1>2, <2>1, <2>2, <2>4, DegreeAssumption
      <4>2. Len(Ends(regs, sinks)) = fit
        BY <1>2, <2>1, <2>2, TwoEnds
      <4> HIDE DEF fit
      <4> QED
        BY <4>1, <4>2
    <3> QED
      BY <1>1, <1>2, <1>3, <2>2, <2>4, <3>1, MoveInv
  <2> QED
    BY <2>3, <2>4
<1>7. TypeOK'
  BY <1>1, <1>3, <1>4, <1>5, <1>6 DEF TypeOK
<1>8. Passed'
  <2>1. cur' = 1 /\ pc' = pc
    BY <1>1 DEF Passed
  <2> QED
    BY <1>4, <2>1, SizeAssumption DEF Passed, nodes
<1> QED
  BY <1>5, <1>6, <1>7, <1>8 DEF IInv

\* The loops that merge, where they merge nothing, move only their counters.
LEMMA IdleInv ==
  ASSUME IInv,
         UNCHANGED <<netlist, targets, numComb, numSequ, ratio, cur>>,
         edgeLength' \in Nat, todo' \in SUBSET Bins,
         pc \in {"front", "back"}, pc' \in {"front", "back", "split"}
  PROVE  IInv'
<1>1. /\ nodeCnt' = nodeCnt /\ bin' = bin /\ sources' = sources /\ sinks' = sinks
      /\ type' = type /\ cur' = cur /\ targets' = targets
      /\ numComb' = numComb /\ numSequ' = numSequ /\ ratio' = ratio
  BY DEF netlist
<1>2. nodes' = nodes /\ \A t : OfType(t)' = OfType(t)
  BY <1>1 DEF nodes, OfType
<1>3. TypeOK'
  BY <1>1, <1>2 DEF IInv, TypeOK
<1>4. VectorsInv'
  BY <1>1, <1>2 DEF IInv, VectorsInv, Unborn, Paired, DegreesInRange, EdgesAllowed
<1>5. TablesExact'
  BY <1>1, <1>2 DEF IInv, TablesExact
<1>6. Passed'
  <2>1. cur = 1
    BY DEF IInv, Passed
  <2> QED
    BY <1>1, <1>2, <2>1, NodesInNode DEF IInv, Passed, nodes
<1> QED
  BY <1>3, <1>4, <1>5, <1>6 DEF IInv

\* One bin of a merging loop
LEMMA VisitBinInv ==
  ASSUME IInv, NEW id \in Bins, VisitBin(id)
  PROVE  IInv'
<1>1. /\ pc \in {"front", "back"} /\ todo' = todo \ {id}
      /\ \/ \E regs \in Pairs(id) : Merge(regs)
         \/ UNCHANGED <<netlist, targets, numComb, numSequ, ratio>>
      /\ UNCHANGED <<edgeLength, cur, pc>>
  BY DEF VisitBin
<1>2. CASE \E regs \in Pairs(id) : Merge(regs)
  BY <1>1, <1>2, MergeInv
<1>3. CASE UNCHANGED <<netlist, targets, numComb, numSequ, ratio>>
  <2>1. edgeLength' \in Nat /\ todo' \in SUBSET Bins
    BY <1>1 DEF IInv, TypeOK
  <2> QED
    BY <1>1, <1>3, <2>1, IdleInv
<1> QED
  BY <1>1, <1>2, <1>3

\* A merge past the tables, which only a limit of 1 allows
LEMMA OverrunInv ==
  ASSUME IInv, NEW id \in Bins, Overrun(id)
  PROVE  IInv'
<1>1. /\ nodeCnt' = nodeCnt /\ bin' = bin /\ sources' = sources /\ sinks' = sinks
      /\ type' = type /\ cur' = cur /\ targets' = targets
      /\ numComb' = numComb /\ numSequ' = numSequ /\ ratio' = ratio
      /\ edgeLength' = edgeLength /\ todo' = todo /\ pc \in {"front", "back"}
      /\ pc' = IF pc = "front" THEN "frontUndefined" ELSE "backUndefined"
  BY DEF Overrun, netlist, merging
<1>2. nodes' = nodes
  BY <1>1 DEF nodes
<1>3. PICK regs \in Pairs(id) : ~ Indexable(regs)
  BY DEF Overrun
<1>4. /\ TypeOK /\ VectorsInv /\ TablesExact /\ Passed
      /\ nodes \in SUBSET Node
      /\ sources \in [Node -> Seq(nodes)] /\ sinks \in [Node -> Seq(nodes)]
  BY NodesInNode DEF IInv, TypeOK
<1>5. /\ Pick(regs, nodes) /\ Len(regs) = 2
      /\ IF pc = "front" THEN FitsInFront(regs[1], regs[2])
         ELSE Len(sinks[regs[1]]) + Len(sinks[regs[2]]) < MaxFanout
  BY <1>1, <1>3, <1>4, PairPicked
<1>6. /\ pc = "front" => MaxFanout < 2
      /\ pc = "back" => MaxFanin < 2
  <2>1. ASSUME NEW near \in [Node -> Seq(nodes)]
        PROVE  /\ Len(Ends(regs, near)) = Len(near[regs[1]]) + Len(near[regs[2]])
               /\ Len(Distinct(Ends(regs, near))) <= Len(Ends(regs, near))
               /\ Len(Distinct(Ends(regs, near))) \in Nat /\ Len(Ends(regs, near)) \in Nat
    <3>1. Ends(regs, near) \in Seq(nodes)
      BY <1>4, <1>5, EndsOfPick
    <3>2. Len(Ends(regs, near)) = Len(near[regs[1]]) + Len(near[regs[2]])
      BY <1>4, <1>5, TwoEnds
    <3>3. PICK s \in Seq(nodes) : s = Ends(regs, near)
      BY <3>1
    <3>4. /\ Len(Distinct(s)) <= Len(s) /\ Distinct(s) \in Seq(nodes)
          /\ Len(Distinct(s)) \in Nat /\ Len(s) \in Nat
      BY DistinctOnce
    <3> QED
      BY <3>2, <3>3, <3>4
  <2>2. CASE pc = "front"
    <3>1. /\ Len(Distinct(Ends(regs, sources))) <= Len(Ends(regs, sources))
          /\ Len(Ends(regs, sources)) <= MaxFanin
          /\ Len(Distinct(Ends(regs, sources))) \in Nat /\ Len(Ends(regs, sources)) \in Nat
      BY <1>4, <1>5, <2>1, <2>2 DEF FitsInFront
    <3>2. Len(Distinct(Ends(regs, sources))) <= MaxFanin
      BY <3>1, DegreeAssumption
    <3>3. ~ (2 <= MaxFanout)
      BY <1>3, <1>5, <2>2, <3>2 DEF Indexable
    <3> QED
      BY <2>2, <3>3, DegreeAssumption
  <2>3. CASE pc = "back"
    <3>1. /\ Len(Distinct(Ends(regs, sinks))) <= Len(Ends(regs, sinks))
          /\ Len(Ends(regs, sinks)) < MaxFanout
          /\ Len(Distinct(Ends(regs, sinks))) \in Nat /\ Len(Ends(regs, sinks)) \in Nat
      BY <1>4, <1>5, <2>1, <2>3
    <3>2. Len(Distinct(Ends(regs, sinks))) <= MaxFanout
      BY <3>1, DegreeAssumption
    <3>3. ~ (2 <= MaxFanin)
      BY <1>3, <1>5, <2>3, <3>2 DEF Indexable
    <3> QED
      BY <2>3, <3>3, DegreeAssumption
  <2> QED
    BY <1>1, <2>2, <2>3
<1>7. DegreesInRange'
  BY <1>1, <1>2, <1>4, <1>6 DEF VectorsInv, DegreesInRange
<1>8. VectorsInv'
  BY <1>1, <1>2, <1>4, <1>7 DEF VectorsInv, Unborn, Paired, EdgesAllowed
<1>9. TypeOK'
  BY <1>1, <1>2, <1>4 DEF TypeOK, Undefined
<1>10. TablesExact' /\ Passed'
  <2>1. pc' \notin {"front", "back", "split", "done"} /\ cur = 1
    BY <1>1, <1>4 DEF Passed
  <2> QED
    BY <1>1, <1>2, <1>4, <2>1 DEF TablesExact, Passed, HasMaster
<1> QED
  BY <1>8, <1>9, <1>10 DEF IInv

\* Splitting a register off leaves the fanin of the registers already passed.
LEMMA SplitOffInv ==
  ASSUME IInv, SplitOff
  PROVE  IInv'
<1> DEFINE regs == <<cur>>
           c == nodeCnt + 1
<1>1. TypeOK /\ VectorsInv /\ Unborn /\ Passed
  BY DEF IInv, VectorsInv
<1>2. /\ pc = "split" /\ cur <= nodeCnt /\ type[cur] = "Sequential"
      /\ nodeCnt < MaxNode /\ NewRegister(regs) /\ MoveBehind(regs, c)
      /\ cur' = cur + 1 /\ nodeCnt' = nodeCnt + 1
      /\ targets' = targets /\ numComb' = numComb /\ numSequ' = numSequ
      /\ ratio' = ratio /\ edgeLength' = edgeLength /\ todo' = todo /\ pc' = pc
  BY DEF SplitOff, NewRegister, merging
<1>3. cur \in nodes /\ cur \in Nat /\ nodeCnt \in Nat
  BY <1>1, <1>2, NodesInNode DEF TypeOK, nodes
<1>4. Pick(regs, nodes) /\ Range(regs) = {cur} /\ Len(regs) = 1
  BY <1>3 DEF Pick, IsInjective, Range
<1> HIDE DEF regs
<1>5. /\ nodeCnt' \in MatchedCnt..MaxNode /\ nodes' = nodes \cup {c}
      /\ bin' \in [Node -> Bins] /\ type' \in [Node -> NodeType]
      /\ \A n \in Node : type'[n] = IF n = c THEN "Sequential"
                                    ELSE IF n = cur THEN "Combinational"
                                    ELSE type[n]
  BY <1>1, <1>2, <1>4, Retyped
<1>6. /\ sources \in [Node -> Seq(nodes)] /\ sinks \in [Node -> Seq(nodes)]
      /\ nodes \in SUBSET Node
  BY <1>1, NodesInNode DEF TypeOK
<1>7. Len(Ends(regs, sinks)) <= MaxFanout
  <2>1. Len(Ends(regs, sinks)) = Len(sinks[regs[1]])
    BY <1>4, <1>6, EndsOfPick
  <2>2. regs[1] = cur
    BY DEF regs
  <2> QED
    BY <1>1, <1>3, <2>1, <2>2 DEF VectorsInv, DegreesInRange
<1>8. /\ sources' \in [Node -> Seq(nodes')] /\ sinks' \in [Node -> Seq(nodes')]
      /\ VectorsInv'
  <2>1. /\ regs[1] = cur /\ pc \notin Undefined /\ MaxFanin # 0
        /\ type[regs[1]] = "Sequential"
    BY <1>1, <1>2, <1>3, <1>6 DEF regs, Undefined, VectorsInv, EdgesAllowed
  <2>2. Len(regs) <= MaxFanin
    BY <1>4, <2>1, DegreeAssumption
  <2> QED
    BY <1>1, <1>2, <1>4, <1>7, <2>1, <2>2, MoveInv
<1>9. TypeOK'
  <2>1. targets' \in [Bins -> SUBSET nodes']
    BY <1>1, <1>2, <1>5 DEF TypeOK
  <2> QED
    BY <1>1, <1>2, <1>3, <1>5, <1>8, <2>1 DEF TypeOK
<1>10. Passed'
  <2>1. Moves(sinks, sources, sinks', sources', regs, c)
    BY <1>1, <1>2, <1>4, BehindMoves
  <2>2. \A n \in nodes : Len(sources'[n]) = Len(sources[n])
    <3>1. \A n \in Node \ {c} : Len(sources'[n]) = Len(sources[n])
      BY <1>4, <2>1 DEF Moves, MovedLengths
    <3>2. c \in Node \ nodes
      BY <1>1, <1>2, FreshNode
    <3> QED
      BY <1>6, <3>1, <3>2
  <2>3. \A n \in nodes' : n < cur' /\ type'[n] = "Sequential" =>
          n \in nodes /\ n < cur /\ type[n] = "Sequential"
    <3> SUFFICES ASSUME NEW n \in nodes', n < cur', type'[n] = "Sequential"
                 PROVE  n \in nodes /\ n < cur /\ type[n] = "Sequential"
      OBVIOUS
    <3>1. c \in Node \ nodes
      BY <1>1, <1>2, FreshNode
    <3>2. n # c /\ n \in nodes
      BY <1>2, <1>3, <1>5
    <3>3. n \in Node /\ n \in Nat
      BY <1>6, <3>2 DEF nodes
    <3>4. n # cur /\ type[n] = "Sequential"
      BY <1>5, <3>2, <3>3
    <3> QED
      BY <1>2, <1>3, <3>2, <3>3, <3>4
  <2> QED
    BY <1>1, <1>2, <2>2, <2>3 DEF Passed, HasMaster
<1>11. TablesExact'
  BY <1>2 DEF TablesExact
<1> QED
  BY <1>8, <1>9, <1>10, <1>11 DEF IInv

\* A node the splitting loop keeps has a master or needs none.
LEMMA KeepNodeInv ==
  ASSUME IInv, KeepNode
  PROVE  IInv'
<1>1. /\ nodeCnt' = nodeCnt /\ bin' = bin /\ sources' = sources /\ sinks' = sinks
      /\ type' = type /\ targets' = targets
      /\ numComb' = numComb /\ numSequ' = numSequ /\ ratio' = ratio
      /\ edgeLength' = edgeLength /\ todo' = todo /\ pc' = pc /\ pc = "split"
      /\ cur' = cur + 1 /\ (type[cur] = "Sequential" => HasMaster(cur))
  BY DEF KeepNode, netlist, merging
<1>2. nodes' = nodes /\ \A t : OfType(t)' = OfType(t)
  BY <1>1 DEF nodes, OfType
<1>3. TypeOK'
  BY <1>1, <1>2 DEF IInv, TypeOK
<1>4. VectorsInv'
  BY <1>1, <1>2 DEF IInv, VectorsInv, Unborn, Paired, DegreesInRange, EdgesAllowed
<1>5. TablesExact'
  BY <1>1 DEF TablesExact
<1>6. Passed'
  <2>1. ASSUME NEW n \in nodes, n < cur + 1, type[n] = "Sequential"
        PROVE  HasMaster(n)
    <3>1. n < cur \/ n = cur
      BY <2>1, NodesInNode DEF IInv, TypeOK, nodes
    <3> QED
      BY <1>1, <2>1, <3>1 DEF IInv, Passed
  <2> QED
    BY <1>1, <1>2, <2>1 DEF IInv, Passed, HasMaster
<1> QED
  BY <1>3, <1>4, <1>5, <1>6 DEF IInv

\* The splitting loop ends behind the last node.
LEMMA FinishInv ==
  ASSUME IInv, Finish
  PROVE  IInv'
<1>1. /\ nodeCnt' = nodeCnt /\ bin' = bin /\ sources' = sources /\ sinks' = sinks
      /\ type' = type /\ targets' = targets
      /\ numComb' = numComb /\ numSequ' = numSequ /\ ratio' = ratio
      /\ edgeLength' = edgeLength /\ todo' = todo /\ pc' = "done" /\ pc = "split"
      /\ cur' = cur /\ cur > nodeCnt
  BY DEF Finish, netlist, merging
<1>2. nodes' = nodes /\ \A t : OfType(t)' = OfType(t)
  BY <1>1 DEF nodes, OfType
<1>3. TypeOK'
  BY <1>1, <1>2 DEF IInv, TypeOK
<1>4. VectorsInv'
  BY <1>1, <1>2 DEF IInv, VectorsInv, Unborn, Paired, DegreesInRange, EdgesAllowed
<1>5. TablesExact'
  BY <1>1 DEF TablesExact
<1>6. Passed'
  BY <1>1, <1>2 DEF IInv, Passed, HasMaster
<1> QED
  BY <1>3, <1>4, <1>5, <1>6 DEF IInv

\* Every step of the loops keeps the invariant.
LEMMA NextInv == IInv /\ [Next]_vars => IInv'
<1> SUFFICES ASSUME IInv, [Next]_vars PROVE IInv'
  OBVIOUS
<1>1. CASE MarkPass
  BY <1>1, MarkPassInv
<1>2. CASE EndMarking
  BY <1>2, EndMarkingInv
<1>3. CASE \E id \in Bins : VisitBin(id) \/ Overrun(id)
  BY <1>3, VisitBinInv, OverrunInv
<1>4. CASE NextLength
  BY <1>4, IdleInv DEF NextLength, IInv, TypeOK, netlist
<1>5. CASE LeaveLoop
  BY <1>5, IdleInv DEF LeaveLoop, netlist
<1>6. CASE SplitOff
  BY <1>6, SplitOffInv
<1>7. CASE KeepNode
  BY <1>7, KeepNodeInv
<1>8. CASE Finish
  BY <1>8, FinishInv
<1>9. CASE UNCHANGED vars
  <2>1. /\ nodeCnt' = nodeCnt /\ bin' = bin /\ sources' = sources /\ sinks' = sinks
        /\ type' = type /\ cur' = cur /\ pc' = pc /\ targets' = targets
        /\ numComb' = numComb /\ numSequ' = numSequ /\ ratio' = ratio
        /\ edgeLength' = edgeLength /\ todo' = todo
    BY <1>9 DEF vars, netlist, merging
  <2>2. nodes' = nodes /\ \A t : OfType(t)' = OfType(t)
    BY <2>1 DEF nodes, OfType
  <2>3. TypeOK' /\ Passed'
    BY <2>1, <2>2 DEF IInv, TypeOK, Passed, HasMaster
  <2>4. VectorsInv'
    BY <2>1, <2>2 DEF IInv, VectorsInv, Unborn, Paired, DegreesInRange, EdgesAllowed
  <2>5. TablesExact'
    BY <2>1, <2>2 DEF IInv, TablesExact
  <2> QED
    BY <2>3, <2>4, <2>5 DEF IInv
<1> QED
  BY <1>1, <1>2, <1>3, <1>4, <1>5, <1>6, <1>7, <1>8, <1>9 DEF Next
-----------------------------------------------------------------------------
\* Every vector lists nodes there are, and the tables and counters keep their
\* shape through marking, merging and splitting.
THEOREM TimingTypeCorrect == Spec => []TypeOK
<1>1. IInv => TypeOK
  BY DEF IInv
<1> QED
  BY <1>1, InitInv, NextInv, PTL DEF Spec

\* Whatever neighbours two merged registers share, sources_ and sinks_ of every
\* node agree after createMergeNode and insertSequentialNode, and hold nothing
\* twice.
THEOREM VectorsStayPaired == Spec => []VectorsAgree
<1>1. IInv => VectorsAgree
  BY NodesInNode DEF IInv, VectorsInv, Paired, VectorsAgree
<1> QED
  BY <1>1, InitInv, NextInv, PTL DEF Spec

\* No merge and no split gives a node more drivers or loads than the
\* distributions have entries for, if each has one for two: the front loop runs
\* past the tables only with a limit of one load, the back loop only with a limit
\* of one driver.
THEOREM DegreesStayInRange == Spec => []DegreesInRange
<1>1. IInv => DegreesInRange
  BY DEF IInv, VectorsInv
<1> QED
  BY <1>1, InitInv, NextInv, PTL DEF Spec

\* The registers listed by bin and the two running counts are the netlist's,
\* however many merges came before.
THEOREM TablesStayExact == Spec => []TablesExact
<1>1. IInv => TablesExact
  BY DEF IInv
<1> QED
  BY <1>1, InitInv, NextInv, PTL DEF Spec

\* When splitting is done a sequential master has the fanin of every register,
\* also of those whose drivers were split off after their turn.
THEOREM RegistersGetMasters == Spec => []RegistersMappable
<1>1. IInv => RegistersMappable
  <2> SUFFICES ASSUME IInv, pc = "done", NEW n \in OfType("Sequential")
               PROVE  Len(sources[n]) \in SequFanins
    BY DEF RegistersMappable
  <2>1. n \in nodes /\ type[n] = "Sequential" /\ n < cur
    BY NodesInNode DEF IInv, TypeOK, Passed, OfType, nodes
  <2> QED
    BY <2>1 DEF IInv, Passed, HasMaster
<1> QED
  BY <1>1, InitInv, NextInv, PTL DEF Spec
-----------------------------------------------------------------------------
\* No path leads past the nodes a move took the paths from.
LEMMA MoveKeeps ==
  ASSUME TypeOK, VectorsInv, nodeCnt < MaxNode, NEW regs, Pick(regs, nodes),
         MoveInFront(regs, nodeCnt + 1) \/ MoveBehind(regs, nodeCnt + 1),
         NEW S, Closed(S)'
  PROVE  Closed(S \cap nodes)
<1> DEFINE R == Range(regs)
           c == nodeCnt + 1
<1>1. SUFFICES ASSUME NEW m \in S \cap nodes, NEW x \in Range(sinks[m])
               PROVE  x \in S \cap nodes
  BY DEF Closed
<1>2. \A n \in S : Range(sinks'[n]) \subseteq S
  BY DEF Closed
<1>3. c \in Node \ nodes /\ nodes \in SUBSET Node
  BY FreshNode DEF VectorsInv
<1>4. m \in Node /\ m # c
  BY <1>3
<1>5. x \in nodes
  <2>1. sinks[m] \in Seq(nodes)
    BY <1>4 DEF TypeOK
  <2> QED
    BY <2>1, RangeOfSeq
<1>6. R \subseteq nodes
  BY PickRange
<1> HIDE DEF R, c
<1>7. CASE MoveInFront(regs, c)
  <2>1. MovedRanges(sources, sinks, sources', sinks', regs, c)
    BY <1>7, FrontMoves DEF Moves, c
  <2>2. /\ Range(sinks'[c]) = R
        /\ m \in Beyond(regs, sources) => Range(sinks'[m]) = (Range(sinks[m]) \cup {c}) \ R
        /\ m \notin Beyond(regs, sources) => Range(sinks'[m]) = Range(sinks[m])
    BY <1>3, <1>4, <2>1 DEF MovedRanges, R
  <2>3. CASE m \in Beyond(regs, sources) /\ x \in R
    <3>1. c \in S
      BY <1>2, <1>3, <1>6, <2>2, <2>3
    <3> QED
      BY <1>2, <1>5, <2>2, <2>3, <3>1
  <2>4. CASE ~ (m \in Beyond(regs, sources) /\ x \in R)
    BY <1>2, <1>5, <2>2, <2>4
  <2> QED
    BY <2>3, <2>4
<1>8. CASE MoveBehind(regs, c)
  <2>1. MovedRanges(sinks, sources, sinks', sources', regs, c)
    BY <1>8, BehindMoves DEF Moves, c
  <2>2. /\ Range(sinks'[c]) = Beyond(regs, sinks)
        /\ m \in R => Range(sinks'[m]) = {c}
        /\ m \notin R => Range(sinks'[m]) = Range(sinks[m])
    BY <1>3, <1>4, <2>1 DEF MovedRanges, R
  <2>3. CASE m \in R
    <3>1. x \in Beyond(regs, sinks)
      BY <1>3, <1>5, <2>3 DEF Beyond, R
    <3>2. c \in S
      BY <1>2, <2>2, <2>3
    <3> QED
      BY <1>2, <1>5, <2>2, <3>1, <3>2
  <2>4. CASE m \notin R
    BY <1>2, <1>5, <2>2, <2>4
  <2> QED
    BY <2>3, <2>4
<1> QED
  BY <1>7, <1>8 DEF c

\* No other step touches an edge.
LEMMA StillKeeps ==
  ASSUME TypeOK, nodeCnt' = nodeCnt, sinks' = sinks, NEW S \in SUBSET nodes', Closed(S)'
  PROVE  Closed(S \cap nodes)
<1>1. S \cap nodes = S
  BY DEF nodes
<1> QED
  BY <1>1 DEF Closed

\* What a node drove, directly or through others, before a merge or a split, it
\* drives after it: a vector from which removeSink took too much, or a neighbour
\* addSources forgot, would cut a path.
THEOREM RewiringKeepsPaths == Spec => PathsKept
<1> DEFINE Keep == \A S \in SUBSET nodes' : Closed(S)' => Closed(S \cap nodes)
<1>1. IInv /\ [Next]_vars => [Keep]_vars
  <2> SUFFICES ASSUME IInv, Next, NEW S \in SUBSET nodes', Closed(S)'
               PROVE  Closed(S \cap nodes)
    OBVIOUS
  <2>1. TypeOK /\ VectorsInv
    BY DEF IInv
  <2>2. CASE nodeCnt' = nodeCnt /\ sinks' = sinks
    BY <2>1, <2>2, StillKeeps
  <2>3. CASE \E id \in Bins : VisitBin(id) \/ Overrun(id)
    <3>1. PICK id \in Bins : VisitBin(id) \/ Overrun(id)
      BY <2>3
    <3>2. /\ pc \in {"front", "back"}
          /\ \/ \E regs \in Pairs(id) : Merge(regs)
             \/ UNCHANGED <<netlist, targets, numComb, numSequ, ratio>>
      BY <3>1 DEF VisitBin, Overrun, merging
    <3>3. ASSUME NEW regs \in Pairs(id), Merge(regs) PROVE Closed(S \cap nodes)
      <4>1. Pick(regs, nodes)
        BY <3>2, PairPicked DEF IInv
      <4>2. /\ nodeCnt < MaxNode
            /\ MoveInFront(regs, nodeCnt + 1) \/ MoveBehind(regs, nodeCnt + 1)
        BY <3>3 DEF Merge
      <4> QED
        BY <2>1, <4>1, <4>2, MoveKeeps
    <3>4. CASE UNCHANGED <<netlist, targets, numComb, numSequ, ratio>>
      BY <2>2, <3>4 DEF netlist
    <3> QED
      BY <3>2, <3>3, <3>4
  <2>4. CASE SplitOff
    <3>1. cur \in nodes
      BY <2>1, <2>4, NodesInNode DEF SplitOff, TypeOK, nodes
    <3>2. Pick(<<cur>>, nodes)
      BY <3>1 DEF Pick, IsInjective
    <3> QED
      BY <2>1, <2>4, <3>2, MoveKeeps DEF SplitOff
  <2>5. CASE MarkPass \/ EndMarking \/ NextLength \/ LeaveLoop \/ KeepNode \/ Finish
    BY <2>2, <2>5 DEF MarkPass, EndMarking, NextLength, LeaveLoop, KeepNode, Finish, netlist
  <2> QED
    BY <2>3, <2>4, <2>5 DEF Next
<1> QED
  BY <1>1, InitInv, NextInv, PTL DEF Spec, PathsKept
-----------------------------------------------------------------------------
\* A set of at most one element has no two.
LEMMA AtMostOne ==
  ASSUME NEW S, IsFiniteSet(S), Cardinality(S) <= 1, NEW a \in S, NEW b \in S
  PROVE  a = b
<1> SUFFICES ASSUME a # b PROVE FALSE
  OBVIOUS
<1>1. IsFiniteSet({a}) /\ Cardinality({a}) = 1
  BY FS_Singleton
<1>2. Cardinality({a} \cup {b}) = 2
  BY <1>1, FS_AddElement, SMTT(30)
<1>3. {a} \cup {b} \in SUBSET S
  OBVIOUS
<1>4. Cardinality({a} \cup {b}) <= Cardinality(S) /\ Cardinality(S) \in Nat
  BY <1>3, FS_Subset, FS_CardinalityType
<1> QED
  BY <1>2, <1>4

\* What matching leaves is an initial netlist of the abstract rewiring.
LEMMA InitRefines == Init => Abstract!Init
<1> SUFFICES ASSUME Init PROVE Abstract!Init
  OBVIOUS
<1>1. PICK E \in MatchedEdges :
        /\ sources = [n \in Node |-> Ascending({m \in Node : <<m, n>> \in E})]
        /\ sinks = [n \in Node |-> Ascending({m \in Node : <<n, m>> \in E})]
  BY DEF Init
<1>2. E \subseteq (1..MatchedCnt) \X (1..MatchedCnt)
  BY EdgeAssumption
<1>3. nodes = 1..MatchedCnt /\ 1..MatchedCnt \subseteq Node
  BY SizeAssumption DEF Init, nodes, Node
<1>4. \A n \in Node : Range(sinks[n]) = {m \in Node : <<n, m>> \in E}
  <2> SUFFICES ASSUME NEW n \in Node PROVE Range(sinks[n]) = {m \in Node : <<n, m>> \in E}
    OBVIOUS
  <2> DEFINE S == {m \in Node : <<n, m>> \in E}
  <2>1. S \in SUBSET (1..MatchedCnt) /\ sinks[n] = Ascending(S)
    BY <1>1, <1>2
  <2> HIDE DEF S
  <2>2. Range(sinks[n]) = S
    BY <1>2, <2>1, MatchedVectors
  <2> QED
    BY <2>2 DEF S
<1>5. edges = E
  <2>1. \A m, n \in Node : <<m, n>> \in edges <=> <<m, n>> \in E
    BY <1>4 DEF edges
  <2>2. edges \subseteq Node \X Node /\ E \subseteq Node \X Node
    BY <1>2, <1>3 DEF edges
  <2> QED
    BY <2>1, <2>2
<1>6. \A n \in Node : type[n] = IF n \in 1..MatchedCnt THEN MatchedType[n] ELSE "Combinational"
  BY SizeAssumption DEF Init, Node
<1>7. type \in [Node -> Abstract!NodeType \ {"Sequential"}]
  BY <1>3, SizeAssumption DEF Init, Abstract!NodeType, NodeType, Node
<1>8. Abstract!PinRules
  <2> SUFFICES ASSUME NEW e \in E
               PROVE  /\ type[e[1]] # "PrimaryOut"
                      /\ type[e[2]] # "PrimaryIn"
                      /\ type[e[2]] = "PrimaryOut" =>
                           \A d \in E : d[2] = e[2] => d[1] = e[1]
    BY <1>5 DEF Abstract!PinRules
  <2>1. e[1] \in 1..MatchedCnt /\ e[2] \in 1..MatchedCnt /\ e = <<e[1], e[2]>>
    BY <1>2
  <2>2. type[e[1]] = MatchedType[e[1]] /\ type[e[2]] = MatchedType[e[2]]
    BY <1>3, <1>6, <2>1
  <2>3. type[e[1]] # "PrimaryOut" /\ type[e[2]] # "PrimaryIn"
    BY <2>2, EdgeAssumption
  <2>4. ASSUME type[e[2]] = "PrimaryOut", NEW d \in E, d[2] = e[2]
        PROVE  d[1] = e[1]
    <3> DEFINE S == {m \in 1..MatchedCnt : <<m, e[2]>> \in E}
    <3>1. Cardinality(S) <= 1
      BY <2>1, <2>2, <2>4, EdgeAssumption
    <3>2. S \in SUBSET (1..MatchedCnt) /\ IsFiniteSet(1..MatchedCnt)
      BY SizeAssumption, FS_Interval
    <3>3. IsFiniteSet(S)
      BY <3>2, FS_Subset
    <3>4. d = <<d[1], d[2]>> /\ d[1] \in 1..MatchedCnt
      BY <1>2
    <3>5. d[1] \in S /\ e[1] \in S
      BY <2>1, <2>4, <3>4
    <3> HIDE DEF S
    <3> QED
      BY <3>1, <3>3, <3>5, AtMostOne
  <2> QED
    BY <2>3, <2>4
<1>9. Abstract!NoCombLoop
  BY <1>3, <1>5, EdgeAssumption DEF Abstract!NoCombLoop
<1> QED
  BY <1>2, <1>3, <1>5, <1>6, <1>7, <1>8, <1>9 DEF Abstract!Init

\* createMergeNode in front of the registers, on the edges
LEMMA FrontEdges ==
  ASSUME TypeOK, VectorsInv, nodeCnt < MaxNode, NEW regs, Pick(regs, nodes),
         MoveInFront(regs, nodeCnt + 1)
  PROVE  edges' = {e \in edges : e[2] \notin Range(regs)}
                    \cup ({m \in nodes : \E n \in Range(regs) : <<m, n>> \in edges}
                            \X {nodeCnt + 1})
                    \cup ({nodeCnt + 1} \X Range(regs))
<1> DEFINE R == Range(regs)
           c == nodeCnt + 1
           B == Beyond(regs, sources)
           after == {e \in edges : e[2] \notin R}
                      \cup ({m \in nodes : \E n \in R : <<m, n>> \in edges} \X {c})
                      \cup ({c} \X R)
<1>1. Moves(sources, sinks, sources', sinks', regs, c)
  BY FrontMoves
<1>2. /\ c \in Node \ nodes /\ nodes \subseteq Node /\ sinks[c] = <<>>
      /\ R \subseteq nodes
  BY FreshNode, PickRange DEF VectorsInv
<1>3. \A m, n \in Node : <<m, n>> \in edges <=> n \in Range(sinks[m])
  BY DEF edges
<1>4. \A m, n \in Node : <<m, n>> \in edges' <=> n \in Range(sinks'[m])
  BY DEF edges
<1>5. \A n \in Node : Range(sinks'[n]) = IF n = c THEN R
                                         ELSE IF n \in B THEN (Range(sinks[n]) \cup {c}) \ R
                                         ELSE Range(sinks[n])
  BY <1>1 DEF Moves, MovedRanges
<1>6. \A m \in Node : m \in B <=> \E r \in R : <<m, r>> \in edges
  BY <1>2, <1>3 DEF VectorsInv, Paired, Beyond
<1>7. \A m \in Node : Range(sinks[m]) \subseteq nodes
  BY DEF TypeOK, Range
<1>8. \A m \in Node \ nodes : Range(sinks[m]) = {}
  BY DEF VectorsInv, Unborn, Range
<1> HIDE DEF R, c, B
<1>9. ASSUME NEW m \in Node, NEW n \in Node
      PROVE  <<m, n>> \in edges' <=> <<m, n>> \in after
  <2>1. <<m, n>> \in after <=> \/ n \in Range(sinks[m]) /\ n \notin R
                               \/ m \in nodes /\ m \in B /\ n = c
                               \/ m = c /\ n \in R
    BY <1>3, <1>6
  <2>2. m \in B => m \in nodes
    BY <1>2, <1>3, <1>6, <1>8
  <2>3. n \in Range(sinks[m]) /\ n \in R => m \in B
    BY <1>2, <1>3, <1>6
  <2>4. <<m, n>> \in edges' <=> n \in Range(sinks'[m])
    BY <1>4
  <2>5. c \notin nodes /\ c \notin R /\ Range(sinks[m]) \subseteq nodes
    BY <1>2, <1>7
  <2>6. CASE m = c
    <3>1. Range(sinks[m]) = {} /\ Range(sinks'[m]) = R
      BY <1>2, <1>5, <1>8, <2>6
    <3> QED
      BY <2>1, <2>4, <2>5, <2>6, <3>1
  <2>7. CASE m # c /\ m \in B
    <3>1. Range(sinks'[m]) = (Range(sinks[m]) \cup {c}) \ R
      BY <1>5, <2>7
    <3> QED
      BY <2>1, <2>2, <2>4, <2>5, <2>7, <3>1
  <2>8. CASE m # c /\ m \notin B
    <3>1. Range(sinks'[m]) = Range(sinks[m])
      BY <1>5, <2>8
    <3> QED
      BY <2>1, <2>3, <2>4, <2>8, <3>1
  <2> QED
    BY <2>6, <2>7, <2>8
<1>10. edges' \subseteq Node \X Node /\ after \subseteq Node \X Node
  BY <1>2 DEF edges
<1> HIDE DEF after
<1>11. edges' = after
  BY <1>9, <1>10
<1> QED
  BY <1>11 DEF after, R, c

\* createMergeNode and insertSequentialNode behind the registers, on the edges
LEMMA BehindEdges ==
  ASSUME TypeOK, VectorsInv, nodeCnt < MaxNode, NEW regs, Pick(regs, nodes),
         MoveBehind(regs, nodeCnt + 1)
  PROVE  edges' = {e \in edges : e[1] \notin Range(regs)}
                    \cup ({nodeCnt + 1}
                            \X {n \in nodes : \E m \in Range(regs) : <<m, n>> \in edges})
                    \cup (Range(regs) \X {nodeCnt + 1})
<1> DEFINE R == Range(regs)
           c == nodeCnt + 1
           B == Beyond(regs, sinks)
           after == {e \in edges : e[1] \notin R}
                      \cup ({c} \X {n \in nodes : \E m \in R : <<m, n>> \in edges})
                      \cup (R \X {c})
<1>1. Moves(sinks, sources, sinks', sources', regs, c)
  BY BehindMoves
<1>2. /\ c \in Node \ nodes /\ nodes \subseteq Node /\ sinks[c] = <<>>
      /\ R \subseteq nodes
  BY FreshNode, PickRange DEF VectorsInv
<1>3. \A m, n \in Node : <<m, n>> \in edges <=> n \in Range(sinks[m])
  BY DEF edges
<1>4. \A m, n \in Node : <<m, n>> \in edges' <=> n \in Range(sinks'[m])
  BY DEF edges
<1>5. \A n \in Node : Range(sinks'[n]) = IF n = c THEN B
                                         ELSE IF n \in R THEN {c} ELSE Range(sinks[n])
  BY <1>1 DEF Moves, MovedRanges
<1>6. \A m \in Node : m \in B <=> \E r \in R : <<r, m>> \in edges
  BY <1>2, <1>3 DEF Beyond
<1>7. \A m \in Node : Range(sinks[m]) \subseteq nodes
  BY DEF TypeOK, Range
<1>8. \A m \in Node \ nodes : Range(sinks[m]) = {}
  BY DEF VectorsInv, Unborn, Range
<1> HIDE DEF R, c, B
<1>9. ASSUME NEW m \in Node, NEW n \in Node
      PROVE  <<m, n>> \in edges' <=> <<m, n>> \in after
  <2>1. <<m, n>> \in after <=> \/ n \in Range(sinks[m]) /\ m \notin R
                               \/ m = c /\ n \in nodes /\ n \in B
                               \/ m \in R /\ n = c
    BY <1>3, <1>6
  <2>2. n \in B => n \in nodes
    BY <1>2, <1>3, <1>6, <1>7
  <2>3. <<m, n>> \in edges' <=> n \in Range(sinks'[m])
    BY <1>4
  <2>4. CASE m = c
    <3>1. Range(sinks[m]) = {} /\ Range(sinks'[m]) = B /\ m \notin R
      BY <1>2, <1>5, <1>8, <2>4
    <3> QED
      BY <2>1, <2>2, <2>3, <2>4, <3>1
  <2>5. CASE m # c /\ m \in R
    <3>1. Range(sinks'[m]) = {c}
      BY <1>5, <2>5
    <3> QED
      BY <2>1, <2>3, <2>5, <3>1
  <2>6. CASE m # c /\ m \notin R
    <3>1. Range(sinks'[m]) = Range(sinks[m])
      BY <1>5, <2>6
    <3> QED
      BY <2>1, <2>3, <2>6, <3>1
  <2> QED
    BY <2>4, <2>5, <2>6
<1>10. edges' \subseteq Node \X Node /\ after \subseteq Node \X Node
  BY <1>2 DEF edges
<1> HIDE DEF after
<1>11. edges' = after
  BY <1>9, <1>10
<1> QED
  BY <1>11 DEF after, R, c

\* A step in which a register takes the place of others is one of the rewiring.
LEMMA MoveRefines ==
  ASSUME TypeOK, VectorsInv, nodeCnt < MaxNode, NEW regs, Pick(regs, nodes),
         \A r \in Range(regs) : type[r] = "Sequential", NewRegister(regs),
         MoveInFront(regs, nodeCnt + 1) \/ MoveBehind(regs, nodeCnt + 1)
  PROVE  Abstract!Next
<1> DEFINE R == Range(regs)
           c == nodeCnt + 1
<1>1. R \in SUBSET Abstract!Registers /\ R # {}
  BY PickRange DEF Abstract!Registers
<1>2. c \in Node \ nodes
  BY FreshNode DEF VectorsInv
<1>3. Abstract!Replace(R, c)
  <2>1. nodes' = nodes \cup {c}
    BY Retyped DEF VectorsInv
  <2> QED
    BY <1>1, <1>2, <2>1 DEF Abstract!Replace, NewRegister
<1>4. CASE MoveInFront(regs, c)
  <2>1. Abstract!PutInFront(R, c)
    BY <1>3, <1>4, FrontEdges DEF Abstract!PutInFront
  <2> QED
    BY <1>1, <1>2, <2>1 DEF Abstract!Next
<1>5. CASE MoveBehind(regs, c)
  <2>1. Abstract!PutBehind(R, c)
    BY <1>3, <1>5, BehindEdges DEF Abstract!PutBehind
  <2> QED
    BY <1>1, <1>2, <2>1 DEF Abstract!Next
<1> QED
  BY <1>4, <1>5

\* Every step is one of the abstract rewiring, or leaves its state alone.
LEMMA NextRefines == IInv /\ [Next]_vars => [Abstract!Next]_Abstract!vars
<1> SUFFICES ASSUME IInv, [Next]_vars PROVE [Abstract!Next]_Abstract!vars
  OBVIOUS
<1>1. ASSUME UNCHANGED <<nodeCnt, type, sinks>> PROVE UNCHANGED Abstract!vars
  BY <1>1 DEF Abstract!vars, nodes, edges
<1>2. CASE MarkPass
  <2>1. /\ TooDeep # {} /\ TooDeep \in SUBSET {n \in nodes : type[n] = "Combinational"}
        /\ type' = [n \in Node |-> IF n \in TooDeep THEN "Sequential" ELSE type[n]]
        /\ nodeCnt' = nodeCnt /\ sinks' = sinks
    BY <1>2 DEF MarkPass, TooDeep, OfType
  <2>2. nodes' = nodes /\ edges' = edges
    BY <2>1 DEF nodes, edges
  <2>3. Abstract!Mark(TooDeep)
    BY <2>1, <2>2 DEF Abstract!Mark
  <2> QED
    BY <2>1, <2>3 DEF Abstract!Next
<1>3. CASE EndMarking
  BY <1>1, <1>3 DEF EndMarking, netlist
<1>4. CASE \E id \in Bins : VisitBin(id) \/ Overrun(id)
  <2>1. PICK id \in Bins : VisitBin(id) \/ Overrun(id)
    BY <1>4
  <2>2. /\ pc \in {"front", "back"}
        /\ \/ \E regs \in Pairs(id) : Merge(regs)
           \/ UNCHANGED <<netlist, targets, numComb, numSequ, ratio>>
    BY <2>1 DEF VisitBin, Overrun, merging
  <2>3. ASSUME NEW regs \in Pairs(id), Merge(regs) PROVE Abstract!Next
    <3>1. Pick(regs, nodes) /\ \A r \in Range(regs) : type[r] = "Sequential"
      BY <2>2, PairPicked DEF IInv
    <3>2. /\ nodeCnt < MaxNode /\ NewRegister(regs)
          /\ MoveInFront(regs, nodeCnt + 1) \/ MoveBehind(regs, nodeCnt + 1)
      BY <2>3 DEF Merge
    <3> QED
      BY <3>1, <3>2, MoveRefines DEF IInv
  <2>4. CASE UNCHANGED <<netlist, targets, numComb, numSequ, ratio>>
    BY <1>1, <2>4 DEF netlist
  <2> QED
    BY <2>2, <2>3, <2>4
<1>5. CASE NextLength
  BY <1>1, <1>5 DEF NextLength, netlist
<1>6. CASE LeaveLoop
  BY <1>1, <1>6 DEF LeaveLoop, netlist
<1>7. CASE SplitOff
  <2>1. /\ cur <= nodeCnt /\ type[cur] = "Sequential" /\ nodeCnt < MaxNode
        /\ NewRegister(<<cur>>) /\ MoveBehind(<<cur>>, nodeCnt + 1)
    BY <1>7 DEF SplitOff
  <2>2. cur \in nodes
    BY <2>1, NodesInNode DEF IInv, TypeOK, nodes
  <2>3. Pick(<<cur>>, nodes) /\ Range(<<cur>>) = {cur}
    BY <2>2 DEF Pick, IsInjective, Range
  <2>4. Abstract!Next
    BY <2>1, <2>3, MoveRefines DEF IInv
  <2> QED
    BY <2>4
<1>8. CASE KeepNode
  BY <1>1, <1>8 DEF KeepNode, netlist
<1>9. CASE Finish
  BY <1>1, <1>9 DEF Finish, netlist
<1>10. CASE UNCHANGED vars
  BY <1>1, <1>10 DEF vars, netlist
<1> QED
  BY <1>2, <1>3, <1>4, <1>5, <1>6, <1>7, <1>8, <1>9, <1>10 DEF Next

\* The loops of timingPathConstruction_v1 are an implementation of the rewiring:
\* what is proved of the rewiring is true of them.
THEOREM TimingImplementsRewiring == Spec => ImplementsRewiring
BY InitInv, NextInv, InitRefines, NextRefines, PTL
   DEF Spec, ImplementsRewiring, Abstract!Spec
-----------------------------------------------------------------------------
\* The rewiring by itself: marking, merging and splitting never close a loop that
\* passes no register, and never give a pin an edge it must not have, whichever
\* registers are chosen.  The definitions of nodes and edges are not looked into.

Rewired == Abstract!TypeOK /\ Abstract!PinRules /\ Abstract!NoCombLoop

LEMMA RewiringInit == Abstract!Init => Rewired
<1>1. 1..MatchedCnt \subseteq Node
  BY SizeAssumption DEF Node
<1> QED
  BY <1>1 DEF Abstract!Init, Rewired, Abstract!TypeOK, Abstract!NodeType

\* A pass of the marking loop adds no edge and takes nodes out of the logic.
LEMMA MarkInv ==
  ASSUME Rewired, NEW S \in SUBSET nodes, Abstract!Mark(S)
  PROVE  Rewired'
<1> USE DEF Rewired
<1>1. Abstract!TypeOK'
  BY DEF Abstract!Mark, Abstract!TypeOK, Abstract!NodeType
<1>2. \A n \in Node : type'[n] = IF n \in S THEN "Sequential" ELSE type[n]
  BY DEF Abstract!Mark
<1>3. edges' = edges /\ nodes' = nodes /\ edges \subseteq Node \X Node
  BY DEF Abstract!Mark, Abstract!TypeOK
<1>4. \A n \in S : type[n] = "Combinational"
  BY DEF Abstract!Mark
<1>5. Abstract!PinRules'
  BY <1>2, <1>3, <1>4 DEF Abstract!PinRules
<1>6. nodes' \ Abstract!Registers' \subseteq nodes \ Abstract!Registers
  BY <1>2, <1>3 DEF Abstract!Registers, Abstract!TypeOK
<1>7. Abstract!NoCombLoop'
  BY <1>3, <1>6 DEF Abstract!NoCombLoop
<1> QED
  BY <1>1, <1>5, <1>7

\* What Abstract!Replace does to the types, and which nodes are logic afterwards
RetypedBy(R, c) ==
  /\ c \notin nodes /\ c \notin R
  /\ nodes' = nodes \cup {c}
  /\ type' \in [Node -> Abstract!NodeType]
  /\ type'[c] = "Sequential"
  /\ \A n \in R : type[n] = "Sequential" /\ type'[n] = "Combinational"
  /\ \A n \in nodes \ R : type'[n] = type[n]
  /\ \A n \in nodes', t \in {"PrimaryIn", "PrimaryOut"} :
       type'[n] = t => n \in nodes \ R /\ type[n] = t
  /\ nodes' \ Abstract!Registers' = (nodes \ Abstract!Registers) \cup R

\* Abstract!Replace makes registers logic, and only them.
LEMMA ReplaceTypes ==
  ASSUME Abstract!TypeOK, NEW R \in SUBSET nodes, NEW c \in Node, Abstract!Replace(R, c)
  PROVE  RetypedBy(R, c)
<1>1. c \notin nodes /\ nodes' = nodes \cup {c}
  BY DEF Abstract!Replace
<1>2. \A n \in Node : type'[n] = IF n = c THEN "Sequential"
                                 ELSE IF n \in R THEN "Combinational" ELSE type[n]
  BY DEF Abstract!Replace
<1>3. type' \in [Node -> Abstract!NodeType]
  BY DEF Abstract!Replace, Abstract!TypeOK, Abstract!NodeType
<1>4. \A n \in R : type[n] = "Sequential"
  BY DEF Abstract!Replace, Abstract!Registers
<1>5. nodes' \ Abstract!Registers' = (nodes \ Abstract!Registers) \cup R
  BY <1>1, <1>2, <1>4 DEF Abstract!Registers, Abstract!TypeOK
<1> QED
  BY <1>1, <1>2, <1>3, <1>4, <1>5 DEF RetypedBy, Abstract!TypeOK

\* A register in front of R takes the drivers of R: R is driven by it alone.
LEMMA PutInFrontInv ==
  ASSUME Rewired, NEW R \in SUBSET nodes, NEW c \in Node, Abstract!PutInFront(R, c)
  PROVE  Rewired'
<1> USE DEF Rewired
<1>1. RetypedBy(R, c)
  BY ReplaceTypes DEF Abstract!PutInFront
<1>2. \A m, n : <<m, n>> \in edges' <=>
        \/ <<m, n>> \in edges /\ n \notin R
        \/ n = c /\ \E r \in R : <<m, r>> \in edges
        \/ m = c /\ n \in R
  <2>1. edges \subseteq nodes \X nodes
    BY DEF Abstract!TypeOK
  <2> QED
    BY <2>1 DEF Abstract!PutInFront
<1>3. Abstract!TypeOK'
  <2>1. \A e \in edges' : e \in nodes' \X nodes'
    BY <1>1 DEF Abstract!PutInFront, Abstract!TypeOK, RetypedBy
  <2> QED
    BY <1>1, <2>1 DEF Abstract!TypeOK, RetypedBy
<1>4. Abstract!PinRules'
  <2>1. \A m, n : <<m, n>> \in edges =>
          /\ m \in nodes /\ n \in nodes
          /\ type[m] # "PrimaryOut" /\ type[n] # "PrimaryIn"
          /\ type[n] = "PrimaryOut" => \A k : <<k, n>> \in edges => k = m
    BY DEF Abstract!PinRules, Abstract!TypeOK
  <2>2. ASSUME NEW m, NEW n, <<m, n>> \in edges'
        PROVE  /\ type'[m] # "PrimaryOut" /\ type'[n] # "PrimaryIn"
               /\ type'[n] = "PrimaryOut" => \A k : <<k, n>> \in edges' => k = m
    <3>1. CASE <<m, n>> \in edges /\ n \notin R
      BY <1>1, <1>2, <2>1, <3>1 DEF RetypedBy
    <3>2. CASE n = c /\ \E r \in R : <<m, r>> \in edges
      BY <1>1, <2>1, <3>2 DEF RetypedBy
    <3>3. CASE m = c /\ n \in R
      BY <1>1, <3>3 DEF RetypedBy
    <3> QED
      BY <1>2, <2>2, <3>1, <3>2, <3>3
  <2>3. \A e \in edges' : e = <<e[1], e[2]>>
    BY <1>3 DEF Abstract!TypeOK
  <2> QED
    BY <2>2, <2>3 DEF Abstract!PinRules
<1>5. Abstract!NoCombLoop'
  <2> SUFFICES ASSUME NEW S \in SUBSET (nodes' \ Abstract!Registers'), S # {}
               PROVE  \E n \in S : \A m \in S : <<m, n>> \notin edges'
    BY DEF Abstract!NoCombLoop
  <2>1. S \subseteq (nodes \ Abstract!Registers) \cup R /\ c \notin S
    BY <1>1 DEF Abstract!TypeOK, RetypedBy
  <2>2. CASE \E n \in S : n \in R
    <3>1. PICK n \in S : n \in R
      BY <2>2
    <3>2. n # c
      BY <1>1, <3>1 DEF RetypedBy
    <3> QED
      BY <1>2, <2>1, <3>1, <3>2
  <2>3. CASE S \cap R = {}
    <3>1. PICK n \in S : \A m \in S : <<m, n>> \notin edges
      BY <2>1, <2>3 DEF Abstract!NoCombLoop
    <3> QED
      BY <1>2, <2>1, <3>1
  <2> QED
    BY <2>2, <2>3
<1> QED
  BY <1>3, <1>4, <1>5

\* A register behind R takes the loads of R: R drives it alone.
LEMMA PutBehindInv ==
  ASSUME Rewired, NEW R \in SUBSET nodes, NEW c \in Node, Abstract!PutBehind(R, c)
  PROVE  Rewired'
<1> USE DEF Rewired
<1>1. RetypedBy(R, c)
  BY ReplaceTypes DEF Abstract!PutBehind
<1>2. \A m, n : <<m, n>> \in edges' <=>
        \/ <<m, n>> \in edges /\ m \notin R
        \/ m = c /\ \E r \in R : <<r, n>> \in edges
        \/ n = c /\ m \in R
  <2>1. edges \subseteq nodes \X nodes
    BY DEF Abstract!TypeOK
  <2> QED
    BY <2>1 DEF Abstract!PutBehind
<1>3. Abstract!TypeOK'
  <2>1. \A e \in edges' : e \in nodes' \X nodes'
    BY <1>1 DEF Abstract!PutBehind, Abstract!TypeOK, RetypedBy
  <2> QED
    BY <1>1, <2>1 DEF Abstract!TypeOK, RetypedBy
<1>4. Abstract!PinRules'
  <2>1. \A m, n : <<m, n>> \in edges =>
          /\ m \in nodes /\ n \in nodes
          /\ type[m] # "PrimaryOut" /\ type[n] # "PrimaryIn"
          /\ type[n] = "PrimaryOut" => \A k : <<k, n>> \in edges => k = m
    BY DEF Abstract!PinRules, Abstract!TypeOK
  <2>2. ASSUME NEW m, NEW n, <<m, n>> \in edges'
        PROVE  /\ type'[m] # "PrimaryOut" /\ type'[n] # "PrimaryIn"
               /\ type'[n] = "PrimaryOut" => \A k : <<k, n>> \in edges' => k = m
    <3>1. CASE <<m, n>> \in edges /\ m \notin R
      BY <1>1, <1>2, <2>1, <3>1 DEF RetypedBy
    <3>2. CASE m = c /\ \E r \in R : <<r, n>> \in edges
      BY <1>1, <1>2, <2>1, <3>2 DEF RetypedBy
    <3>3. CASE n = c /\ m \in R
      BY <1>1, <3>3 DEF RetypedBy
    <3> QED
      BY <1>2, <2>2, <3>1, <3>2, <3>3
  <2>3. \A e \in edges' : e = <<e[1], e[2]>>
    BY <1>3 DEF Abstract!TypeOK
  <2> QED
    BY <2>2, <2>3 DEF Abstract!PinRules
<1>5. Abstract!NoCombLoop'
  <2> SUFFICES ASSUME NEW S \in SUBSET (nodes' \ Abstract!Registers'), S # {}
               PROVE  \E n \in S : \A m \in S : <<m, n>> \notin edges'
    BY DEF Abstract!NoCombLoop
  <2>1. S \subseteq (nodes \ Abstract!Registers) \cup R /\ c \notin S
    BY <1>1 DEF Abstract!TypeOK, RetypedBy
  <2>2. CASE S \ R = {}
    BY <1>2, <2>1, <2>2
  <2>3. CASE S \ R # {}
    <3>1. PICK n \in S \ R : \A m \in S \ R : <<m, n>> \notin edges
      BY <2>1, <2>3 DEF Abstract!NoCombLoop
    <3> QED
      BY <1>2, <2>1, <3>1
  <2> QED
    BY <2>2, <2>3
<1> QED
  BY <1>3, <1>4, <1>5

LEMMA RewiringNext == Rewired /\ [Abstract!Next]_Abstract!vars => Rewired'
<1> SUFFICES ASSUME Rewired, [Abstract!Next]_Abstract!vars PROVE Rewired'
  OBVIOUS
<1>1. CASE \E S \in SUBSET {n \in nodes : type[n] = "Combinational"} : Abstract!Mark(S)
  BY <1>1, MarkInv
<1>2. CASE \E R \in (SUBSET Abstract!Registers) \ {{}}, c \in Node \ nodes :
              Abstract!PutInFront(R, c)
  BY <1>2, PutInFrontInv DEF Abstract!Registers
<1>3. CASE \E R \in (SUBSET Abstract!Registers) \ {{}}, c \in Node \ nodes :
              Abstract!PutBehind(R, c)
  BY <1>3, PutBehindInv DEF Abstract!Registers
<1>4. CASE UNCHANGED Abstract!vars
  BY <1>4 DEF Abstract!vars, Rewired, Abstract!TypeOK, Abstract!PinRules, Abstract!NoCombLoop, Abstract!Registers
<1> QED
  BY <1>1, <1>2, <1>3, <1>4 DEF Abstract!Next

\* Nodes, types and edges keep their shape through every rewiring step.
THEOREM RewiringTypeCorrect == Abstract!Spec => []Abstract!TypeOK
<1>1. Rewired => Abstract!TypeOK
  BY DEF Rewired
<1> QED
  BY <1>1, RewiringInit, RewiringNext, PTL DEF Abstract!Spec

\* No choice of registers to mark, merge or split gives a pin a wrong edge.
THEOREM PinRulesHold == Abstract!Spec => []Abstract!PinRules
<1>1. Rewired => Abstract!PinRules
  BY DEF Rewired
<1> QED
  BY <1>1, RewiringInit, RewiringNext, PTL DEF Abstract!Spec

\* No choice of registers to mark, merge or split closes a loop of logic: the
\* topological sort reaches every node.
THEOREM LoopFree == Abstract!Spec => []Abstract!NoCombLoop
<1>1. Rewired => Abstract!NoCombLoop
  BY DEF Rewired
<1> QED
  BY <1>1, RewiringInit, RewiringNext, PTL DEF Abstract!Spec

\* All of it holds of the netlist of the loops.
LEMMA RewiringInv == Spec => []Rewired
BY TimingImplementsRewiring, RewiringInit, RewiringNext, PTL DEF ImplementsRewiring, Abstract!Spec

\* No marking, merging or splitting the loops choose gives a pin an edge it must
\* not have.
THEOREM TimingPinRules == Spec => []PinRules
BY TimingImplementsRewiring, PinRulesHold, PTL DEF ImplementsRewiring, PinRules

\* No marking, merging or splitting the loops choose closes a loop of logic, so
\* that the next topologicalSort reaches every node.
THEOREM TimingLoopFree == Spec => []NoCombLoop
BY TimingImplementsRewiring, LoopFree, PTL DEF ImplementsRewiring, NoCombLoop
-----------------------------------------------------------------------------
\* Where no loop is without a register, some node of any that are no registers
\* has none of them for a driver.
LEMMA TopOfLogic ==
  ASSUME TypeOK, VectorsInv, Abstract!NoCombLoop, NEW S \in SUBSET nodes, S # {},
         \A n \in S : type[n] # "Sequential"
  PROVE  \E n \in S : \A m \in S : m \notin Range(sources[n])
<1>1. S \in SUBSET (nodes \ Abstract!Registers)
  BY DEF Abstract!Registers
<1>2. PICK n \in S : \A m \in S : <<m, n>> \notin edges
  BY <1>1 DEF Abstract!NoCombLoop
<1>3. \A m \in S : n \notin Range(sinks[m])
  BY <1>2, NodesInNode DEF edges
<1> QED
  BY <1>3, NodesInNode DEF VectorsInv, Paired

\* Then the recursion reaches every node: topologicalSort terminates.
LEMMA OrderDefined ==
  ASSUME TypeOK, VectorsInv, Abstract!NoCombLoop
  PROVE  order = [n \in nodes |-> Depth(n, order)]
<1> DEFINE Starts(n) == type[n] \in {"Sequential", "PrimaryIn"} \/ sources[n] = <<>>
           Reached(D) == /\ D \in SUBSET nodes
                         /\ \A n \in D : Starts(n) \/ Range(sources[n]) \subseteq D
                         /\ \E f : f = [n \in D |-> Depth(n, f)]
           left == {Cardinality(nodes \ D) : D \in {D \in SUBSET nodes : Reached(D)}}
<1>1. /\ IsFiniteSet(nodes)
      /\ \A D : IsFiniteSet(nodes \ D) /\ Cardinality(nodes \ D) \in Nat
  <2>1. IsFiniteSet(nodes)
    BY NodesInNode, FS_Interval DEF nodes
  <2> QED
    BY <2>1, FS_Difference, FS_CardinalityType
<1>2. Reached({})
  <2>1. \E f : f = [n \in {} |-> Depth(n, f)]
    <3>1. [n \in {} |-> 0] = [n \in {} |-> Depth(n, [k \in {} |-> 0])]
      OBVIOUS
    <3> QED
      BY <3>1
  <2> QED
    BY <2>1
<1>3. PICK D \in SUBSET nodes : /\ Reached(D)
                                /\ \A E \in SUBSET nodes : Reached(E) =>
                                     Cardinality(nodes \ D) <= Cardinality(nodes \ E)
  <2> HIDE DEF Reached
  <2>1. left \in SUBSET Nat /\ left # {}
    BY <1>1, <1>2
  <2>2. \E i \in left : \A j \in left : i <= j
    <3> HIDE DEF left
    <3> QED
      BY <2>1, NatLeast
  <2> QED
    BY <2>2
<1>4. ASSUME NEW n \in nodes \ D, Starts(n) \/ Range(sources[n]) \subseteq D
      PROVE  FALSE
  <2> DEFINE E == D \cup {n}
  <2>1. PICK f : f = [k \in D |-> Depth(k, f)]
    BY <1>3
  <2> DEFINE g == [k \in E |-> IF k = n THEN Depth(n, f) ELSE f[k]]
  <2>2. \A k \in E : Starts(k) \/ Range(sources[k]) \subseteq D
    BY <1>3, <1>4
  <2>3. ASSUME NEW k \in E PROVE Depth(k, g) = Depth(k, f)
    <3>1. CASE Starts(k)
      BY <3>1 DEF Depth
    <3>2. CASE Range(sources[k]) \subseteq D
      <4>1. \A m \in Range(sources[k]) : g[m] = f[m]
        BY <1>4, <3>2
      <4> HIDE DEF g
      <4>2. {g[m] : m \in Range(sources[k])} = {f[m] : m \in Range(sources[k])}
        BY <4>1
      <4> QED
        BY <4>2 DEF Depth
    <3> QED
      BY <2>2, <2>3, <3>1, <3>2
  <2>4. g = [k \in E |-> Depth(k, g)]
    <3>1. \A k \in E : g[k] = Depth(k, f)
      BY <1>4, <2>1
    <3>2. \A k \in E : g[k] = Depth(k, g)
      BY <2>3, <3>1
    <3> QED
      BY <3>2
  <2>5. Reached(E)
    <3>1. \E h : h = [k \in E |-> Depth(k, h)]
      <4> HIDE DEF g
      <4> QED
        BY <2>4
    <3> QED
      BY <1>3, <2>2, <3>1
  <2> HIDE DEF Reached
  <2>6. Cardinality(nodes \ D) <= Cardinality(nodes \ E)
    BY <1>3, <2>5
  <2>7. nodes \ E = (nodes \ D) \ {n}
    OBVIOUS
  <2>8. Cardinality(nodes \ E) = Cardinality(nodes \ D) - 1
    <3> DEFINE F == nodes \ D
    <3>1. IsFiniteSet(F) /\ n \in F /\ nodes \ E = F \ {n}
      BY <1>1, <1>4, <2>7
    <3> HIDE DEF F, E
    <3>2. Cardinality(F \ {n}) = Cardinality(F) - 1
      BY <3>1, FS_RemoveElement
    <3> QED
      BY <3>1, <3>2 DEF F
  <2> QED
    BY <1>1, <2>6, <2>8
<1>5. D = nodes
  <2> SUFFICES ASSUME D # nodes PROVE FALSE
    OBVIOUS
  <2>1. \A n \in nodes \ D : type[n] # "Sequential"
    BY <1>4
  <2>2. PICK n \in nodes \ D : \A m \in nodes \ D : m \notin Range(sources[n])
    BY <2>1, TopOfLogic
  <2>3. Range(sources[n]) \subseteq nodes
    <3>1. sources[n] \in Seq(nodes)
      BY NodesInNode DEF TypeOK
    <3> QED
      BY <3>1, RangeOfSeq
  <2> QED
    BY <1>4, <2>2, <2>3
<1>6. \E f : f = [n \in nodes |-> Depth(n, f)]
  BY <1>3, <1>5
<1> QED
  BY <1>6, OrderChosen

\* The depth of a node that starts no path is one more than its deepest driver's.
LEMMA OrderSteps ==
  ASSUME TypeOK, VectorsInv, Abstract!NoCombLoop
  PROVE  \A n \in nodes :
           /\ order[n] \in Nat
           /\ \/ order[n] = 0
              \/ /\ type[n] \notin {"Sequential", "PrimaryIn"}
                 /\ \E m \in nodes : /\ m \in Range(sources[n])
                                     /\ order[n] = 1 + order[m]
           /\ type[n] \in {"Sequential", "PrimaryIn"} => order[n] = 0
<1> DEFINE Starts(n) == type[n] \in {"Sequential", "PrimaryIn"} \/ sources[n] = <<>>
<1>1. \A n \in nodes : order[n] = Depth(n, order)
  BY OrderDefined
<1>2. \A n \in nodes : Starts(n) => order[n] = 0
  BY <1>1 DEF Depth
<1>3. ASSUME NEW n \in nodes, ~ Starts(n), \A m \in Range(sources[n]) : order[m] \in Nat
      PROVE  \E m \in nodes : m \in Range(sources[n]) /\ order[n] = 1 + order[m]
  <2> DEFINE R == Range(sources[n])
             above == {order[m] : m \in R}
  <2>1. sources[n] \in Seq(nodes)
    BY NodesInNode DEF TypeOK
  <2>2. R \in SUBSET nodes /\ R # {}
    <3>1. R \in SUBSET nodes
      BY <2>1, RangeOfSeq
    <3>2. sources[n][1] \in R
      <4>1. Len(sources[n]) \in Nat \ {0} /\ DOMAIN sources[n] = 1..Len(sources[n])
        BY <1>3, <2>1, EmptySeq
      <4> QED
        BY <4>1 DEF Range
    <3> QED
      BY <3>1, <3>2
  <2>3. IsFiniteSet(R)
    <3>1. IsFiniteSet(nodes)
      BY NodesInNode, FS_Interval DEF nodes
    <3> QED
      BY <2>2, <3>1, FS_Subset
  <2>4. \E m \in R : \A k \in R : order[k] <= order[m]
    <3> HIDE DEF R
    <3> QED
      BY <1>3, <2>2, <2>3, Largest DEF R
  <2>5. \E d \in above : \A e \in above : e <= d
    BY <2>4
  <2>6. order[n] = 1 + Top(above)
    BY <1>1, <1>3 DEF Depth
  <2> HIDE DEF above
  <2>7. Top(above) \in above
    BY <2>5 DEF Top
  <2> QED
    BY <2>2, <2>6, <2>7 DEF above
<1>4. \A n \in nodes : order[n] \in Nat
  <2> DEFINE S == {n \in nodes : order[n] \notin Nat}
  <2> SUFFICES ASSUME S # {} PROVE FALSE
    OBVIOUS
  <2>1. \A n \in S : ~ Starts(n)
    BY <1>2
  <2>2. PICK n \in S : \A m \in S : m \notin Range(sources[n])
    <3> HIDE DEF S
    <3>1. S \in SUBSET nodes
      BY DEF S
    <3> QED
      BY <2>1, <3>1, TopOfLogic
  <2>3. \A m \in Range(sources[n]) : order[m] \in Nat
    <3>1. sources[n] \in Seq(nodes)
      BY NodesInNode DEF TypeOK
    <3> QED
      BY <2>2, <3>1, RangeOfSeq
  <2>4. PICK m \in nodes : m \in Range(sources[n]) /\ order[n] = 1 + order[m]
    BY <1>3, <2>1, <2>3
  <2> QED
    BY <2>3, <2>4
<1>5. ASSUME NEW n \in nodes, ~ Starts(n)
      PROVE  \E m \in nodes : m \in Range(sources[n]) /\ order[n] = 1 + order[m]
  <2>1. \A m \in Range(sources[n]) : order[m] \in Nat
    <3>1. sources[n] \in Seq(nodes)
      BY NodesInNode DEF TypeOK
    <3> QED
      BY <1>4, <3>1, RangeOfSeq
  <2> QED
    BY <1>3, <1>5, <2>1
<1> QED
  BY <1>2, <1>4, <1>5

\* The target bounds every path
Bounded ==
  \A n \in nodes : /\ order[n] <= targetMaxOrder
                   /\ type[n] = "Combinational" => order[n] < targetMaxOrder

\* A path deeper than the target has a node at it, which is logic: a pass of the
\* marking loop that finds none leaves no such path.
LEMMA SettledBounds ==
  ASSUME TypeOK, VectorsInv, Abstract!NoCombLoop, Abstract!PinRules, Settled
  PROVE  Bounded
<1> DEFINE S == {n \in nodes : type[n] = "Combinational" /\ order[n] >= targetMaxOrder}
<1>1. targetMaxOrder \in Nat /\ targetMaxOrder >= 2
  BY DegreeAssumption DEF targetMaxOrder
<1>2. \A n \in nodes : order[n] \in Nat
  BY OrderSteps
<1>3. \A n \in S : order[n] > targetMaxOrder
  BY <1>1, <1>2 DEF Settled, TooDeep, OfType
<1>4. ASSUME NEW n \in nodes, NEW m \in nodes, m \in Range(sources[n])
      PROVE  type[m] # "PrimaryOut"
  <2>1. n \in Range(sinks[m])
    BY <1>4, NodesInNode DEF VectorsInv, Paired
  <2>2. <<m, n>> \in edges
    BY <2>1, NodesInNode DEF edges
  <2> QED
    BY <2>2 DEF Abstract!PinRules
<1>5. \A m \in nodes : type[m] \in NodeType
  BY NodesInNode DEF TypeOK
<1>6. ASSUME NEW n \in nodes, order[n] > targetMaxOrder
      PROVE  \E m \in S : m \in Range(sources[n])
  <2>1. PICK m \in nodes : m \in Range(sources[n]) /\ order[n] = 1 + order[m]
    BY <1>1, <1>6, OrderSteps
  <2>2. order[m] \in Nat /\ order[m] >= targetMaxOrder
    BY <1>1, <1>2, <1>6, <2>1
  <2>3. type[m] \notin {"Sequential", "PrimaryIn"}
    BY <1>1, <2>2, OrderSteps
  <2>4. type[m] = "Combinational"
    BY <1>4, <1>5, <2>1, <2>3 DEF NodeType
  <2> QED
    BY <2>1, <2>2, <2>4
<1>7. S = {}
  <2> SUFFICES ASSUME S # {} PROVE FALSE
    OBVIOUS
  <2>1. S \in SUBSET nodes /\ \A n \in S : type[n] # "Sequential"
    OBVIOUS
  <2>2. PICK n \in S : \A m \in S : m \notin Range(sources[n])
    <3> HIDE DEF S
    <3> QED
      BY <2>1, TopOfLogic
  <2> HIDE DEF S
  <2> QED
    BY <1>3, <1>6, <2>1, <2>2
<1>8. \A n \in nodes : order[n] <= targetMaxOrder
  <2> HIDE DEF S
  <2> QED
    BY <1>1, <1>2, <1>6, <1>7
<1> QED
  BY <1>1, <1>2, <1>7, <1>8 DEF Bounded

\* Depths are those of the types and the vectors.
LEMMA SameOrder ==
  ASSUME nodeCnt' = nodeCnt, type' = type, sources' = sources
  PROVE  /\ nodes' = nodes /\ order' = order /\ Bounded' = Bounded
<1>1. nodes' = nodes
  BY DEF nodes
<1>2. order' = order
  BY DEF order, nodes
<1> QED
  BY <1>1, <1>2 DEF Bounded, targetMaxOrder

\* Marking ends with no path deeper than the target, and until the first merge
\* no path gets deeper.
THEOREM MarkingBoundsDepth == Spec => []DepthBounded
<1> DEFINE Old == IInv /\ Rewired
<1>1. Init => DepthBounded
  BY DEF Init, DepthBounded
<1>2. Old /\ DepthBounded /\ [Next]_vars => DepthBounded'
  <2> SUFFICES ASSUME Old, DepthBounded, [Next]_vars, pc' = "front", nodeCnt' = MatchedCnt
               PROVE  Bounded'
    BY DEF DepthBounded, Bounded
  <2>1. nodeCnt \in Nat /\ nodeCnt >= MatchedCnt /\ MatchedCnt \in Nat
    BY SizeAssumption DEF IInv, TypeOK
  <2>2. pc = "front" /\ nodeCnt = MatchedCnt => Bounded
    BY DEF DepthBounded, Bounded
  <2>3. CASE EndMarking
    <3>1. Abstract!NoCombLoop /\ Abstract!PinRules
      BY DEF Rewired
    <3>2. Bounded
      BY <2>3, <3>1, SettledBounds DEF EndMarking, IInv
    <3> QED
      BY <2>3, <3>2, SameOrder DEF EndMarking, netlist
  <2>4. CASE pc = "front" /\ UNCHANGED netlist
    BY <2>2, <2>4, SameOrder DEF netlist
  <2>5. CASE \E id \in Bins : VisitBin(id) \/ Overrun(id)
    <3>1. pc = "front" /\ (nodeCnt' = nodeCnt + 1 \/ UNCHANGED netlist)
      BY <2>5 DEF VisitBin, Overrun, Merge, NewRegister, netlist
    <3> QED
      BY <2>1, <2>4, <3>1
  <2>6. CASE NextLength
    BY <2>4, <2>6 DEF NextLength
  <2>7. CASE MarkPass \/ LeaveLoop \/ SplitOff \/ KeepNode \/ Finish
    BY <2>7 DEF MarkPass, LeaveLoop, SplitOff, KeepNode, Finish, merging
  <2>8. CASE UNCHANGED vars
    BY <2>4, <2>8 DEF vars
  <2> QED
    BY <2>3, <2>5, <2>6, <2>7, <2>8 DEF Next
<1> QED
  BY <1>1, <1>2, InitInv, NextInv, RewiringInv, PTL DEF Spec
-----------------------------------------------------------------------------
\* Registers the splitting loop has still to split
Unsplit == {n \in OfType("Sequential") : n >= cur /\ ~ HasMaster(n)}

\* Splitting one off takes it out; the new register behind it, of one input, is
\* none of them, and the other nodes keep their fanins.
LEMMA SplitTakesOne ==
  ASSUME IInv, SplitOff, 1 \in SequFanins
  PROVE  /\ nodeCnt' = nodeCnt + 1
         /\ cur \in Unsplit /\ Unsplit' = Unsplit \ {cur}
<1> DEFINE regs == <<cur>>
<1> PICK c : c = nodeCnt + 1
  OBVIOUS
<1>1. TypeOK /\ VectorsInv /\ Unborn
  BY DEF IInv, VectorsInv
<1>2. /\ cur <= nodeCnt /\ type[cur] = "Sequential" /\ ~ HasMaster(cur)
      /\ nodeCnt < MaxNode /\ NewRegister(regs) /\ MoveBehind(regs, c)
      /\ cur' = cur + 1 /\ nodeCnt' = nodeCnt + 1
  BY DEF SplitOff, NewRegister
<1>3. cur \in nodes /\ cur \in Nat /\ nodeCnt \in Nat
  BY <1>1, <1>2, NodesInNode DEF TypeOK, nodes
<1>4. Pick(regs, nodes) /\ Range(regs) = {cur} /\ Len(regs) = 1
  BY <1>3 DEF Pick, IsInjective, Range
<1> HIDE DEF regs
<1>5. OfType("Sequential")' = (OfType("Sequential") \ {cur}) \cup {c}
  BY <1>1, <1>2, <1>4, Retyped
<1>6. c \in Node \ nodes /\ nodes \in SUBSET Node
  BY <1>1, <1>2, FreshNode
<1>7. Moves(sinks, sources, sinks', sources', regs, c)
  BY <1>1, <1>2, <1>4, BehindMoves
<1>8. /\ Len(sources'[c]) = 1
      /\ \A n \in Node \ {c} : Len(sources'[n]) = Len(sources[n])
  BY <1>4, <1>7 DEF Moves, MovedLengths
<1>9. HasMaster(c)' /\ \A n \in nodes : HasMaster(n)' <=> HasMaster(n)
  BY <1>6, <1>8 DEF HasMaster
<1>10. cur \in OfType("Sequential") /\ OfType("Sequential") \subseteq nodes
  BY <1>2, <1>3 DEF OfType
<1>11. cur \in Unsplit
  BY <1>2, <1>3, <1>10 DEF Unsplit
<1>12. \A n \in nodes : n \in Nat
  BY DEF nodes
<1>13. ASSUME NEW n PROVE n \in Unsplit' <=> n \in Unsplit \ {cur}
  <2>1. n \in Unsplit' <=> n \in OfType("Sequential")' /\ n >= cur + 1 /\ ~ HasMaster(n)'
    BY <1>2 DEF Unsplit
  <2>2. CASE n = c
    BY <1>6, <1>9, <1>10, <2>1, <2>2 DEF Unsplit
  <2>3. CASE n # c
    <3>1. n \in OfType("Sequential") => (n >= cur + 1 <=> n >= cur /\ n # cur)
      BY <1>3, <1>10, <1>12
    <3>2. n \in OfType("Sequential") => (HasMaster(n)' <=> HasMaster(n))
      BY <1>9, <1>10
    <3> QED
      BY <1>5, <2>1, <2>3, <3>1, <3>2 DEF Unsplit
  <2> QED
    BY <2>2, <2>3
<1> QED
  BY <1>2, <1>11, <1>13

\* A node the loop keeps is none of them.
LEMMA KeepTakesNone ==
  ASSUME IInv, KeepNode
  PROVE  Unsplit' = Unsplit /\ nodeCnt' = nodeCnt /\ cur' = cur + 1 /\ cur <= nodeCnt
<1>1. /\ nodeCnt' = nodeCnt /\ type' = type /\ sources' = sources /\ cur' = cur + 1
      /\ cur <= nodeCnt /\ (type[cur] = "Sequential" => HasMaster(cur))
  BY DEF KeepNode, netlist
<1>2. nodes' = nodes /\ OfType("Sequential")' = OfType("Sequential")
  BY <1>1 DEF nodes, OfType
<1>3. \A n \in OfType("Sequential") : /\ n \in Nat /\ type[n] = "Sequential"
                                      /\ HasMaster(n)' <=> HasMaster(n)
  BY <1>1 DEF OfType, nodes, HasMaster
<1>4. cur \in Nat
  BY DEF IInv, TypeOK
<1>5. ASSUME NEW n \in OfType("Sequential")
      PROVE  n >= cur + 1 /\ ~ HasMaster(n)' <=> n >= cur /\ ~ HasMaster(n)
  <2>1. ~ HasMaster(n) => n # cur
    BY <1>1, <1>3
  <2> QED
    BY <1>3, <1>4, <2>1
<1>6. Unsplit' = Unsplit
  BY <1>1, <1>2, <1>5 DEF Unsplit
<1> QED
  BY <1>1, <1>6

\* Marking creates no node. A merge creates one and leaves one register less; a
\* split creates one and leaves one register less to be split.
Room ==
  /\ pc = "mark" => nodeCnt = MatchedCnt
  /\ pc \in {"front", "back"} => nodeCnt + numSequ <= 2 * MatchedCnt
  /\ pc \in {"split", "done"} => nodeCnt + Cardinality(Unsplit) <= 2 * MatchedCnt
  /\ pc \in Undefined => nodeCnt <= 2 * MatchedCnt

\* What is left to be split are registers.
LEMMA UnsplitCounted ==
  ASSUME TypeOK
  PROVE  /\ IsFiniteSet(Unsplit) /\ Cardinality(Unsplit) \in Nat
         /\ Cardinality(Unsplit) <= Cardinality(OfType("Sequential"))
<1>1. IsFiniteSet(OfType("Sequential")) /\ Unsplit \in SUBSET OfType("Sequential")
  BY FiniteTypes DEF Unsplit
<1> QED
  BY <1>1, FS_Subset, FS_CardinalityType

LEMMA NextRoom ==
  ASSUME 1 \in SequFanins, IInv, Room, [Next]_vars
  PROVE  Room'
<1>1. TypeOK /\ TablesExact
  BY DEF IInv
<1>2. /\ nodeCnt \in Nat /\ MatchedCnt \in Nat /\ numSequ \in Int
      /\ Cardinality(OfType("Sequential")) \in Nat /\ Cardinality(Unsplit) \in Nat
      /\ IsFiniteSet(Unsplit) /\ Cardinality(Unsplit) <= Cardinality(OfType("Sequential"))
  BY <1>1, NodesInNode, FiniteTypes, UnsplitCounted, SizeAssumption DEF TypeOK
<1>3. ASSUME UNCHANGED <<nodeCnt, type, sources, cur>>
      PROVE  UNCHANGED <<nodeCnt, Unsplit>>
  BY <1>3 DEF Unsplit, OfType, nodes, HasMaster
<1>4. CASE MarkPass
  BY <1>4 DEF MarkPass, Room, Undefined
<1>5. CASE EndMarking
  <2>1. /\ pc = "mark" /\ pc' = "front" /\ nodeCnt' = nodeCnt
        /\ numSequ' = Cardinality(OfType("Sequential"))
    BY <1>5 DEF EndMarking, netlist
  <2>2. /\ OfType("Sequential") \in SUBSET nodes
        /\ IsFiniteSet(nodes) /\ Cardinality(nodes) = nodeCnt
    <3>1. IsFiniteSet(1..nodeCnt)
      BY <1>2, FS_Interval
    <3>2. Cardinality(1..nodeCnt) = nodeCnt
      BY <1>2, FS_Interval
    <3> QED
      BY <3>1, <3>2 DEF OfType, nodes
  <2>3. Cardinality(OfType("Sequential")) <= nodeCnt
    BY <2>2, FS_Subset
  <2>4. nodeCnt = MatchedCnt
    BY <2>1 DEF Room, Undefined
  <2>5. nodeCnt + Cardinality(OfType("Sequential")) <= 2 * MatchedCnt
    BY <1>2, <2>3, <2>4
  <2> QED
    BY <2>1, <2>5 DEF Room, Undefined
<1>6. CASE \E id \in Bins : Overrun(id)
  <2>1. pc \in {"front", "back"} /\ pc' \in Undefined /\ nodeCnt' = nodeCnt
    BY <1>6 DEF Overrun, netlist, Undefined
  <2>2. nodeCnt + Cardinality(OfType("Sequential")) <= 2 * MatchedCnt
    BY <1>1, <2>1 DEF Room, TablesExact, Undefined
  <2>3. nodeCnt <= 2 * MatchedCnt
    BY <1>2, <2>2
  <2> QED
    BY <2>1, <2>3 DEF Room, Undefined
<1>13. CASE \E id \in Bins : VisitBin(id)
  <2>1. /\ pc \in {"front", "back"} /\ pc' = pc
        /\ \/ nodeCnt' = nodeCnt + 1 /\ numSequ' = numSequ - 1
           \/ nodeCnt' = nodeCnt /\ numSequ' = numSequ
    BY <1>13 DEF VisitBin, Merge, NewRegister, netlist
  <2>2. nodeCnt + numSequ <= 2 * MatchedCnt
    BY <2>1 DEF Room, Undefined
  <2>3. nodeCnt' + numSequ' <= 2 * MatchedCnt
    <3>1. CASE nodeCnt' = nodeCnt + 1 /\ numSequ' = numSequ - 1
      <4>1. PICK n, k : n = nodeCnt' /\ k = numSequ'
        OBVIOUS
      <4>2. n + k = nodeCnt + numSequ
        BY <1>2, <3>1, <4>1
      <4> QED
        BY <2>2, <4>1, <4>2
    <3> QED
      BY <2>1, <2>2, <3>1
  <2> QED
    BY <2>1, <2>3 DEF Room, Undefined
<1>7. CASE NextLength
  BY <1>7 DEF NextLength, Room, netlist, Undefined
<1>8. CASE LeaveLoop
  <2>1. /\ pc \in {"front", "back"} /\ pc' = (IF pc = "front" THEN "back" ELSE "split")
        /\ UNCHANGED <<nodeCnt, type, sources, cur, numSequ>>
    BY <1>8 DEF LeaveLoop, netlist
  <2>2. nodeCnt + numSequ <= 2 * MatchedCnt
    BY <2>1 DEF Room, Undefined
  <2>3. nodeCnt + Cardinality(Unsplit) <= 2 * MatchedCnt
    <3>1. numSequ = Cardinality(OfType("Sequential"))
      BY <1>1, <2>1 DEF TablesExact
    <3> QED
      BY <1>2, <2>2, <3>1
  <2>4. UNCHANGED <<nodeCnt, Unsplit>>
    BY <1>3, <2>1
  <2> QED
    BY <2>1, <2>2, <2>3, <2>4 DEF Room, Undefined
<1>9. CASE SplitOff
  <2>1. /\ nodeCnt' = nodeCnt + 1 /\ cur \in Unsplit /\ Unsplit' = Unsplit \ {cur}
        /\ pc = "split" /\ pc' = "split"
    BY <1>9, SplitTakesOne DEF SplitOff
  <2>2. Cardinality(Unsplit \ {cur}) = Cardinality(Unsplit) - 1
    BY <1>2, <2>1, FS_RemoveElement
  <2>3. nodeCnt + Cardinality(Unsplit) <= 2 * MatchedCnt
    BY <2>1 DEF Room, Undefined
  <2>4. nodeCnt + 1 + Cardinality(Unsplit \ {cur}) <= 2 * MatchedCnt
    BY <1>2, <2>2, <2>3
  <2> QED
    BY <2>1, <2>4 DEF Room, Undefined
<1>10. CASE KeepNode
  BY <1>10, KeepTakesNone DEF KeepNode, Room, Undefined
<1>11. CASE Finish
  <2>1. pc = "split" /\ pc' = "done" /\ UNCHANGED <<nodeCnt, type, sources, cur>>
    BY <1>11 DEF Finish, netlist
  <2> QED
    BY <1>3, <2>1 DEF Room, Undefined
<1>12. CASE UNCHANGED vars
  <2>1. UNCHANGED <<nodeCnt, type, sources, cur, numSequ, pc>>
    BY <1>12 DEF vars, netlist, merging
  <2> QED
    BY <1>3, <2>1 DEF Room, Undefined
<1> QED
  BY <1>4, <1>5, <1>6, <1>7, <1>8, <1>9, <1>10, <1>11, <1>12, <1>13 DEF Next

\* A loop is about to create a node: a pair of registers fits, or one is to be split.
AboutToCreate ==
  \/ /\ pc \in {"front", "back"}
     /\ \E id \in Bins : Pairs(id) # {}
  \/ pc = "split" /\ cur <= nodeCnt /\ type[cur] = "Sequential" /\ ~ HasMaster(cur)

NeverFull ==
  /\ nodeCnt <= 2 * MatchedCnt
  /\ AboutToCreate => nodeCnt < 2 * MatchedCnt

\* If the library has a register of one input, nodes_ never grows to more than twice
\* what matching left, and there is room for every node the loops want to create:
\* with MaxNode at that size the bound keeps no step of the code from happening.
THEOREM RoomForEveryNode == 1 \in SequFanins => (Spec => []NeverFull)
<1> SUFFICES ASSUME 1 \in SequFanins PROVE Spec => []NeverFull
  OBVIOUS
<1>1. Init => Room
  BY DEF Init, Room, Undefined
<1>2. IInv /\ Room /\ [Next]_vars => Room'
  BY NextRoom
<1>3. IInv /\ Room => NeverFull
  <2> SUFFICES ASSUME IInv, Room
               PROVE  nodeCnt <= 2 * MatchedCnt /\ (AboutToCreate => nodeCnt < 2 * MatchedCnt)
    BY DEF NeverFull
  <2>1. TypeOK /\ TablesExact
    BY DEF IInv
  <2>2. /\ nodeCnt \in Nat /\ MatchedCnt \in Nat
        /\ IsFiniteSet(OfType("Sequential")) /\ Cardinality(OfType("Sequential")) \in Nat
        /\ IsFiniteSet(Unsplit) /\ Cardinality(Unsplit) \in Nat
    BY <2>1, NodesInNode, FiniteTypes, UnsplitCounted, SizeAssumption DEF TypeOK
  <2>3. CASE pc = "mark"
    BY <2>2, <2>3 DEF Room, AboutToCreate, Undefined
  <2>4. CASE pc \in {"front", "back"}
    <3>1. nodeCnt + Cardinality(OfType("Sequential")) <= 2 * MatchedCnt
      BY <2>1, <2>4 DEF Room, TablesExact, Undefined
    <3>2. AboutToCreate => Cardinality(OfType("Sequential")) # 0
      <4> SUFFICES ASSUME AboutToCreate PROVE OfType("Sequential") # {}
        BY <2>2, FS_EmptySet
      <4>1. PICK id \in Bins : Pairs(id) # {}
        BY <2>4 DEF AboutToCreate
      <4>2. PICK regs \in Pairs(id) : TRUE
        BY <4>1
      <4>3. Pick(regs, nodes) /\ \A r \in Range(regs) : type[r] = "Sequential"
        BY <2>1, <2>4, PairPicked
      <4>4. regs[1] \in Range(regs) /\ regs[1] \in nodes
        BY <4>3, PickRange
      <4> QED
        BY <4>3, <4>4 DEF OfType
    <3> QED
      BY <2>2, <3>1, <3>2
  <2>5. CASE pc \in {"split", "done"}
    <3>1. nodeCnt + Cardinality(Unsplit) <= 2 * MatchedCnt
      BY <2>5 DEF Room, Undefined
    <3>2. AboutToCreate => Cardinality(Unsplit) # 0
      <4> SUFFICES ASSUME AboutToCreate PROVE Unsplit # {}
        BY <2>2, FS_EmptySet
      <4>1. cur <= nodeCnt /\ type[cur] = "Sequential" /\ ~ HasMaster(cur) /\ cur \in Nat \ {0}
        BY <2>1, <2>5 DEF AboutToCreate, TypeOK
      <4> QED
        BY <2>2, <4>1 DEF Unsplit, OfType, nodes
    <3> QED
      BY <2>2, <3>1, <3>2
  <2>6. CASE pc \in Undefined
    BY <2>6 DEF Room, AboutToCreate, Undefined
  <2> QED
    BY <2>1, <2>3, <2>4, <2>5, <2>6 DEF TypeOK
<1> QED
  BY <1>1, <1>2, <1>3, InitInv, NextInv, PTL DEF Spec

\* The stages of the construction, in their order
Stage == CASE pc = "mark" -> 0 [] pc = "front" -> 1 [] pc = "back" -> 2
           [] pc = "split" -> 3 [] pc \in {"done"} \cup Undefined -> 4

\* How a stage runs out: logic becomes registers, the bins of a length are visited and
\* the lengths go by, the registers to be split become fewer, or the node looked at is
\* a later one of a list that did not grow.
RunsOut ==
  CASE pc = "mark" -> OfType("Combinational")' \subseteq OfType("Combinational")
                      /\ OfType("Combinational")' # OfType("Combinational")
    [] pc \in {"front", "back"} ->
         \/ edgeLength' = edgeLength /\ todo' \subseteq todo /\ todo' # todo
         \/ edgeLength < edgeLength' /\ edgeLength' < Lengths
    [] pc = "split" ->
         \/ Unsplit' \subseteq Unsplit /\ Unsplit' # Unsplit
         \/ UNCHANGED <<Unsplit, nodeCnt>> /\ cur < cur' /\ cur' <= nodeCnt + 1
    [] pc \in {"done"} \cup Undefined -> FALSE

\* What Terminates rests on: no step of the loops can be undone or repeated, because each
\* begins a later stage or takes something of a finite stock the stage runs out of. The
\* splitting loop is the one that adds to the list it walks.
THEOREM StagesRunOut ==
  1 \in SequFanins => (Spec => [][Stage' > Stage \/ (pc' = pc /\ RunsOut)]_vars)
<1> SUFFICES ASSUME 1 \in SequFanins
             PROVE  Spec => [][Stage' > Stage \/ (pc' = pc /\ RunsOut)]_vars
  OBVIOUS
<1>1. IInv /\ [Next]_vars => [Stage' > Stage \/ (pc' = pc /\ RunsOut)]_vars
  <2> SUFFICES ASSUME IInv, Next PROVE Stage' > Stage \/ (pc' = pc /\ RunsOut)
    OBVIOUS
  <2>1. CASE MarkPass
    <3>1. /\ pc = "mark" /\ pc' = "mark" /\ TooDeep # {} /\ nodeCnt' = nodeCnt
          /\ type' = [n \in Node |-> IF n \in TooDeep THEN "Sequential" ELSE type[n]]
      BY <2>1 DEF MarkPass
    <3>2. nodes' = nodes /\ nodes \subseteq Node
      BY <3>1, NodesInNode DEF nodes, IInv
    <3>3. TooDeep \subseteq OfType("Combinational")
      BY DEF TooDeep
    <3>4. OfType("Combinational")' = OfType("Combinational") \ TooDeep
      <4> HIDE DEF TooDeep
      <4> QED
        BY <3>1, <3>2, <3>3 DEF OfType
    <3> HIDE DEF TooDeep
    <3> QED
      BY <3>1, <3>3, <3>4 DEF RunsOut, Undefined
  <2>2. CASE EndMarking
    BY <2>2 DEF EndMarking, Stage, Undefined
  <2>3. CASE \E id \in Bins : VisitBin(id)
    BY <2>3 DEF VisitBin, RunsOut, Undefined
  <2>9. CASE \E id \in Bins : Overrun(id)
    BY <2>9 DEF Overrun, Stage, Undefined
  <2>4. CASE NextLength
    <3>1. edgeLength < edgeLength + 1
      BY DEF IInv, TypeOK
    <3> QED
      BY <2>4, <3>1 DEF NextLength, RunsOut, Undefined
  <2>5. CASE LeaveLoop
    BY <2>5 DEF LeaveLoop, Stage, Undefined
  <2>6. CASE SplitOff
    <3>1. cur \in Unsplit /\ Unsplit' = Unsplit \ {cur} /\ pc = "split" /\ pc' = "split"
      BY <2>6, SplitTakesOne DEF SplitOff
    <3> QED
      BY <3>1 DEF RunsOut, Undefined
  <2>7. CASE KeepNode
    <3>1. /\ Unsplit' = Unsplit /\ nodeCnt' = nodeCnt /\ cur' = cur + 1 /\ cur <= nodeCnt
          /\ pc = "split" /\ pc' = "split"
      BY <2>7, KeepTakesNone DEF KeepNode
    <3>2. cur < cur + 1 /\ cur + 1 <= nodeCnt + 1
      BY <3>1, NodesInNode DEF IInv, TypeOK
    <3> QED
      BY <3>1, <3>2 DEF RunsOut, Undefined
  <2>8. CASE Finish
    BY <2>8 DEF Finish, Stage, Undefined
  <2> QED
    BY <2>1, <2>2, <2>3, <2>4, <2>5, <2>6, <2>7, <2>8, <2>9 DEF Next
<1> QED
  BY <1>1, InitInv, NextInv, PTL DEF Spec
=============================================================================
