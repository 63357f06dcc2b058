---------------------------- MODULE MCWriteSpec ------------------------------
(***************************************************************************)
(* Three gates, a register (4), an input (5) and an output port (6).  Some *)
(* designs vary places and cores, with places far outside the core, and    *)
(* the kinds of terms, with one gate that has an input more than the file  *)
(* has lines for; the others vary the nets, with loops of logic and gates  *)
(* that one driver feeds twice.                                            *)
(***************************************************************************)
EXTENDS WriteSpec

Net(outs, others, ins, ctl, ports) ==
  [outs |-> outs, others |-> others, ins |-> ins, ctl |-> ctl, ports |-> ports]
None == <<0, 0, 0, 0>>

\* From cores of no size to one larger than the layout, and a place outside it
Cores == {<<0, 0>>, <<3, 4>>, <<2, 2>>, <<6, 5>>}
Corners(w, h) == {<<0, 0>>, <<w, h>>, <<w \div 2, h \div 2>>}
Pad(h) == <<-3, h + 4>>
Placed ==
  UNION {{[at |-> <<p, q, <<0, c[2]>>, <<0, 0>>>>, width |-> c[1], height |-> c[2],
           nets |-> <<p1, p2, Net({}, {}, <<x, 0, 1, 0>>, <<1, 1, 0, 0>>, {5})>>] :
             p \in Corners(c[1], c[2]) \cup {Pad(c[2])}, q \in {<<c[1], c[2]>>, <<c[1], 0>>},
             p1 \in {Net({1}, {}, <<0, y, 1, 0>>, s, {6}) :
                       y \in 0..2, s \in {None, <<0, 0, 2, 1>>}},
             p2 \in {Net({i}, {}, <<1, 0, z, 0>>, None, {}) : i \in 1..2, z \in 0..2}
                  \cup {Net(o[1], o[2], <<1, 0, 1, 0>>, None, {}) :
                           o \in {<<{1, 2}, {}>>, <<{2}, {3}>>, <<{2}, {2}>>, <<{}, {2}>>}},
             x \in 0..1} : c \in Cores}

\* Everything at one place, and nets of all shapes the candidates leave
Wired ==
  LET Load(S, k) == [j \in 1..4 |-> IF j \in S THEN k ELSE 0]
      Drive(i, ins, ports) == Net({i}, {}, ins, None, ports)
  IN  {[at |-> [i \in 1..4 |-> <<0, 0>>], width |-> 4, height |-> 4,
        nets |-> <<Drive(1, Load(a, k), {}), Drive(2, Load(b, 1), {}),
                   Drive(3, Load(c, 1), p), Drive(4, Load(e, 1), {}),
                   Net({}, {}, Load(f, 1), None, {5})>>] :
          a \in SUBSET {2, 3, 4}, k \in 1..2, b \in SUBSET {1, 3}, c \in SUBSET {2, 4},
          e \in SUBSET {1, 2}, f \in SUBSET {1, 2}, p \in {{}, {6}}}

MCDesigns == Placed \cup Wired
=============================================================================
