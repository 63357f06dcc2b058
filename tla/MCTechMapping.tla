---------------------------- MODULE MCTechMapping ----------------------------
(***************************************************************************)
(* One primary input, two logic nodes, one register, two primary outputs,  *)
(* and masters like those of a small library: more than one for a kind,    *)
(* two outputs, registers with two clock or reset pins.                    *)
(***************************************************************************)
EXTENDS TechMapping

MCType == <<"PrimaryIn", "Combinational", "Combinational", "Sequential",
            "PrimaryOut", "PrimaryOut">>

Library ==
  [INV  |-> [ins |-> 1, outs |-> 1, clks |-> 0, rsts |-> 0, share |-> 75],
   BUF  |-> [ins |-> 1, outs |-> 1, clks |-> 0, rsts |-> 0, share |-> 25],
   HA   |-> [ins |-> 2, outs |-> 2, clks |-> 0, rsts |-> 0, share |-> 50],
   DFF  |-> [ins |-> 1, outs |-> 2, clks |-> 2, rsts |-> 0, share |-> 50],
   DFFR |-> [ins |-> 2, outs |-> 1, clks |-> 1, rsts |-> 2, share |-> 50]]

MCMasters == <<"INV", "BUF", "HA", "DFF", "DFFR">>
MCIns == [m \in DOMAIN Library |-> Library[m].ins]
MCOuts == [m \in DOMAIN Library |-> Library[m].outs]
MCClks == [m \in DOMAIN Library |-> Library[m].clks]
MCRsts == [m \in DOMAIN Library |-> Library[m].rsts]
MCShare == [m \in DOMAIN Library |-> Library[m].share]

\* Drivers of a node: one or two for a gate, three (which no master has) for
\* one of them, one for an output, which may also
\* have been left without; no loop without a register.
Drivers(n, least, most) ==
  {D \in SUBSET (1..4) : n \notin D /\ Cardinality(D) \in least..most}

MCNetlists ==
  {UNION {D[n] \X {n} : n \in 2..6} :
     D \in {f \in [2..6 -> SUBSET (1..4)] :
              /\ \A n \in 2..4 : f[n] \in Drivers(n, 1, IF n = 3 THEN 3 ELSE 2)
              /\ ~ (2 \in f[3] /\ 3 \in f[2])
              /\ f[5] \in Drivers(5, 0, 1)
              /\ f[6] \in Drivers(6, 1, 1)}}
=============================================================================
