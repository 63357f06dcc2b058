----------------------------- MODULE MCOpenRoad -----------------------------
(***************************************************************************)
(* A module with a flip-flop between its nets c1 and c2, in a top module   *)
(* with a buffer, an input port on t1 and an output port on t2: all ways   *)
(* to bind the module's ports to the nets outside, to leave them open, to  *)
(* let one net have several ports, with a constant net or none.  Two LEF   *)
(* and two liberty libraries have the buffer, one of each the flip-flop.   *)
(* In one more design t2 is a net of a module within the module: it joins  *)
(* c1, which has a port, with c2, which has none.                          *)
(***************************************************************************)
EXTENDS OpenRoad, TLC

CONSTANTS ff, buf, t1, t2, c1, c2, in, out

MCMacros == "lef1" :> {"BUF"} @@ "lef2" :> {"BUF", "DFF"}
MCLibertyCells == "slow" :> {"BUF", "DFF"} @@ "fast" :> {"BUF"}

MCDesign(order, binds, supply, net) ==
  [cell |-> ff :> "DFF" @@ buf :> "BUF",
   nets |-> order \o <<c1, c2>>, top |-> {t1, t2}, binds |-> binds, supply |-> supply,
   pinNet |-> <<ff, "A">> :> c1 @@ <<ff, "Z">> :> c2 @@ <<buf, "A">> :> net @@ <<buf, "Z">> :> t2,
   portNet |-> in :> t1 @@ out :> t2]

MCNested ==
  [cell |-> ff :> "DFF" @@ buf :> "BUF",
   nets |-> <<t1, c1, c2, t2>>, top |-> {t1}, supply |-> {},
   binds |-> {<<c1, t1>>, <<t2, c1>>, <<t2, c2>>},
   pinNet |-> <<ff, "A">> :> c1 @@ <<ff, "Z">> :> c2 @@ <<buf, "A">> :> t1 @@ <<buf, "Z">> :> t2,
   portNet |-> in :> t1 @@ out :> t1]

MCDesigns ==
  {MCNested} \cup
  {MCDesign(order, binds, supply, net) :
     order \in {<<t1, t2>>, <<t2, t1>>},
     binds \in {b \in SUBSET ({c1, c2} \X {t1, t2, NoNet}) : Cardinality(b) <= 3},
     supply \in {{}, {t1}, {c2}}, net \in {t1, t2}}

MCEditDesigns == {MCDesign(<<t1, t2>>, {<<c1, t1>>, <<c2, t2>>}, {}, t1)}
=============================================================================
