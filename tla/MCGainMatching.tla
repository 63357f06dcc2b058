--------------------------- MODULE MCGainMatching ---------------------------
(***************************************************************************)
(* Six nodes on a 2 x 2 layout, the last bin of which stays empty, placed  *)
(* two to a bin in order of creation and typed as setPrimaryIO does for    *)
(* one input and one output: the output is found in the last bin but one.  *)
(***************************************************************************)
EXTENDS GainMatching, TLC

MCNode == 1..6
MCX == <<0, 0, 1, 1, 0, 0>>
MCY == <<0, 0, 0, 0, 1, 1>>
MCAddr == <<10, 20, 40, 30, 60, 50>>
MCType == <<"PrimaryIn", "Combinational", "Combinational", "Combinational",
            "Combinational", "PrimaryOut">>
MCFaninTarget == 0 :> 2 @@ 1 :> 2 @@ 2 :> 3
MCFanoutTarget == 0 :> 1 @@ 1 :> 4 @@ 2 :> 2 @@ 3 :> 0
MCBboxTarget == 0 :> 1 @@ 1 :> 4 @@ 2 :> 2 @@ 3 :> 0 @@ 4 :> 0
MCEdgeTarget == 0 :> 2 @@ 1 :> 5 @@ 2 :> 1 @@ 3 :> 0 @@ 4 :> 0
=============================================================================
