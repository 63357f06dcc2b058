---------------------------- MODULE MCSpecFile -------------------------------
(***************************************************************************)
(* Lines by hand, up to three in any order, counts by hand that give       *)
(* layouts of up to three by three bins, with fewer and with more pins     *)
(* than a row holds, and created files for 1 to 10 instances, the layouts  *)
(* of which have one, two and four bins.                                   *)
(* The tables of averages are all the monotone ones on four lambdas, with  *)
(* a tolerance that single steps fall inside of, jump over, or just meet.  *)
(***************************************************************************)
EXTENDS SpecFile

MCInstanceCnts == 2..20 \cup {37, 50}
MCAverages == {f \in [Grid -> 0..5] : Monotone(f, TRUE) \/ Monotone(f, FALSE)}
=============================================================================
