-------------------------------- MODULE MCFTL --------------------------------
(* Model-checking instances of FTL. *)
EXTENDS FTL, TLC

(* Logical pages are interchangeable: no definition tells two of them      *)
(* apart.  Used by the safety runs only.                                   *)
LpnSymmetry == Permutations(Lpns)
=============================================================================
