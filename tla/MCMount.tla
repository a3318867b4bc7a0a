------------------------------ MODULE MCMount ------------------------------
(* Two devices that are alike.                                             *)
EXTENDS Mount
CONSTANTS d1, d2
MCSymmetry == Permutations(Devices)
=============================================================================
