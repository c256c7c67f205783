------------------------------- MODULE MCNearcade ------------------------------
(***************************************************************************)
(* TLC instance of the composed system.  Connections are interchangeable:  *)
(* no action compares them except with NULL and with each other for        *)
(* equality, so the safety runs use their permutations as symmetry.        *)
(***************************************************************************)
EXTENDS Nearcade

ConnectionSymmetry == Permutations(Wsi)

================================================================================
