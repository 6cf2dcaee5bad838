---------------------------- MODULE MCGobiClient ----------------------------
(* Files are alike: TLC may permute them. *)
EXTENDS GobiInvariants, TLC
Symmetry == Permutations(Files)
=============================================================================
