------------------------------ MODULE MCMbimProxy ------------------------------
(* Model checking MbimProxy: no action and no invariant tells two connections  *)
(* apart, so the safety runs take states up to a renaming of the connections.  *)
EXTENDS MbimProxy, TLC

ConnSymmetry == Permutations(Conns)
=============================================================================
