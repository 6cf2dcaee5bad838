------------------------------ MODULE MCQmiProxy -------------------------------
(* Model checking QmiProxy: the run with faults takes states up to a renaming of the *)
(* connections, which no action and no invariant tells apart.                   *)
EXTENDS QmiProxy, TLC

ConnSymmetry == Permutations(Conns)
=============================================================================
