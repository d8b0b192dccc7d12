---------------------------- MODULE MCAcquisition ----------------------------
(* One credential with two models: its tasks compete for its limit.         *)
EXTENDS Acquisition, TLC

CONSTANTS k1, k2, a1, i1, j1, t1, t2, t3

MCAuthOf == (k1 :> a1) @@ (k2 :> a1)
MCAuthOfOne == (k1 :> a1)
Symmetry == Permutations(Keys) \cup Permutations(Tasks)
==============================================================================
