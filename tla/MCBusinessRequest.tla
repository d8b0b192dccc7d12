-------------------------- MODULE MCBusinessRequest --------------------------
(* Two credentials with one model each; the account of the first may change. *)
EXTENDS BusinessRequest, TLC

CONSTANTS k1, k2, a1, a2, i1, j1, i2, s1, l1, l2, r1, r2

MCAuthOf == (k1 :> a1) @@ (k2 :> a2)
MCAuthOfOne == k1 :> a1
MCAccountOfOne == (i1 :> a1) @@ (j1 :> a1)
MCAccountOfTwo == (i1 :> a1) @@ (i2 :> a2)
MCAccountOfSingle == i1 :> a1

\* Both tokens minted at once, or the 332 after the 292.
MCIssuedTogether == (l1 :> 0) @@ (s1 :> 0)
MCIssuedInTurn == (s1 :> 0) @@ (l1 :> 1)

Symmetry == Permutations(Requests)
==============================================================================
