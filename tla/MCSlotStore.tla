----------------------------- MODULE MCSlotStore -----------------------------
(* A small store: two 292 and two 332 tokens issued in the order s1, l1,   *)
(* s2, l2, one key, and an account whose identity can change.              *)
EXTENDS SlotStore, TLC

CONSTANTS s1, s2, l1, l2, i1, i2, k1

MCIssued == (s1 :> 0) @@ (l1 :> 1) @@ (s2 :> 2) @@ (l2 :> 3)
MCSelections == {{}, {i1}, {i2}}
MCSelectionsAny == {{i1, i2}}
==============================================================================
