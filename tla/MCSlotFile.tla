----------------------------- MODULE MCSlotFile -----------------------------
(* One key, and tokens issued one after the other.                         *)
EXTENDS SlotFile, TLC

CONSTANTS s1, l1, i1, k1, h1, w

MCIssued == (s1 :> 0) @@ (l1 :> 1)
=============================================================================
