----------------------------- MODULE MCScheduler -----------------------------
(* Two models of one credential that share a single slot; business requests *)
(* use the first, which the dashboard may also deselect.                    *)
EXTENDS Scheduler, TLC

CONSTANTS k1, k2

MCRank == (k1 :> 1) @@ (k2 :> 2)
MCSelections == {{k1, k2}, {k2}}
==============================================================================
