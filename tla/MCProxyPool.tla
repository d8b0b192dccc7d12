----------------------------- MODULE MCProxyPool -----------------------------
(* Pools of up to four entries.                                            *)
EXTENDS ProxyPool, TLC

CONSTANTS x, y, z, t, u, v, a1, w1, p1

Empty == [enabled |-> TRUE, revision |-> 0, entries |-> [id \in Ids |-> NoEntry]]

\* One entry that an earlier process saved.
MCFileOne == {[Empty EXCEPT !.entries[x] = NewEntry(u, TRUE, rotating)] : rotating \in BOOLEAN}

\* Every entry in use.
MCFileFull ==
    {[Empty EXCEPT !.entries = [id \in Ids |-> NewEntry(u, TRUE, FALSE)]]}

IdSymmetry == Permutations(Ids)
==============================================================================
