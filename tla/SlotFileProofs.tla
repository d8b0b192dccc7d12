---------------------------- MODULE SlotFileProofs ----------------------------
(***************************************************************************)
(* Theorems about SlotFile, for any keys, tokens, options, number of hooks *)
(* and bounds.  What the file holds is settled by revisions alone, and     *)
(* only one goroutine writes at a time; that holds whatever the lifecycle  *)
(* calls do (Typed, Ordered).  That memory and file agree needs a quiet    *)
(* plugin while it is configured (Agreed), and so does that nothing comes  *)
(* back that was rejected (Gone).                                          *)
(***************************************************************************)
EXTENDS SlotFile, TurnSlotsProofs

Writing(f) == flush[f].step = "write"

\* TypeOK, and what configure read is there when it is used.
Typed ==
    /\ TypeOK
    /\ phase \in {"standby", "join"} => read.active \in Pairs
    /\ phase = "join" => read.standby \in Pairs

\* The file is at most as new as memory, and a copy that is being written at
\* least as new as the file; there is one such copy at most.
Ordered ==
    /\ written <= revision /\ saved <= revision
    /\ \A f \in Flushers :
          Writing(f) => written <= flush[f].revision /\ flush[f].revision <= revision
    /\ \A f, g \in Flushers : Writing(f) /\ Writing(g) => f = g

----------------------------------------------------------------------------
(* Types.                                                                  *)

\* A goroutine that flushes is at some point of its way.
LEMMA FlushTyped ==
    /\ Rest \in Flush
    /\ [Rest EXCEPT !.step = "check"] \in Flush
    /\ \A again \in BOOLEAN : [Rest EXCEPT !.step = "save", !.again = again] \in Flush
    /\ \A r \in Flush : r.step # "write" => [r EXCEPT !.step = "save"] \in Flush
    /\ \A r \in Flush, s \in Pairs, n \in Nat :
          [r EXCEPT !.step = "write", !.snapshot = s, !.revision = n] \in Flush
  BY DEF Flush, Rest

\* No slots are pairs, too.
LEMMA EmptyTyped == Empty \in Pairs
  BY DEF Empty, EmptyPair, Pairs, Pair, Slot

\* A change of one key keeps the pairs typed.
LEMMA ChangeTyped ==
    ASSUME slots \in Pairs, revision \in Nat, NEW k \in Keys, NEW q \in Pair, Change(k, q)
    PROVE  slots' \in Pairs /\ revision' \in Nat
  BY DEF Change, Pairs

\* A merge keeps or takes slots, and drops some.
LEMMA MergeTyped ==
    ASSUME Typed, Merge
    PROVE  slots' \in Pairs /\ revision' \in Nat
<1>1. ASSUME NEW k \in Keys PROVE KeptOf(Merged(k)) \in Pair
    <2>1. /\ slots[k] \in Pair /\ read.active[k] \in Pair /\ read.standby[k] \in Pair
        BY <1>1 DEF Typed, TypeOK, Merge, Pairs
    <2> QED BY <2>1 DEF KeptOf, Kept, Merged, Newer, Pair, Slot
<1>2. revision' \in Nat
    BY DEF Typed, TypeOK, Merge
<1> QED BY <1>1, <1>2 DEF Merge, Pairs

\* Where a goroutine's flush goes after its write is typed.
LEMMA AfterWriteTyped ==
    ASSUME Typed, NEW f \in Flushers, AfterWrite(f)
    PROVE  flush' \in [Flushers -> Flush]
  BY FlushTyped DEF Typed, TypeOK, AfterWrite

\* Every step keeps the types.
LEMMA TypedStep == Typed /\ [Next]_vars => Typed'
<1> SUFFICES ASSUME Typed, [Next]_vars PROVE Typed'
    OBVIOUS
<1> USE DEF Typed, TypeOK
<1>1. ASSUME NEW f \in Hooks, NEW k \in Keys, NEW c \in State, NEW atOnce \in BOOLEAN,
             Offer(f, k, c, atOnce)
      PROVE  Typed'
    <2>1. Accept(slots[k], c, Identities, now) \in Pair
        BY AcceptTyped DEF Pairs
    <2>2. slots' \in Pairs /\ revision' \in Nat
        BY <1>1, <2>1, ChangeTyped DEF Offer
    <2>3. flush' \in [Flushers -> Flush]
        BY <1>1, FlushTyped DEF Offer, Flushers
    <2>4. rejected' \in [Keys -> SUBSET Values]
        BY <1>1 DEF Offer
    <2> QED BY <1>1, <2>2, <2>3, <2>4 DEF Offer, process
<1>2. ASSUME NEW f \in Hooks, NEW k \in Keys, NEW s \in State, Mismatch(f, k, s)
      PROVE  Typed'
    <2>1. Invalidate(slots[k], s.value, s.identity, Identities, now) \in Pair
        BY InvalidateTyped DEF Pairs
    <2>2. slots' \in Pairs /\ revision' \in Nat
        BY <1>2, <2>1, ChangeTyped DEF Mismatch
    <2>3. flush' \in [Flushers -> Flush]
        BY <1>2, FlushTyped DEF Mismatch, Flushers
    <2>4. rejected' \in [Keys -> SUBSET Values]
        BY <1>2 DEF Mismatch, State
    <2> QED BY <1>2, <2>2, <2>3, <2>4 DEF Mismatch, process
<1>3. ASSUME NEW f \in Flushers, NEW k \in Keys, Scan(f, k) PROVE Typed'
    <2>1. Promote(slots[k], Identities, now) \in Pair
        BY PromoteTyped DEF Pairs
    <2>2. slots' \in Pairs /\ revision' \in Nat
        BY <1>3, <2>1, ChangeTyped DEF Scan
    <2>3. flush' \in [Flushers -> Flush]
        BY <1>3, FlushTyped DEF Scan
    <2> QED BY <1>3, <2>2, <2>3 DEF Scan, process
<1>14. ASSUME NEW k \in Keys, ScanInPassing(k) PROVE Typed'
    <2>1. Promote(slots[k], Identities, now) \in Pair
        BY PromoteTyped DEF Pairs
    <2>2. slots' \in Pairs /\ revision' \in Nat
        BY <1>14, <2>1, ChangeTyped DEF ScanInPassing
    <2> QED BY <1>14, <2>2 DEF ScanInPassing, process
<1>4. ASSUME NEW f \in Flushers, Wake(f) PROVE Typed'
    BY <1>4, FlushTyped DEF Wake, process, memory
<1>5. ASSUME NEW f \in Flushers, Check(f) PROVE Typed'
    BY <1>5, FlushTyped DEF Check, process, memory
<1>6. ASSUME NEW f \in Flushers, Snapshot(f) PROVE Typed'
    BY <1>6, FlushTyped DEF Snapshot, process, memory
<1>7. ASSUME NEW f \in Flushers, Written(f) PROVE Typed'
    <2>1. flush[f].snapshot \in Pairs /\ flush[f].revision \in Nat
        BY <1>7 DEF Written, Flush
    <2> QED BY <1>7, <2>1, AfterWriteTyped DEF Written, process
<1>8. ASSUME NEW f \in Flushers, WriteFails(f) PROVE Typed'
    BY <1>8, AfterWriteTyped DEF WriteFails, process, memory
<1>9. CASE Start \/ Reconfigure
    BY <1>9 DEF Start, Reconfigure, memory
<1>10. CASE ReadActive \/ ReadStandby
    BY <1>10 DEF ReadActive, ReadStandby, memory
<1>11. CASE Merge
    BY <1>11, MergeTyped DEF Merge, NothingRead
<1>12. CASE Stop
    <2>1. rejected' \in [Keys -> SUBSET Values]
        BY <1>12 DEF Stop
    <2> QED BY <1>12, <2>1, EmptyTyped, FlushTyped DEF Stop, NothingRead
<1>13. CASE Tick \/ UNCHANGED vars
    BY <1>13 DEF Tick, vars, process, memory
<1> QED
    BY <1>1, <1>2, <1>3, <1>4, <1>5, <1>6, <1>7, <1>8, <1>9, <1>10, <1>11, <1>12, <1>13, <1>14
    DEF Next, Configure

\* The types hold at first.
LEMMA InitTyped == Init => Typed
<1> SUFFICES ASSUME Init PROVE Typed
    OBVIOUS
<1>1. flush \in [Flushers -> Flush]
    BY FlushTyped DEF Init
<1> QED BY <1>1, EmptyTyped DEF Init, Typed, TypeOK, NothingRead

\* Type correctness of the slots' way to their file and back, whatever
\* lifecycle calls meet.
THEOREM TypeCorrect == Spec => []TypeOK
<1>1. Typed => TypeOK
    BY DEF Typed
<1> QED BY InitTyped, TypedStep, <1>1, PTL DEF Spec

----------------------------------------------------------------------------
(* The file is never replaced by an older copy.                            *)

\* A step that only starts flushes, or ends them, or counts revisions, keeps
\* the order.
LEMMA OrderKept ==
    ASSUME Typed, Typed', Ordered, UNCHANGED <<saved, written>>, revision <= revision',
           \A f \in Flushers : Writing(f)' => flush'[f] = flush[f]
    PROVE  Ordered'
<1>1. \A f \in Flushers : Writing(f)' => Writing(f)
    BY DEF Writing
<1>2. \A f \in Flushers : Writing(f) => flush[f].revision \in Nat
    BY DEF Typed, TypeOK, Writing, Flush
<1>3. \A f \in Flushers :
          Writing(f)' => written <= flush'[f].revision /\ flush'[f].revision <= revision'
    BY <1>1, <1>2 DEF Ordered, Typed, TypeOK
<1> QED BY <1>1, <1>3 DEF Ordered, Typed, TypeOK

\* A change counts upwards.
LEMMA ChangeCounts ==
    ASSUME revision \in Nat, NEW k, NEW q, Change(k, q)
    PROVE  revision <= revision'
  BY DEF Change

\* A goroutine at rest that starts to flush does not write yet, and the
\* others stay where they are.
LEMMA OneFlushMoves ==
    ASSUME Typed, NEW f \in Flushers, NEW r, r.step # "write",
           flush' = [flush EXCEPT ![f] = r]
    PROVE  \A g \in Flushers : Writing(g)' => flush'[g] = flush[g]
<1> SUFFICES ASSUME NEW g \in Flushers, Writing(g)' PROVE flush'[g] = flush[g]
    OBVIOUS
<1>1. flush'[f] = r
    BY DEF Typed, TypeOK
<1>2. g # f
    BY <1>1 DEF Writing
<1> QED BY <1>2 DEF Typed, TypeOK

\* What a hook or a round starts with is such a flush.
LEMMA OperationFlush ==
    ASSUME NEW f \in Flushers, Typed,
           \/ \E k \in Keys, c \in State, atOnce \in BOOLEAN : Offer(f, k, c, atOnce)
           \/ \E k \in Keys, s \in State : Mismatch(f, k, s)
           \/ \E k \in Keys : Scan(f, k)
           \/ Wake(f) \/ Check(f)
    PROVE  \E r : r.step # "write" /\ flush' = [flush EXCEPT ![f] = r]
<1>1. ASSUME NEW k \in Keys, NEW c \in State, NEW atOnce \in BOOLEAN, Offer(f, k, c, atOnce)
      PROVE  \E r : r.step # "write" /\ flush' = [flush EXCEPT ![f] = r]
    <2>1. \E b \in BOOLEAN : flush' = [flush EXCEPT ![f] =
              IF b THEN [@ EXCEPT !.step = "save", !.again = TRUE]
              ELSE [@ EXCEPT !.step = "check"]]
        BY <1>1 DEF Offer
    <2> QED BY <1>1, <2>1 DEF Offer, Rest
<1>2. ASSUME NEW k \in Keys, NEW s \in State, Mismatch(f, k, s)
      PROVE  \E r : r.step # "write" /\ flush' = [flush EXCEPT ![f] = r]
    <2>1. flush' = [flush EXCEPT ![f] = [Rest EXCEPT !.step = "check"]]
        BY <1>2 DEF Mismatch
    <2>2. [Rest EXCEPT !.step = "check"].step # "write"
        BY DEF Rest
    <2> QED BY <2>1, <2>2
<1>3. ASSUME NEW k \in Keys, Scan(f, k)
      PROVE  \E r : r.step # "write" /\ flush' = [flush EXCEPT ![f] = r]
    <2>1. flush' = [flush EXCEPT ![f] = [Rest EXCEPT !.step = "check"]]
        BY <1>3 DEF Scan
    <2>2. [Rest EXCEPT !.step = "check"].step # "write"
        BY DEF Rest
    <2> QED BY <2>1, <2>2
<1>4. CASE Wake(f)
    <2>1. flush' = [flush EXCEPT ![f] = [Rest EXCEPT !.step = "check"]]
        BY <1>4 DEF Wake
    <2>2. [Rest EXCEPT !.step = "check"].step # "write"
        BY DEF Rest
    <2> QED BY <2>1, <2>2
<1>5. CASE Check(f)
    <2>1. CASE Dirty
        <3>1. flush' = [flush EXCEPT ![f] = [flush[f] EXCEPT !.step = "save"]]
            BY <1>5, <2>1 DEF Check
        <3>2. [flush[f] EXCEPT !.step = "save"].step # "write"
            BY DEF Typed, TypeOK, Flush
        <3> QED BY <3>1, <3>2
    <2>2. CASE ~Dirty
        <3>1. flush' = [flush EXCEPT ![f] = Rest]
            BY <1>5, <2>2 DEF Check
        <3> QED BY <3>1 DEF Rest
    <2> QED BY <2>1, <2>2
<1> QED BY <1>1, <1>2, <1>3, <1>4, <1>5

\* After its write a goroutine writes nothing, and the others go on.
LEMMA AfterWriteRests ==
    ASSUME Typed, NEW f \in Flushers, AfterWrite(f)
    PROVE  ~Writing(f)' /\ \A g \in Flushers \ {f} : flush'[g] = flush[g]
  BY DEF Typed, TypeOK, AfterWrite, Rest, Writing

\* Every step keeps the order.
LEMMA OrderedStep == Typed /\ Ordered /\ [Next]_vars => Ordered'
<1> SUFFICES ASSUME Typed, Ordered, [Next]_vars PROVE Ordered'
    OBVIOUS
<1>0. Typed'
    BY TypedStep
<1>1. ASSUME NEW f \in Flushers,
             \/ \E k \in Keys, c \in State, atOnce \in BOOLEAN : Offer(f, k, c, atOnce)
             \/ \E k \in Keys, s \in State : Mismatch(f, k, s)
             \/ \E k \in Keys : Scan(f, k)
             \/ Wake(f) \/ Check(f)
      PROVE  Ordered'
    <2>1. \A g \in Flushers : Writing(g)' => flush'[g] = flush[g]
        BY <1>1, OperationFlush, OneFlushMoves
    <2>2. revision <= revision' /\ UNCHANGED <<saved, written>>
        BY <1>1, ChangeCounts DEF Offer, Mismatch, Scan, Wake, Check, memory, Typed, TypeOK
    <2> QED BY <1>0, <2>1, <2>2, OrderKept
<1>2. ASSUME NEW k \in Keys, ScanInPassing(k) PROVE Ordered'
    <2>1. revision <= revision' /\ UNCHANGED <<saved, written, flush>>
        BY <1>2, ChangeCounts DEF ScanInPassing, Typed, TypeOK
    <2> QED BY <1>0, <2>1, OrderKept
<1>3. ASSUME NEW f \in Flushers, Snapshot(f) PROVE Ordered'
    <2>1. /\ Writing(f)' /\ flush'[f].revision = revision
          /\ \A g \in Flushers \ {f} : flush'[g] = flush[g]
        BY <1>3 DEF Snapshot, Typed, TypeOK, Writing, Flush
    <2>2. \A g \in Flushers : Writing(g)' => g = f
        BY <1>3, <2>1 DEF Snapshot, Writing
    <2> QED BY <1>3, <2>1, <2>2 DEF Snapshot, memory, Ordered, Typed, TypeOK
<1>4. ASSUME NEW f \in Flushers, Written(f) PROVE Ordered'
    <2>1. ~Writing(f)' /\ \A g \in Flushers \ {f} : flush'[g] = flush[g]
        BY <1>4, AfterWriteRests DEF Written
    <2>2. \A g \in Flushers : ~Writing(g)'
        BY <1>4, <2>1 DEF Written, Writing, Ordered
    <2> QED BY <1>4, <2>2 DEF Written, Writing, Ordered
<1>5. ASSUME NEW f \in Flushers, WriteFails(f) PROVE Ordered'
    <2>1. ~Writing(f)' /\ \A g \in Flushers \ {f} : flush'[g] = flush[g]
        BY <1>5, AfterWriteRests DEF WriteFails
    <2>2. UNCHANGED <<saved, written, revision>>
        BY <1>5 DEF WriteFails, memory
    <2> QED BY <1>0, <2>1, <2>2, OrderKept DEF Typed, TypeOK
<1>6. CASE Start \/ Reconfigure \/ ReadActive \/ ReadStandby \/ Tick \/ UNCHANGED vars
    <2>1. UNCHANGED <<saved, written, revision, flush>>
        BY <1>6 DEF Start, Reconfigure, ReadActive, ReadStandby, Tick, vars, memory
    <2> QED BY <1>0, <2>1, OrderKept DEF Typed, TypeOK
<1>7. CASE Merge
    <2>1. UNCHANGED <<saved, written, flush>> /\ revision <= revision'
        BY <1>7 DEF Merge, Typed, TypeOK
    <2> QED BY <1>0, <2>1, OrderKept
<1>8. CASE Stop
    BY <1>8 DEF Stop, Ordered, Writing, Rest
<1> QED BY <1>1, <1>2, <1>3, <1>4, <1>5, <1>6, <1>7, <1>8 DEF Next, Configure, Flushers

\* In every reachable state the types and the order hold.
LEMMA Order == Spec => [](Typed /\ Ordered)
<1>1. Init => Ordered
    BY DEF Init, Ordered, Writing, Rest
<1> QED BY <1>1, InitTyped, TypedStep, OrderedStep, PTL DEF Spec

\* However many goroutines save, and whichever writes fail, the file never
\* goes back to an earlier state of the slots.
THEOREM FileGrowsNewer == Spec => FileNeverOlder
<1>1. Typed /\ Ordered /\ [Next]_vars => [phase' # "down" => written' >= written]_vars
    <2> SUFFICES ASSUME Typed, Ordered, Next, phase' # "down"
                 PROVE  written' >= written
        OBVIOUS
    <2>1. ASSUME NEW f \in Flushers, Written(f) PROVE written' >= written
        BY <2>1 DEF Written, Writing, Ordered, Typed, TypeOK, Flush
    <2>2. CASE Stop
        BY <2>2 DEF Stop
    <2>3. CASE written' = written
        BY <2>3 DEF Typed, TypeOK
    <2> QED
        BY <2>1, <2>2, <2>3
        DEF Next, Configure, Offer, Mismatch, Scan, ScanInPassing, Wake, Check, Snapshot,
            WriteFails, Start, Reconfigure, ReadActive, ReadStandby, Merge, Tick
<1> QED BY <1>1, Order, PTL DEF FileNeverOlder, Spec

----------------------------------------------------------------------------
(* Memory and file agree.                                                  *)

\* What a step of the lifecycle may rely on when nothing changes meanwhile:
\* nothing is unsaved while the plugin is configured, and what configure has
\* read is what the file holds.
Quiet ==
    /\ ~accepting => /\ phase # "up" /\ slots = Empty /\ revision = 0 /\ saved = 0
                     /\ flush = [f \in Flushers |-> Rest]
    /\ phase = "down" => ~accepting
    /\ phase \in {"configure", "standby", "join"} =>
          ~Dirty /\ \A f \in Flushers : flush[f].step \in {"rest", "check"}
    /\ phase \in {"standby", "join"} => read.active = disk
    /\ phase = "join" => read.standby = disk

\* Slots that are marked as saved are in the file, and a copy of the latest
\* revision is a copy of the slots.
Copied ==
    /\ accepting /\ ~Dirty => disk = slots
    /\ \A f \in Flushers :
          Writing(f) /\ flush[f].revision = revision => flush[f].snapshot = slots

Agreed == ~HotReconfigure /\ Quiet /\ Copied

\* What the plugin merges is what the file holds, whether it is configured
\* for the first time or again.
LEMMA MergedIsDisk ==
    ASSUME Typed, Agreed, Merge, NEW k \in Keys
    PROVE  Merged(k) = disk[k]
<1>1. slots = Empty \/ slots = disk
    BY DEF Agreed, Quiet, Copied, Merge
<1>2. read.active = disk /\ read.standby = disk
    BY DEF Agreed, Quiet, Merge
<1>3. disk[k] = [active |-> disk[k].active, standby |-> disk[k].standby]
    BY DEF Typed, TypeOK, Pairs, Pair
<1>4. CASE slots = Empty
    BY <1>2, <1>3, <1>4 DEF Merged, Newer, Empty, EmptyPair
<1>5. CASE slots = disk
    <2>1. \A s : Newer(s, s) = s
        BY DEF Newer
    <2> QED BY <1>2, <1>3, <1>5, <2>1 DEF Merged
<1> QED BY <1>1, <1>4, <1>5

\* A change of the slots, counted, makes them dirty and no copy the latest.
LEMMA ChangeAgrees ==
    ASSUME Typed, Ordered, Agreed, \A f \in Flushers : Writing(f)' => flush'[f] = flush[f],
           NEW k \in Keys, NEW q, Change(k, q), Changeable,
           UNCHANGED <<process, saved, disk>>
    PROVE  Agreed'
<1>1. phase = "up" /\ accepting
    BY DEF Agreed, Changeable
<1>2. Quiet'
    BY <1>1 DEF Quiet, process
<1>3. \A g \in Flushers : Writing(g)' => Writing(g) /\ flush'[g] = flush[g]
    BY DEF Writing
<1>4. CASE q = slots[k]
    <2>1. slots' = slots /\ revision' = revision
        BY <1>4 DEF Change, Typed, TypeOK, Pairs
    <2> QED BY <1>1, <1>2, <1>3, <2>1 DEF Agreed, Copied, Dirty, process
<1>5. CASE q # slots[k]
    <2>1. revision' = revision + 1
        BY <1>5 DEF Change
    <2>2. revision' # saved' /\ \A g \in Flushers : Writing(g)' => flush'[g].revision # revision'
        BY <1>3, <2>1 DEF Ordered, Typed, TypeOK, Writing, Flush
    <2> QED BY <1>2, <2>2 DEF Agreed, Copied, Dirty
<1> QED BY <1>4, <1>5

\* A step that moves one flush and touches nothing else keeps the agreement.
LEMMA FlushAgrees ==
    ASSUME Typed, Agreed, UNCHANGED <<process, memory, disk>>, accepting,
           NEW f \in Flushers, NEW r, r.step # "write", flush' = [flush EXCEPT ![f] = r],
           phase \in {"configure", "standby", "join"} => r.step \in {"rest", "check"}
    PROVE  Agreed'
<1>1. \A g \in Flushers : Writing(g)' => Writing(g) /\ flush'[g] = flush[g]
    BY OneFlushMoves DEF Writing
<1>2. \A g \in Flushers : flush'[g] = IF g = f THEN r ELSE flush[g]
    BY DEF Typed, TypeOK
<1>3. Quiet'
    BY <1>2 DEF Agreed, Quiet, Dirty, process, memory
<1>4. Copied'
    BY <1>1 DEF Agreed, Copied, Dirty, process, memory
<1> QED BY <1>3, <1>4 DEF Agreed

\* Every step keeps the agreement.
LEMMA AgreedStep == Typed /\ Ordered /\ Agreed /\ [Next]_vars => Agreed'
<1> SUFFICES ASSUME Typed, Ordered, Agreed, [Next]_vars PROVE Agreed'
    OBVIOUS
<1>0. Rest.step = "rest" /\ [Rest EXCEPT !.step = "check"].step = "check"
    BY DEF Rest
<1>1. ASSUME NEW f \in Hooks, NEW k \in Keys, NEW c \in State, NEW atOnce \in BOOLEAN,
             Offer(f, k, c, atOnce)
      PROVE  Agreed'
    <2>1. PICK r : r.step # "write" /\ flush' = [flush EXCEPT ![f] = r]
        BY <1>1, OperationFlush DEF Flushers
    <2> QED BY <1>1, <2>1, OneFlushMoves, ChangeAgrees DEF Offer, Flushers
<1>2. ASSUME NEW f \in Hooks, NEW k \in Keys, NEW s \in State, Mismatch(f, k, s)
      PROVE  Agreed'
    <2>1. PICK r : r.step # "write" /\ flush' = [flush EXCEPT ![f] = r]
        BY <1>2, OperationFlush DEF Flushers
    <2> QED BY <1>2, <2>1, OneFlushMoves, ChangeAgrees DEF Mismatch, Flushers
<1>3. ASSUME NEW f \in Flushers, NEW k \in Keys, Scan(f, k) PROVE Agreed'
    <2>1. PICK r : r.step # "write" /\ flush' = [flush EXCEPT ![f] = r]
        BY <1>3, OperationFlush
    <2> QED BY <1>3, <2>1, OneFlushMoves, ChangeAgrees DEF Scan
<1>16. ASSUME NEW k \in Keys, ScanInPassing(k) PROVE Agreed'
    BY <1>16, ChangeAgrees DEF ScanInPassing
<1>4. ASSUME NEW f \in Flushers, Wake(f) PROVE Agreed'
    <2>1. flush' = [flush EXCEPT ![f] = [Rest EXCEPT !.step = "check"]]
        BY <1>4 DEF Wake
    <2> QED BY <1>0, <1>4, <2>1, FlushAgrees DEF Wake
<1>5. ASSUME NEW f \in Flushers, Check(f) PROVE Agreed'
    <2>0. accepting
        BY <1>0, <1>5 DEF Check, Agreed, Quiet
    <2>1. CASE Dirty
        <3>1. flush' = [flush EXCEPT ![f] = [flush[f] EXCEPT !.step = "save"]]
            BY <1>5, <2>1 DEF Check
        <3>2. [flush[f] EXCEPT !.step = "save"].step = "save"
            BY DEF Typed, TypeOK, Flush
        <3>3. phase \notin {"configure", "standby", "join"}
            BY <2>1 DEF Agreed, Quiet
        <3> QED BY <1>5, <2>0, <3>1, <3>2, <3>3, FlushAgrees DEF Check
    <2>2. CASE ~Dirty
        <3>1. flush' = [flush EXCEPT ![f] = Rest]
            BY <1>5, <2>2 DEF Check
        <3> QED BY <1>0, <1>5, <2>0, <3>1, FlushAgrees DEF Check
    <2> QED BY <2>1, <2>2
<1>6. ASSUME NEW f \in Flushers, Snapshot(f) PROVE Agreed'
    <2>1. /\ flush'[f].revision = revision /\ flush'[f].snapshot = slots
          /\ \A g \in Flushers \ {f} : flush'[g] = flush[g]
        BY <1>6 DEF Snapshot, Typed, TypeOK, Flush
    <2>2. \A g \in Flushers : Writing(g)' => g = f
        BY <1>6, <2>1 DEF Snapshot, Writing
    <2>3. UNCHANGED <<process, memory, disk>> /\ accepting /\ phase = "up"
        BY <1>0, <1>6 DEF Snapshot, Agreed, Quiet, Typed, TypeOK
    <2>4. Quiet'
        BY <2>3 DEF Quiet, process
    <2>5. Copied'
        BY <2>1, <2>2, <2>3 DEF Agreed, Copied, Dirty, process, memory
    <2> QED BY <2>4, <2>5 DEF Agreed
<1>7. ASSUME NEW f \in Flushers, Written(f) PROVE Agreed'
    <2>1. ~Writing(f)' /\ \A g \in Flushers \ {f} : flush'[g] = flush[g]
        BY <1>7, AfterWriteRests DEF Written
    <2>2. \A g \in Flushers : ~Writing(g)'
        BY <1>7, <2>1 DEF Written, Writing, Ordered
    <2>3. UNCHANGED <<process, slots, revision>> /\ accepting /\ phase = "up"
        BY <1>0, <1>7 DEF Written, Agreed, Quiet, Typed, TypeOK
    <2>4. saved' = revision => disk' = slots
        BY <1>7 DEF Written, Writing, Agreed, Copied
    <2>5. Quiet'
        BY <2>3 DEF Quiet, process
    <2>6. Copied'
        BY <2>2, <2>3, <2>4 DEF Copied, Dirty
    <2> QED BY <2>5, <2>6 DEF Agreed
<1>8. ASSUME NEW f \in Flushers, WriteFails(f) PROVE Agreed'
    <2>1. ~Writing(f)' /\ \A g \in Flushers \ {f} : flush'[g] = flush[g]
        BY <1>8, AfterWriteRests DEF WriteFails
    <2>2. UNCHANGED <<process, memory, disk>> /\ accepting /\ phase = "up"
        BY <1>0, <1>8 DEF WriteFails, Agreed, Quiet, Typed, TypeOK
    <2>3. Quiet'
        BY <2>2 DEF Quiet, process
    <2>4. Copied'
        BY <2>1, <2>2 DEF Agreed, Copied, Dirty, Writing, process, memory
    <2> QED BY <2>3, <2>4 DEF Agreed
<1>9. CASE Start
    <2>1. UNCHANGED <<accepting, slots, revision, saved, flush, disk>>
          /\ phase = "down" /\ phase' = "configure"
        BY <1>9 DEF Start, memory
    <2>2. ~accepting /\ flush = [f \in Flushers |-> Rest]
        BY <2>1 DEF Agreed, Quiet
    <2> QED BY <1>0, <2>1, <2>2 DEF Agreed, Quiet, Copied, Dirty, Writing
<1>10. CASE Reconfigure
    <2>1. UNCHANGED <<accepting, slots, revision, saved, flush, disk>>
          /\ phase = "up" /\ phase' = "configure"
        BY <1>10 DEF Reconfigure, memory
    <2>2. ~Dirty /\ \A f \in Flushers : flush[f] = Rest
        BY <1>10 DEF Reconfigure, Agreed
    <2> QED BY <1>0, <2>1, <2>2 DEF Agreed, Quiet, Copied, Dirty, Writing
<1>11. CASE ReadActive
    BY <1>11 DEF ReadActive, Agreed, Quiet, Copied, Dirty, Writing, Typed, TypeOK, memory
<1>12. CASE ReadStandby
    BY <1>12 DEF ReadStandby, Agreed, Quiet, Copied, Dirty, Writing, Typed, TypeOK, memory
<1>13. CASE Merge
    <2>1. \A f \in Flushers : ~Writing(f)'
        BY <1>13 DEF Merge, Agreed, Quiet, Writing
    <2>2. revision = saved /\ UNCHANGED <<saved, disk>> /\ phase' = "up" /\ accepting'
        BY <1>13 DEF Merge, Agreed, Quiet, Dirty
    <2>3. ASSUME revision' = revision PROVE slots' = disk
        <3>1. \A k \in Keys : KeptOf(Merged(k)) = disk[k]
            BY <1>13, <2>3, MergedIsDisk DEF Merge, Typed, TypeOK
        <3> QED BY <1>13, <3>1 DEF Merge, Typed, TypeOK, Pairs
    <2>4. Quiet'
        BY <2>2 DEF Quiet
    <2>5. Copied'
        BY <2>1, <2>2, <2>3 DEF Copied, Dirty
    <2> QED BY <2>4, <2>5 DEF Agreed
<1>14. CASE Stop
    <2>1. /\ ~accepting' /\ phase' = "down" /\ slots' = Empty /\ revision' = 0 /\ saved' = 0
          /\ flush' = [f \in Flushers |-> Rest]
        BY <1>14 DEF Stop
    <2> QED BY <1>0, <2>1 DEF Agreed, Quiet, Copied, Dirty, Writing
<1>15. CASE Tick \/ UNCHANGED vars
    <2>1. UNCHANGED <<process, memory, flush, disk>>
        BY <1>15 DEF Tick, vars
    <2> QED BY <2>1 DEF Agreed, Quiet, Copied, Dirty, Writing, process, memory
<1> QED
    BY <1>1, <1>2, <1>3, <1>4, <1>5, <1>6, <1>7, <1>8, <1>9, <1>10, <1>11, <1>12, <1>13,
       <1>14, <1>15, <1>16
    DEF Next, Configure

\* In every reachable state of a plugin that is configured while it is quiet
\* memory and file agree.
LEMMA Agreement == ~HotReconfigure /\ Spec => [](Typed /\ Ordered /\ Agreed)
<1>1. ~HotReconfigure /\ Init => Agreed
    BY DEF Init, Agreed, Quiet, Copied, Dirty, Writing, Rest
<1> QED BY <1>1, Order, AgreedStep, PTL DEF Spec

\* When nothing is marked as unsaved, the file holds exactly the slots.
THEOREM SavedIsOnDisk == ~HotReconfigure /\ Spec => []CleanMeansSaved
<1>1. Agreed => CleanMeansSaved
    BY DEF Agreed, Copied, CleanMeansSaved
<1> QED BY <1>1, Agreement, PTL

----------------------------------------------------------------------------
(* Nothing rejected comes back.                                            *)

\* Every pair is a correct one, wherever it is kept, and what was rejected is
\* neither in memory nor, while memory is empty, in the file.
Gone ==
    /\ \A k \in Keys : PairInv(slots[k]) /\ PairInv(disk[k])
    /\ \A f \in Flushers, k \in Keys : Writing(f) => PairInv(flush[f].snapshot[k])
    /\ RejectedStaysGone
    /\ ~accepting => \A k \in Keys : ValuesIn(disk[k]) \cap rejected[k] = {}

\* configure drops states only, and a correct pair stays one.
LEMMA KeptPairInv ==
    ASSUME NEW p, PairInv(p)
    PROVE  PairInv(KeptOf(p)) /\ InSlots(KeptOf(p)) \subseteq InSlots(p)
  BY DEF KeptOf, Kept, PairInv, InSlots, Pair, Slot, IsLong, IsShort

\* A step that changes one pair, to a correct one that holds nothing rejected.
LEMMA ChangeGone ==
    ASSUME Typed, Gone, NEW k \in Keys, NEW q, Change(k, q), PairInv(q), accepting,
           UNCHANGED <<process, disk>>,
           \A f \in Flushers : Writing(f)' => Writing(f) /\ flush'[f] = flush[f],
           NEW R, rejected' = [rejected EXCEPT ![k] = R], ValuesIn(q) \cap R = {}
    PROVE  Gone'
<1>1. \A j \in Keys : slots'[j] = IF j = k THEN q ELSE slots[j]
    BY DEF Change, Typed, TypeOK, Pairs
<1>2. \A j \in Keys : rejected'[j] = IF j = k THEN R ELSE rejected[j]
    BY DEF Typed, TypeOK
<1>3. RejectedStaysGone'
    BY <1>1, <1>2 DEF Gone, RejectedStaysGone
<1>4. \A j \in Keys : PairInv(slots'[j]) /\ PairInv(disk'[j])
    BY <1>1 DEF Gone
<1>5. \A f \in Flushers, j \in Keys : Writing(f)' => PairInv(flush'[f].snapshot[j])
    BY DEF Gone
<1> QED BY <1>3, <1>4, <1>5 DEF Gone, process

\* A state that is offered, and accepted, is no longer rejected.
LEMMA OfferGone ==
    ASSUME Typed, Gone, NEW f \in Hooks, NEW k \in Keys, NEW c \in State,
           NEW atOnce \in BOOLEAN, Offer(f, k, c, atOnce)
    PROVE  Gone'
<1> DEFINE q == Accept(slots[k], c, Identities, now)
           placed == c.value \in ValuesIn(q) \ ValuesIn(slots[k])
           R == IF placed THEN rejected[k] \ {c.value} ELSE rejected[k]
<1>1. PairInv(q) /\ InSlots(q) \subseteq InSlots(slots[k]) \cup {c}
    BY AcceptPairInv, AcceptAddsCandidate DEF Gone, Typed, TypeOK, Pairs
<1>2. rejected' = [rejected EXCEPT ![k] = R]
    BY DEF Offer, Typed, TypeOK
<1>3. Change(k, q) /\ accepting /\ UNCHANGED <<process, disk>>
    BY DEF Offer, Changeable
<1>4. \A g \in Flushers : Writing(g)' => Writing(g) /\ flush'[g] = flush[g]
    <2>1. f \in Flushers
        BY DEF Flushers
    <2>2. PICK r : r.step # "write" /\ flush' = [flush EXCEPT ![f] = r]
        BY <2>1, OperationFlush
    <2> QED BY <2>1, <2>2, OneFlushMoves DEF Writing
<1>5. ValuesIn(slots[k]) \cap rejected[k] = {}
    BY DEF Gone, RejectedStaysGone
<1>6. ValuesIn(q) \subseteq ValuesIn(slots[k]) \cup {c.value}
    BY <1>1 DEF ValuesIn
<1>7. ValuesIn(q) \cap R = {}
    <2> HIDE DEF q
    <2> QED BY <1>5, <1>6
<1> HIDE DEF R, q
<1> QED BY <1>1, <1>2, <1>3, <1>4, <1>7, ChangeGone

\* A value that is rejected leaves the slots.
LEMMA MismatchGone ==
    ASSUME Typed, Gone, NEW f \in Hooks, NEW k \in Keys, NEW s \in State, Mismatch(f, k, s)
    PROVE  Gone'
<1> DEFINE p == slots[k]
           q == Invalidate(p, s.value, s.identity, Identities, now)
           R == rejected[k] \cup {s.value}
<1>1. PairInv(p) /\ s \in InSlots(p)
    BY DEF Gone, Mismatch
<1>2. PairInv(q)
    BY <1>1, InvalidatePairInv
<1>3. InSlots(q) \subseteq InSlots(p)
    <2>1. InSlots(Without(p, s.value, s.identity)) \subseteq InSlots(p)
        BY DEF Without, InSlots
    <2> QED BY <2>1, PromoteRearranges DEF Invalidate
<1>4. \A u \in InSlots(q) : u.value # s.value
    <2> SUFFICES ASSUME NEW u \in InSlots(q), u.value = s.value PROVE FALSE
        OBVIOUS
    <2>1. u = s
        BY <1>1, <1>3, OneRecordPerToken
    <2>2. Matches(u, s.value, s.identity)
        BY <2>1, NoStateAssumption DEF Matches
    <2> QED BY <1>1, <2>2, InvalidateIsExact
<1>5. ValuesIn(q) \cap R = {}
    <2>1. ValuesIn(p) \cap rejected[k] = {}
        BY DEF Gone, RejectedStaysGone
    <2> HIDE DEF p, q
    <2> QED BY <1>3, <1>4, <2>1 DEF ValuesIn
<1>6. rejected' = [rejected EXCEPT ![k] = R]
    BY DEF Mismatch, Typed, TypeOK
<1>7. Change(k, q) /\ accepting /\ UNCHANGED <<process, disk>>
    BY DEF Mismatch, Changeable
<1>8. \A g \in Flushers : Writing(g)' => Writing(g) /\ flush'[g] = flush[g]
    <2>1. f \in Flushers
        BY DEF Flushers
    <2>2. PICK r : r.step # "write" /\ flush' = [flush EXCEPT ![f] = r]
        BY <2>1, OperationFlush
    <2> QED BY <2>1, <2>2, OneFlushMoves DEF Writing
<1> HIDE DEF R, q, p
<1> QED BY <1>2, <1>5, <1>6, <1>7, <1>8, ChangeGone

\* A promotion brings nothing back.
LEMMA ScanGone ==
    ASSUME Typed, Gone, NEW f \in Flushers, NEW k \in Keys, Scan(f, k) \/ ScanInPassing(k)
    PROVE  Gone'
<1> DEFINE q == Promote(slots[k], Identities, now)
<1>1. PairInv(q) /\ InSlots(q) \subseteq InSlots(slots[k])
    BY PromotePairInv, PromoteRearranges DEF Gone
<1>2. ValuesIn(q) \cap rejected[k] = {}
    <2>1. ValuesIn(slots[k]) \cap rejected[k] = {}
        BY DEF Gone, RejectedStaysGone
    <2> HIDE DEF q
    <2> QED BY <1>1, <2>1 DEF ValuesIn
<1>3. rejected' = [rejected EXCEPT ![k] = rejected[k]]
    BY DEF Scan, ScanInPassing, Typed, TypeOK
<1>4. Change(k, q) /\ accepting /\ UNCHANGED <<process, disk>>
    BY DEF Scan, ScanInPassing, Changeable
<1>5. \A g \in Flushers : Writing(g)' => Writing(g) /\ flush'[g] = flush[g]
    <2>1. CASE Scan(f, k)
        <3>1. PICK r : r.step # "write" /\ flush' = [flush EXCEPT ![f] = r]
            BY <2>1, OperationFlush
        <3> QED BY <3>1, OneFlushMoves DEF Writing
    <2>2. CASE ScanInPassing(k)
        BY <2>2 DEF ScanInPassing, Writing
    <2> QED BY <2>1, <2>2
<1> HIDE DEF q
<1> QED BY <1>1, <1>2, <1>3, <1>4, <1>5, ChangeGone

\* Every step leaves rejected values where they are.
LEMMA GoneStep == Typed /\ Ordered /\ Agreed /\ Gone /\ [Next]_vars => Gone'
<1> SUFFICES ASSUME Typed, Ordered, Agreed, Gone, [Next]_vars PROVE Gone'
    OBVIOUS
<1>1. ASSUME NEW f \in Flushers, Wake(f) \/ Check(f) PROVE Gone'
    <2>1. PICK r : r.step # "write" /\ flush' = [flush EXCEPT ![f] = r]
        BY <1>1, OperationFlush
    <2>2. \A g \in Flushers : Writing(g)' => Writing(g) /\ flush'[g] = flush[g]
        BY <2>1, OneFlushMoves DEF Writing
    <2>3. UNCHANGED <<accepting, slots, disk, rejected>>
        BY <1>1 DEF Wake, Check, process, memory
    <2> QED BY <2>2, <2>3 DEF Gone, RejectedStaysGone
<1>2. ASSUME NEW f \in Flushers, Snapshot(f) PROVE Gone'
    <2>1. /\ flush'[f].snapshot = slots /\ \A g \in Flushers \ {f} : flush'[g] = flush[g]
        BY <1>2 DEF Snapshot, Typed, TypeOK, Flush
    <2>2. \A g \in Flushers : Writing(g)' => g = f
        BY <1>2, <2>1 DEF Snapshot, Writing
    <2>3. UNCHANGED <<accepting, slots, disk, rejected>>
        BY <1>2 DEF Snapshot, process, memory
    <2> QED BY <2>1, <2>2, <2>3 DEF Gone, RejectedStaysGone
<1>3. ASSUME NEW f \in Flushers, Written(f) PROVE Gone'
    <2>1. ~Writing(f)' /\ \A g \in Flushers \ {f} : flush'[g] = flush[g]
        BY <1>3, AfterWriteRests DEF Written
    <2>2. \A g \in Flushers : ~Writing(g)'
        BY <1>3, <2>1 DEF Written, Writing, Ordered
    <2>3. accepting
        <3>1. flush[f] # Rest
            BY <1>3 DEF Written, Rest
        <3> QED BY <3>1 DEF Agreed, Quiet
    <2>4. \A k \in Keys : PairInv(disk'[k])
        BY <1>3 DEF Written, Writing, Gone
    <2> QED BY <1>3, <2>2, <2>3, <2>4 DEF Written, Gone, RejectedStaysGone, process
<1>4. ASSUME NEW f \in Flushers, WriteFails(f) PROVE Gone'
    <2>1. ~Writing(f)' /\ \A g \in Flushers \ {f} : flush'[g] = flush[g]
        BY <1>4, AfterWriteRests DEF WriteFails
    <2>2. UNCHANGED <<accepting, slots, disk, rejected>>
        BY <1>4 DEF WriteFails, process, memory
    <2> QED BY <2>1, <2>2 DEF Gone, RejectedStaysGone, Writing
<1>5. CASE Start \/ Reconfigure \/ ReadActive \/ ReadStandby \/ Tick \/ UNCHANGED vars
    <2>1. UNCHANGED <<accepting, slots, disk, rejected, flush>>
        BY <1>5 DEF Start, Reconfigure, ReadActive, ReadStandby, Tick, vars, process, memory
    <2> QED BY <2>1 DEF Gone, RejectedStaysGone, Writing
<1>6. CASE Merge
    <2>1. \A k \in Keys : slots'[k] = KeptOf(disk[k])
        BY <1>6, MergedIsDisk DEF Merge
    <2>2. UNCHANGED <<disk, rejected, flush>> /\ accepting'
        BY <1>6 DEF Merge
    <2>3. \A k \in Keys : ValuesIn(disk[k]) \cap rejected[k] = {}
        <3>1. accepting => disk = slots
            BY <1>6 DEF Merge, Agreed, Quiet, Copied
        <3> QED BY <3>1 DEF Gone, RejectedStaysGone
    <2>4. ASSUME NEW k \in Keys
          PROVE  PairInv(slots'[k]) /\ ValuesIn(slots'[k]) \cap rejected[k] = {}
        BY <2>1, <2>3, KeptPairInv DEF Gone, ValuesIn
    <2> QED BY <2>2, <2>4 DEF Gone, RejectedStaysGone, Writing
<1>7. CASE Stop
    <2>1. \A k \in Keys : PairInv(slots'[k]) /\ ValuesIn(slots'[k]) = {}
        BY <1>7, EmptyPairInv DEF Stop, Empty, EmptyPair, ValuesIn, InSlots
    <2>2. \A f \in Flushers : ~Writing(f)'
        BY <1>7 DEF Stop, Writing, Rest
    <2>3. \A k \in Keys : ValuesIn(disk[k]) \cap rejected'[k] = {}
        <3>1. CASE Dirty
            BY <1>7, <3>1 DEF Stop
        <3>2. CASE ~Dirty
            <4>1. accepting => disk = slots
                BY <3>2 DEF Agreed, Copied
            <4> QED BY <1>7, <3>2, <4>1 DEF Stop, Gone, RejectedStaysGone
        <3> QED BY <3>1, <3>2
    <2>4. UNCHANGED disk
        BY <1>7 DEF Stop
    <2> QED BY <2>1, <2>2, <2>3, <2>4 DEF Gone, RejectedStaysGone
<1> QED
    BY <1>1, <1>2, <1>3, <1>4, <1>5, <1>6, <1>7, OfferGone, MismatchGone, ScanGone
    DEF Next, Configure, Flushers

\* Every reachable state of a plugin that is configured while it is quiet.
LEMMA GoneInvariance == ~HotReconfigure /\ Spec => []Gone
<1>1. Init => Gone
    <2> SUFFICES ASSUME Init PROVE Gone
        OBVIOUS
    <2>1. \A k \in Keys : slots[k] = EmptyPair /\ disk[k] = EmptyPair /\ rejected[k] = {}
        BY DEF Init, Empty
    <2> QED BY <2>1, EmptyPairInv DEF Init, Gone, RejectedStaysGone, Writing, Rest
<1> QED BY <1>1, Agreement, GoneStep, PTL DEF Spec

\* A value that was invalidated is in no slot until it is accepted anew,
\* whatever was written, failed to be written, or was read back.
THEOREM NothingRejectedReturns == ~HotReconfigure /\ Spec => []RejectedStaysGone
<1>1. Gone => RejectedStaysGone
    BY DEF Gone
<1> QED BY <1>1, GoneInvariance, PTL

\* The rules of a pair outlive the process: what a restart or a configuration
\* merges from the file holds two different tokens, no 292 behind a 332 and
\* nothing strict admission would turn away, whenever the process stopped.
THEOREM PairsSurviveTheFile == ~HotReconfigure /\ Spec => []PairsRuled
<1>1. Gone => PairsRuled
    BY DEF Gone, PairsRuled, PairInv
<1> QED BY <1>1, GoneInvariance, PTL
===============================================================================
