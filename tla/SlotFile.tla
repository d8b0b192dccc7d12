------------------------------ MODULE SlotFile ------------------------------
(***************************************************************************)
(* How the slots are kept in their file (src/plugin.go 445-537, 751-768    *)
(* and 970-992, src/journal.go 108-140): a hook that changes them counts a *)
(* revision, every hook and every round of the refresh loop ends with a    *)
(* flush, a promotion may go without one, a write may fail, a              *)
(* configuration merges what it found in the file with what is in memory,  *)
(* and the process may stop at any time.                                   *)
(*                                                                         *)
(* A configuration reads the file, joins the goroutines of the previous    *)
(* one, which may take long, and only then merges; hooks go on meanwhile.  *)
(* The journal and the other private files are left out, and so are seeds, *)
(* changes of policy or of account, and quiesce: one configuration is      *)
(* loaded again and again. A probe's goroutine counts as one of a hook.    *)
(***************************************************************************)
EXTENDS TurnSlots

CONSTANTS
    Keys,            \* (credential, exact model) pairs
    Hooks,           \* goroutines of the host that run a hook
    Worker,          \* the refresh loop
    NoPairs,
    HotReconfigure,  \* may a configuration meet unsaved or changing slots?
    MaxRevision,     \* bound: changes by the hooks of one process
    MaxStarts,       \* bound: processes
    MaxTime          \* bound: the clock stops here

Flushers == Hooks \cup {Worker}
Pairs == [Keys -> Pair]

ASSUME FileAssumption ==
    /\ Worker \notin Hooks /\ NoPairs \notin Pairs
    /\ HotReconfigure \in BOOLEAN
    /\ {MaxRevision, MaxStarts, MaxTime} \subseteq Nat

VARIABLES
    phase,     \* "down", "up", or how far configure has come
    accepting, \* state.accepting
    starts,    \* processes started
    slots,     \* state.current and state.standby
    revision,  \* state.slotsRevision
    saved,     \* state.slotsSaved
    read,      \* what configure read from the file
    flush,     \* each goroutine on its way to the file
    disk,      \* the file
    written,   \* history: the revision of this process's last write
    rejected,  \* history: values invalidated and not accepted again
    now

memory == <<slots, revision, saved>>
process == <<phase, accepting, starts, read>>
vars == <<process, memory, flush, disk, written, rejected, now>>

\* again: a completion saves at once and still owes its deferred flush.
Flush == [step : {"rest", "check", "save"}, again : BOOLEAN,
          snapshot : {NoPairs}, revision : {0}]
         \cup [step : {"write"}, again : BOOLEAN, snapshot : Pairs, revision : Nat]

Rest == [step |-> "rest", again |-> FALSE, snapshot |-> NoPairs, revision |-> 0]

Empty == [k \in Keys |-> EmptyPair]
NothingRead == [active |-> NoPairs, standby |-> NoPairs]

Dirty == revision # saved

ValuesIn(p) == {s.value : s \in InSlots(p)}

Init ==
    /\ phase = "down" /\ accepting = FALSE /\ starts = 0 /\ read = NothingRead
    /\ slots = Empty /\ revision = 0 /\ saved = 0
    /\ flush = [f \in Flushers |-> Rest]
    /\ disk = Empty /\ written = 0
    /\ rejected = [k \in Keys |-> {}]
    /\ now = 0

----------------------------------------------------------------------------

Changeable ==
    /\ accepting /\ revision < MaxRevision
    /\ HotReconfigure \/ phase = "up"

\* Mutant: the change is not counted.
ChangeUncounted(k, q) ==
    /\ slots' = [slots EXCEPT ![k] = q]
    /\ UNCHANGED revision

\* Each operation that changes the slots counts a revision, or two.
Change(k, q) ==
    /\ slots' = [slots EXCEPT ![k] = q]
    /\ revision' = IF q = slots[k] THEN revision ELSE revision + 1

\* A state is offered.  complete saves a state that took a place at once, a
\* probe leaves it to the flush both end with.
Offer(f, k, c, atOnce) ==
    /\ Changeable /\ flush[f] = Rest
    /\ LET q == Accept(slots[k], c, Identities, now)
           placed == c.value \in ValuesIn(q) \ ValuesIn(slots[k])
       IN  /\ Change(k, q)
           /\ rejected' = IF placed THEN [rejected EXCEPT ![k] = @ \ {c.value}]
                          ELSE rejected
           /\ flush' = [flush EXCEPT ![f] =
                           IF placed /\ atOnce
                           THEN [@ EXCEPT !.step = "save", !.again = TRUE]
                           ELSE [@ EXCEPT !.step = "check"]]
    /\ UNCHANGED <<process, saved, disk, written, now>>

\* complete finds that the value it used was answered by another model.
Mismatch(f, k, s) ==
    /\ Changeable /\ flush[f] = Rest
    /\ s \in InSlots(slots[k])
    /\ Change(k, Invalidate(slots[k], s.value, s.identity, Identities, now))
    /\ rejected' = [rejected EXCEPT ![k] = @ \cup {s.value}]
    /\ flush' = [flush EXCEPT ![f].step = "check"]
    /\ UNCHANGED <<process, saved, disk, written, now>>

\* A hook that chooses a state, or a round of the refresh loop, promotes.
Scan(f, k) ==
    /\ Changeable /\ flush[f] = Rest
    /\ f = Worker => phase = "up"
    /\ Change(k, Promote(slots[k], Identities, now))
    /\ flush' = [flush EXCEPT ![f].step = "check"]
    /\ UNCHANGED <<process, saved, disk, written, rejected, now>>

\* So does the loop once more, after its flush, when it looks how long to
\* sleep, and a click on the page when it looks whether to start a task.
ScanInPassing(k) ==
    /\ Changeable
    /\ Change(k, Promote(slots[k], Identities, now))
    /\ UNCHANGED <<process, saved, flush, disk, written, rejected, now>>

\* Any other hook, or a round of the refresh loop, ends with a flush.
Wake(f) ==
    /\ accepting /\ flush[f] = Rest
    /\ f = Worker => phase = "up"
    /\ flush' = [flush EXCEPT ![f].step = "check"]
    /\ UNCHANGED <<process, memory, disk, written, rejected, now>>

\* Mutant: the refresh loop does not save.
CheckOfHook(f) ==
    /\ flush[f].step = "check"
    /\ flush' = [flush EXCEPT ![f] =
                    IF Dirty /\ f \in Hooks THEN [@ EXCEPT !.step = "save"] ELSE Rest]
    /\ UNCHANGED <<process, memory, disk, written, rejected, now>>

\* flushPersistence asks whether there is anything to save ...
Check(f) ==
    /\ flush[f].step = "check"
    /\ flush' = [flush EXCEPT ![f] = IF Dirty THEN [@ EXCEPT !.step = "save"] ELSE Rest]
    /\ UNCHANGED <<process, memory, disk, written, rejected, now>>

\* Mutant: writers do not wait for each other.
SnapshotAnyTime(f) ==
    /\ flush[f].step = "save"
    /\ flush' = [flush EXCEPT ![f] = [@ EXCEPT !.step = "write", !.snapshot = slots,
                                               !.revision = revision]]
    /\ UNCHANGED <<process, memory, disk, written, rejected, now>>

\* ... and persistCurrent copies the slots once it holds persistMu ...
Snapshot(f) ==
    /\ flush[f].step = "save"
    /\ \A g \in Flushers : flush[g].step # "write"
    /\ flush' = [flush EXCEPT ![f] = [@ EXCEPT !.step = "write", !.snapshot = slots,
                                               !.revision = revision]]
    /\ UNCHANGED <<process, memory, disk, written, rejected, now>>

AfterWrite(f) ==
    flush' = [flush EXCEPT ![f] = IF @.again THEN [Rest EXCEPT !.step = "check"] ELSE Rest]

\* Mutant: the revision of the moment counts as saved.
WrittenByNow(f) ==
    /\ flush[f].step = "write"
    /\ disk' = flush[f].snapshot /\ saved' = revision /\ written' = flush[f].revision
    /\ AfterWrite(f)
    /\ UNCHANGED <<process, slots, revision, rejected, now>>

\* ... and replaces the file, remembering the revision it copied ...
Written(f) ==
    /\ flush[f].step = "write"
    /\ disk' = flush[f].snapshot
    /\ saved' = flush[f].revision /\ written' = flush[f].revision
    /\ AfterWrite(f)
    /\ UNCHANGED <<process, slots, revision, rejected, now>>

\* ... or fails to.
WriteFails(f) ==
    /\ flush[f].step = "write"
    /\ AfterWrite(f)
    /\ UNCHANGED <<process, memory, disk, written, rejected, now>>

----------------------------------------------------------------------------

Start ==
    /\ phase = "down" /\ starts < MaxStarts
    /\ phase' = "configure" /\ starts' = starts + 1
    /\ UNCHANGED <<accepting, read, memory, flush, disk, written, rejected, now>>

\* A reconfiguration of the running plugin.
Reconfigure ==
    /\ phase = "up"
    /\ HotReconfigure \/ (~Dirty /\ \A f \in Flushers : flush[f] = Rest)
    /\ phase' = "configure"
    /\ UNCHANGED <<accepting, starts, read, memory, flush, disk, written, rejected, now>>

\* loadPersisted
ReadActive ==
    /\ phase = "configure"
    /\ phase' = "standby" /\ read' = [read EXCEPT !.active = disk]
    /\ UNCHANGED <<accepting, starts, memory, flush, disk, written, rejected, now>>

\* loadStandby opens the file once more.
ReadStandby ==
    /\ phase = "standby"
    /\ phase' = "join" /\ read' = [read EXCEPT !.standby = disk]
    /\ UNCHANGED <<accepting, starts, memory, flush, disk, written, rejected, now>>

\* What memory has goes before what the file had, unless it is older.
Newer(s, stored) ==
    IF s # NoState /\ (stored = NoState \/ Issued[s.value] >= Issued[stored.value])
    THEN s ELSE stored

Merged(k) == [active  |-> Newer(slots[k].active, read.active[k].active),
              standby |-> Newer(slots[k].standby, read.standby[k].standby)]

Kept(s) == IF Valid(s, now) THEN s ELSE NoState
KeptOf(p) == [active |-> Kept(p.active), standby |-> Kept(p.standby)]

\* The last section of configure, after the worker was joined: merge, and
\* drop what is no longer valid.
Merge ==
    /\ phase = "join" /\ flush[Worker] = Rest
    /\ slots' = [k \in Keys |-> KeptOf(Merged(k))]
    /\ revision' = IF \E k \in Keys : KeptOf(Merged(k)) # Merged(k)
                   THEN revision + 1 ELSE revision
    /\ phase' = "up" /\ accepting' = TRUE /\ read' = NothingRead
    /\ UNCHANGED <<starts, saved, flush, disk, written, rejected, now>>

\* The process stops, in order or not; an invalidation that was not saved is
\* lost with it.
Stop ==
    /\ phase # "down"
    /\ phase' = "down" /\ accepting' = FALSE /\ read' = NothingRead
    /\ slots' = Empty /\ revision' = 0 /\ saved' = 0 /\ written' = 0
    /\ flush' = [f \in Flushers |-> Rest]
    /\ rejected' = IF Dirty THEN [k \in Keys |-> rejected[k] \ ValuesIn(disk[k])]
                   ELSE rejected
    /\ UNCHANGED <<starts, disk, now>>

Tick ==
    /\ now < MaxTime
    /\ now' = now + 1
    /\ UNCHANGED <<process, memory, flush, disk, written, rejected>>

Configure == ReadActive \/ ReadStandby \/ Merge

Next ==
    \/ \E f \in Hooks, k \in Keys :
        \/ \E c \in State, atOnce \in BOOLEAN : Offer(f, k, c, atOnce)
        \/ \E s \in State : Mismatch(f, k, s)
    \/ \E f \in Flushers, k \in Keys : Scan(f, k)
    \/ \E k \in Keys : ScanInPassing(k)
    \/ \E f \in Flushers :
        Wake(f) \/ Check(f) \/ Snapshot(f) \/ Written(f) \/ WriteFails(f)
    \/ Start \/ Reconfigure \/ Configure \/ Stop
    \/ Tick

Spec == Init /\ [][Next]_vars

\* The refresh loop runs its rounds (every five seconds at the latest), a
\* goroutine that can go on does, persistMu is handed on, a configuration
\* is carried through, and the file can be written again and again.
FairSpec ==
    /\ Spec
    /\ WF_vars(Wake(Worker)) /\ WF_vars(Configure)
    /\ \A f \in Flushers :
        /\ WF_vars(Check(f)) /\ SF_vars(Snapshot(f))
        /\ WF_vars(Written(f) \/ WriteFails(f)) /\ SF_vars(Written(f))

----------------------------------------------------------------------------

TypeOK ==
    /\ phase \in {"down", "up", "configure", "standby", "join"}
    /\ accepting \in BOOLEAN /\ starts \in Nat
    /\ slots \in Pairs /\ disk \in Pairs
    /\ revision \in Nat /\ saved \in Nat /\ written \in Nat
    /\ read \in [active : Pairs \cup {NoPairs}, standby : Pairs \cup {NoPairs}]
    /\ flush \in [Flushers -> Flush]
    /\ rejected \in [Keys -> SUBSET Values] /\ now \in Nat

\* When nothing is marked as unsaved the file holds exactly the slots, however
\* many goroutines change and save them and whichever writes fail.
CleanMeansSaved == accepting /\ ~Dirty => disk = slots

\* The file never goes back to an earlier state of the slots.
FileNeverOlder == [][phase' # "down" => written' >= written]_vars

\* "An explicit business model mismatch invalidates ... the value actually
\* used": a value that was invalidated is in no slot again until it is
\* accepted anew, across reconfigurations and, once saved, across restarts.
RejectedStaysGone == \A k \in Keys : ValuesIn(slots[k]) \cap rejected[k] = {}

\* "Keep active and standby slots, each preferring 292" (README.md:40): what
\* is in memory and what a restart finds are pairs of two different tokens, no
\* 292 behind a 332.  It does not hold of a configuration that meets a change
\* the file does not have yet: each slot is merged by age alone
\* (src/plugin.go:503), so a 332 may push out the 292 that replaced it, and
\* stand in both slots.  As an INVARIANT of MCSlotFileReconfigure.cfg it shows
\* that; no run lists it.
PairsRuled ==
    \A k \in Keys : \A p \in {slots[k], disk[k]} :
        /\ p.active # NoState /\ p.standby # NoState => p.active.value # p.standby.value
        /\ Prefer292 => ~(IsLong(p.active) /\ IsShort(p.standby))

\* A change reaches the file in the end, unless the process stops.
EventuallySaved == accepting /\ Dirty ~> ~accepting \/ ~Dirty
=============================================================================
