------------------------------ MODULE Journal ------------------------------
(***************************************************************************)
(* The journal (src/journal.go 43-139, src/probe.go 307-334, src/plugin.go *)
(* 729-767, 771-799 and 970-988, src/refresh.go 180-191): it carries the   *)
(* backoff of a key across restarts, is saved by every hook, task and      *)
(* round of the refresh loop before the slots are, and shares one error    *)
(* message with them.  Writes may fail, and the process may be configured  *)
(* again, shut down, or stop at any time.                                  *)
(*                                                                         *)
(* Of the slots only the revision is kept (SlotFile has the rest), of the  *)
(* journal only the backoff.  Paths never change, acquisition is           *)
(* continuous, and quiesce is left out.                                    *)
(***************************************************************************)
EXTENDS Naturals, Sequences

CONSTANTS
    Keys,        \* (credential, exact model) pairs
    Hooks,       \* goroutines of the host that run a hook
    Background,  \* the refresh loop and the tasks
    Host,        \* the thread of the lifecycle calls
    NoCopy,
    MaxChanges,  \* bound: what happens in all processes together
    MaxStarts    \* bound: first configurations

Goroutines == Hooks \cup Background \cup {Host}

Copy == [revision : Nat, blocked : SUBSET Keys]

ASSUME JournalAssumption ==
    /\ Host \notin Hooks \cup Background /\ Hooks \cap Background = {}
    /\ NoCopy \notin Copy
    /\ {MaxChanges, MaxStarts} \subseteq Nat

VARIABLES
    phase,    \* "down", "up", "closing" or "closed"
    joining,  \* has configure stopped the background?
    loop,     \* does the refresh loop run?
    starts,   \* first configurations tried
    changes,  \* what happened so far
    blocked,  \* keys of state.blockedUntil
    journal,  \* state.journalRevision, state.journalSaved
    slots,    \* state.slotsRevision, state.slotsSaved
    error,    \* state.persistenceError
    flush,    \* each goroutine's way through the files
    disk,     \* the backoff in the journal's file
    reported, \* history: keys whose backoff changed since the last revision
    live,     \* history: the backoff that is to be kept
    promised  \* history: the revisions there were when a flush last began

lifecycle == <<phase, joining, loop, starts>>
backoff == <<blocked, reported, live>>
journalVars == <<lifecycle, changes, backoff, journal, slots, error, flush, disk, promised>>

Clean(n) == n.revision = n.saved
Fresh == [revision |-> 0, saved |-> 0]

Queue(todo) == [todo |-> todo, copy |-> NoCopy]
Resting == Queue(<<>>)

\* What flushPersistence does; what complete does after it accepted a state;
\* what shutdown does.
Flush == <<"journal", "slots">>
SaveAndFlush == <<"current">> \o Flush
Shutdown == Flush \o <<"journal", "current">>

JournalInit ==
    /\ phase = "down" /\ joining = FALSE /\ loop = FALSE
    /\ starts = 0 /\ changes = 0
    /\ blocked = {} /\ journal = Fresh /\ slots = Fresh /\ error = "none"
    /\ flush = [f \in Goroutines |-> Resting]
    /\ disk = {} /\ reported = {} /\ live = {}
    /\ promised = [journal |-> 0, slots |-> 0]

----------------------------------------------------------------------------
(* What changes the journal and the slots.                                 *)

Changeable ==
    /\ changes < MaxChanges /\ changes' = changes + 1
    /\ UNCHANGED <<lifecycle, error, disk>>

\* A revision covers all that changed before it.
Counted == journal' = [journal EXCEPT !.revision = @ + 1] /\ reported' = {}

Touched(changed) ==
    slots' = IF changed THEN [slots EXCEPT !.revision = @ + 1] ELSE slots

Goes(f, todo) == flush' = [flush EXCEPT ![f] = Queue(todo)]

\* A goroutine that begins a flush is to save what there is by then.
Begins(f, todo) ==
    /\ Goes(f, todo)
    /\ promised' = [journal |-> journal'.revision, slots |-> slots'.revision]

\* complete records the request; it may be rate limited, accept a state,
\* which is saved at once, or invalidate one.
Completion(f, limited, outcome) ==
    /\ phase # "down" /\ flush[f] = Resting
    /\ limited # {} \/ outcome = "accepted" => phase = "up"
    /\ blocked' = blocked \cup limited /\ live' = live \cup limited
    /\ Counted /\ Touched(outcome # "none")
    /\ Begins(f, IF outcome = "accepted" THEN SaveAndFlush ELSE Flush)
    /\ Changeable

CompletionOutcomes == {"none", "accepted", "invalidated"}

\* The last section of runProbe: a state was accepted, the credential is
\* refused, or neither.
TaskEnds(f, k, outcome) ==
    /\ phase \in {"up", "closing"} /\ flush[f] = Resting
    /\ LET After(S) == CASE outcome = "ok"      -> S \ {k}
                         [] outcome = "backoff" -> S \cup {k}
                         [] outcome = "failed"  -> S
       IN  blocked' = After(blocked) /\ live' = After(live)
    /\ Counted /\ Touched(outcome = "ok")
    /\ Begins(f, Flush)
    /\ Changeable

TaskOutcomes == {"ok", "backoff", "failed"}

\* promoteStandbyLocked counts in both files.
Promoted == Counted /\ Touched(TRUE) /\ UNCHANGED <<blocked, live>>

\* A hook that chooses a state, the status page, or a round of the loop
\* promotes a standby, and flushes when it is done.
Promotion(f) ==
    /\ phase # "down" /\ (f \in Background => phase \in {"up", "closing"})
    /\ flush[f] = Resting
    /\ Promoted
    /\ Begins(f, Flush)
    /\ Changeable

\* The loop promotes one when it looks how long to sleep, after its flush,
\* and a click on the page when it looks whether it may start a task: nobody
\* flushes for them.
PromotionInPassing ==
    /\ phase \in {"up", "closing"}
    /\ Promoted
    /\ UNCHANGED <<flush, promised>>
    /\ Changeable

\* interceptAfter drops the states of another account: only the slots count.
Dropped(f) ==
    /\ phase = "up" /\ flush[f] = Resting
    /\ Touched(TRUE) /\ UNCHANGED <<journal, backoff>>
    /\ Begins(f, Flush)
    /\ Changeable

\* observeStreamFailure: a rate limit in a stream, long before completion.
Report(k) ==
    /\ phase = "up"
    /\ blocked' = blocked \cup {k} /\ live' = live \cup {k}
    /\ reported' = reported \cup {k}
    /\ UNCHANGED <<journal, slots, flush, promised>>
    /\ Changeable

\* Any other hook, or a round of the loop; one that finds nothing to save is
\* left out.
Wake(f) ==
    /\ phase = "up" /\ (f \in Background => loop) /\ flush[f] = Resting
    /\ ~Clean(journal) \/ ~Clean(slots)
    /\ UNCHANGED <<lifecycle, changes, backoff, journal, slots, error, disk>>
    /\ Begins(f, Flush)

----------------------------------------------------------------------------
(* The way through the files.                                              *)

At(f, section) == flush[f].todo # <<>> /\ Head(flush[f].todo) = section
Writing(f, section) == At(f, section) /\ flush[f].copy # NoCopy
Copies(f, copy) == flush' = [flush EXCEPT ![f].copy = copy]
Passes(f) == Goes(f, Tail(flush[f].todo))

Saves == UNCHANGED <<lifecycle, changes, backoff, promised>>

\* persistRuntime: nothing to save, or a copy while holding journalMu ...
CopyJournal(f) ==
    /\ At(f, "journal") /\ \A g \in Goroutines : ~Writing(g, "journal")
    /\ IF Clean(journal) THEN Passes(f)
       ELSE Copies(f, [revision |-> journal.revision, blocked |-> blocked])
    /\ UNCHANGED <<journal, slots, error, disk>>
    /\ Saves

\* Mutant: the revision of the moment counts as saved.
RevisionOfNow(copy) == journal.revision

RevisionOf(copy) == copy.revision

\* ... which replaces the file, or not.
WriteJournal(f) ==
    /\ Writing(f, "journal")
    /\ \/ /\ disk' = flush[f].copy.blocked /\ error' = "none"
          /\ journal' = [journal EXCEPT !.saved = RevisionOf(flush[f].copy)]
       \/ error' = "runtime_save_failed" /\ UNCHANGED <<disk, journal>>
    /\ Passes(f)
    /\ UNCHANGED slots
    /\ Saves

\* flushPersistence looks whether the slots are to be saved ...
CheckSlots(f) ==
    /\ At(f, "slots")
    /\ IF Clean(slots) THEN Passes(f) ELSE Goes(f, <<"save">> \o Tail(flush[f].todo))
    /\ UNCHANGED <<journal, slots, error, disk>>
    /\ Saves

Saving(f) == Writing(f, "save") \/ Writing(f, "current")

\* ... and persistCurrent copies them while holding persistMu ...
CopySlots(f) ==
    /\ At(f, "save") \/ At(f, "current")
    /\ flush[f].copy = NoCopy /\ \A g \in Goroutines : ~Saving(g)
    /\ Copies(f, [revision |-> slots.revision, blocked |-> {}])
    /\ UNCHANGED <<journal, slots, error, disk>>
    /\ Saves

\* Mutant: a failed save of the slots is not reported.
AfterFailureSilently(todo) == Tail(todo)

\* Only flushPersistence reports that a save of the slots failed.
AfterFailure(todo) ==
    IF Head(todo) = "save" THEN <<"report">> \o Tail(todo) ELSE Tail(todo)

\* ... and writes them ...
WriteSlots(f) ==
    /\ Saving(f)
    /\ \/ slots' = [slots EXCEPT !.saved = flush[f].copy.revision] /\ Passes(f)
       \/ Goes(f, AfterFailure(flush[f].todo)) /\ UNCHANGED slots
    /\ UNCHANGED <<journal, error, disk>>
    /\ Saves

\* ... and tells, in a section of its own, that it could not.
ReportError(f) ==
    /\ At(f, "report")
    /\ error' = "state_save_failed"
    /\ Passes(f)
    /\ UNCHANGED <<journal, slots, disk>>
    /\ Saves

FlushStep(f) ==
    \/ CopyJournal(f) \/ WriteJournal(f) \/ CheckSlots(f)
    \/ CopySlots(f) \/ WriteSlots(f) \/ ReportError(f)

----------------------------------------------------------------------------
(* Lifecycle.                                                              *)

\* configure loaded every file but the pool's, and stops the background.
Joining ==
    /\ phase \in {"down", "up"} /\ ~joining
    /\ phase = "down" => starts < MaxStarts
    /\ starts' = IF phase = "down" THEN starts + 1 ELSE starts
    /\ joining' = TRUE /\ loop' = FALSE
    /\ UNCHANGED <<phase, changes, backoff, journal, slots, error, flush, disk, promised>>

Joined == \A f \in Background : flush[f] = Resting

\* The pool's file cannot be read.
PoolFails ==
    /\ joining /\ Joined
    /\ joining' = FALSE
    /\ UNCHANGED <<phase, loop, starts, changes, backoff, journal, slots, error, flush,
                   disk, promised>>

\* restoreJournalLocked: only the process's first configuration does.
Restores == phase = "down"

\* The last section of configure, which may drop slots; the loop begins with
\* a round.  The journal was read before, when nobody wrote it yet.
Install(worker, dropped) ==
    /\ joining /\ Joined
    /\ phase' = "up" /\ joining' = FALSE /\ loop' = TRUE
    /\ IF Restores
       THEN /\ blocked' = disk
            /\ journal' = [revision |-> journal.revision + 1, saved |-> 0]
       ELSE UNCHANGED <<blocked, journal>>
    /\ Touched(dropped)
    /\ IF dropped THEN changes < MaxChanges /\ changes' = changes + 1
       ELSE UNCHANGED changes
    /\ Begins(worker, Flush)
    /\ UNCHANGED <<starts, error, disk, reported, live>>

\* setAccepting(FALSE) stops the background ...
Close ==
    /\ phase = "up" /\ ~joining
    /\ phase' = "closing" /\ loop' = FALSE
    /\ UNCHANGED <<joining, starts, changes, backoff, journal, slots, error, flush, disk,
                   promised>>

\* ... and shutdown saves everything once it has.
Closed ==
    /\ phase = "closing" /\ Joined
    /\ phase' = "closed"
    /\ UNCHANGED <<joining, loop, starts, changes, backoff, journal, slots, error, disk>>
    /\ Begins(Host, Shutdown)

\* The process stops, in order or not.  What was not saved is lost, and so
\* is a backoff that counted no revision.
Stop ==
    /\ phase # "down" \/ joining
    /\ phase' = "down" /\ joining' = FALSE /\ loop' = FALSE
    /\ blocked' = {} /\ journal' = Fresh /\ slots' = Fresh /\ error' = "none"
    /\ flush' = [f \in Goroutines |-> Resting]
    /\ live' = IF Clean(journal) THEN (live \ reported) \cup (disk \cap reported) ELSE disk
    /\ reported' = {} /\ promised' = [journal |-> 0, slots |-> 0]
    /\ UNCHANGED <<starts, changes, disk>>

----------------------------------------------------------------------------

JournalNext ==
    \/ \E f \in Hooks :
        \/ \E limited \in {{}} \cup {{k} : k \in Keys}, outcome \in CompletionOutcomes :
              Completion(f, limited, outcome)
        \/ Dropped(f)
    \/ \E f \in Background, k \in Keys, outcome \in TaskOutcomes : TaskEnds(f, k, outcome)
    \/ \E f \in Hooks \cup Background : Promotion(f)
    \/ PromotionInPassing
    \/ \E k \in Keys : Report(k)
    \/ \E f \in Hooks \cup Background : Wake(f)
    \/ \E f \in Goroutines : FlushStep(f)
    \/ \E worker \in Background, dropped \in BOOLEAN : Install(worker, dropped)
    \/ Joining \/ PoolFails \/ Close \/ Closed \/ Stop

JournalSpec == JournalInit /\ [][JournalNext]_journalVars

----------------------------------------------------------------------------

Sections == {"journal", "slots", "save", "current", "report"}
Revisions == [revision : Nat, saved : Nat]

JournalTypeOK ==
    /\ phase \in {"down", "up", "closing", "closed"}
    /\ joining \in BOOLEAN /\ loop \in BOOLEAN
    /\ starts \in Nat /\ changes \in Nat
    /\ blocked \subseteq Keys /\ disk \subseteq Keys
    /\ reported \subseteq Keys /\ live \subseteq Keys
    /\ journal \in Revisions /\ slots \in Revisions
    /\ journal.saved <= journal.revision /\ slots.saved <= slots.revision
    /\ error \in {"none", "runtime_save_failed", "state_save_failed"}
    /\ flush \in [Goroutines -> [todo : Seq(Sections), copy : Copy \cup {NoCopy}]]
    /\ promised \in [journal : Nat, slots : Nat]

\* "Atomic files retain ... backoff" (README.md:74): what is blocked is what
\* was blocked and not released since, across configurations and, once the
\* journal is clean, across restarts.
BackoffSurvives == phase # "down" => blocked = live

\* When no flush is under way, whatever there was to save when a flush last
\* began is saved in both files, or an error shows: one file's success never
\* hides the other's failure (src/journal.go:84), and who saves an older copy
\* hides no newer change.  What a promotion in passing changed since then is
\* neither saved nor shown until the next flush; what shutdown saves last is
\* not reported, as nobody would look.
UnsavedIsShown ==
    phase = "up" /\ error = "none" /\ (\A f \in Goroutines : flush[f] = Resting) =>
        journal.saved >= promised.journal /\ slots.saved >= promised.slots
=============================================================================
