----------------------------- MODULE Scheduler -----------------------------
(***************************************************************************)
(* When a key is tried (src/refresh.go 46-219, src/probe.go 154-223 and    *)
(* 307-323, src/probe_batch.go 25-36): the refresh loop lists what may be  *)
(* tried, sorts what is due, starts tasks one after the other and sleeps   *)
(* until the next deadline, while tasks end, hooks demand a key or report  *)
(* a rate limit, and the dashboard selects, cancels and tries by hand.     *)
(*                                                                         *)
(* The keys are those of one credential, which shares no limit with any    *)
(* other; acquisition is continuous, the default, and the proxy pool is    *)
(* off, so that a task reserves one slot.  Acquisition says what a task    *)
(* does in between and how it is stopped.                                  *)
(*                                                                         *)
(* Times are relative to now.  What lies ahead counts down; of what is     *)
(* past only the order matters, so past times are kept as ranks: 0 is the  *)
(* latest of them, -1 the one before.  Zero is the zero time of Go.        *)
(***************************************************************************)
EXTENDS Integers, FiniteSets, FiniteSetsExt, SequencesExt

CONSTANTS
    Keys,         \* exact models of one credential
    Rank,         \* how the keys compare as strings
    Limit,        \* config.Probe.ProxyConcurrency
    Retry,        \* config.Probe.RetrySeconds
    Backoff,      \* config.Probe.QuotaBackoffSeconds
    Poll,         \* the five seconds of nextWakeDelay
    Life,         \* how long a new state postpones acquisition at most
    Busy,         \* the keys business requests use
    Selections    \* the sets of keys the dashboard may select

ASSUME SchedulerAssumption ==
    /\ IsFiniteSet(Keys) /\ Rank \in [Keys -> Nat]
    /\ \A j, k \in Keys : Rank[j] = Rank[k] => j = k
    /\ {Limit, Retry, Backoff, Poll, Life} \subseteq Nat \ {0}
    /\ Busy \subseteq Keys
    /\ Selections \subseteq SUBSET Keys /\ Keys \in Selections

VARIABLES
    worker,    \* the refresh loop: "asleep", "listing" or "round"
    jobs,      \* the keys refreshDue still has to start
    timer,     \* what is left of the sleep
    wake,      \* is a signal in state.wake?
    selected,  \* state.selection
    demand,    \* keys of state.refreshRequests
    at,        \* the times of each key
    probing,   \* state.probing
    returning, \* tasks that forgot their key and still hold their slot
    cooling    \* history: how long a failure that asks for backoff still does

loop == <<worker, jobs, timer>>
tasks == <<probing, returning>>
vars == <<loop, wake, selected, demand, at, tasks, cooling>>

Zero == -(3 * Cardinality(Keys)) - 2
Spent == Zero + 1
Longest == Max({Retry, Backoff, Life})
Time == Zero..Longest

Room == Limit - Cardinality(probing) - SumFunction(returning)

Usable(k) == at[k].refresh # Zero

\* An explicit request, or no usable state, is due at once.
AcquisitionDue(k) == IF k \in demand THEN Zero ELSE at[k].refresh

NextRefresh(k) == Max({AcquisitionDue(k), at[k].retry, at[k].block})

ManualDue(k) == Max({at[k].retry, at[k].block})

Later(t) == IF t \in {Zero, Spent} THEN t ELSE t - 1

\* Drops what no longer counts beside the retry.
Trimmed(t) ==
    [refresh |-> IF t.refresh # Zero /\ t.refresh <= Min({0, t.retry}) THEN Spent
                 ELSE t.refresh,
     retry |-> t.retry,
     block |-> IF t.block <= t.retry THEN Zero ELSE t.block]

Past(c) == {t \in UNION {{c[k].refresh, c[k].retry, c[k].block} : k \in Keys} :
               Spent < t /\ t <= 0}

\* What is past, by its rank.
Ranked(t, past) == IF t \in past THEN -Cardinality({u \in past : t < u}) ELSE t

\* The times become those of c.
Settle(c) ==
    \E kept \in {[k \in Keys |-> Trimmed(c[k])]} : \E past \in {Past(kept)} :
        at' = [k \in Keys |-> [refresh |-> Ranked(kept[k].refresh, past),
                               retry |-> Ranked(kept[k].retry, past),
                               block |-> Ranked(kept[k].block, past)]]

Tracked == {k \in Keys : at[k].retry # Zero}

Ahead(S) == {NextRefresh(k) : k \in S} \cap (1..Longest)

NextWakeDelay ==
    Min({Poll} \cup Ahead((Tracked \cap selected) \ probing))

Init ==
    /\ worker = "listing" /\ jobs = <<>> /\ timer = 0 /\ wake = FALSE
    /\ selected = Keys /\ demand = {}
    /\ \E start \in {Zero, Life} :
          at = [k \in Keys |-> [refresh |-> start, retry |-> Zero, block |-> Zero]]
    /\ probing = {} /\ returning = [k \in Keys |-> 0]
    /\ cooling = [k \in Keys |-> 0]

----------------------------------------------------------------------------
(* The refresh loop.                                                       *)

\* refreshLoop leaves its select.
Wakes ==
    /\ worker = "asleep"
    /\ \/ wake /\ wake' = FALSE
       \/ timer = 0 /\ UNCHANGED wake
    /\ worker' = "listing" /\ timer' = 0
    /\ UNCHANGED <<jobs, selected, demand, at, tasks, cooling>>

\* Mutant: whoever comes first by name starves the others.
BeforeByName(j, k) == Rank[j] < Rank[k]

Before(j, k) ==
    \/ NextRefresh(j) < NextRefresh(k)
    \/ NextRefresh(j) = NextRefresh(k) /\ Rank[j] < Rank[k]

InOrder(s) == \A i, j \in DOMAIN s : i < j => Before(s[i], s[j])

\* The host lists the credential, or refuses to.  A state that expired stays
\* cached until something replaces it, hence the choice.
Snapshot(listed) ==
    /\ worker = "listing"
    /\ \E expired \in SUBSET {k \in Keys : ~Usable(k)} :
          LET keys == demand \cup {k \in Keys : Usable(k)} \cup expired
                          \cup (IF listed THEN Keys ELSE {})
              due == {k \in keys \cap selected : NextRefresh(k) <= 0}
          IN  jobs' \in {s \in SetToSeqs(due) : InOrder(s)}
    /\ worker' = "round"
    /\ UNCHANGED <<timer, wake, selected, demand, at, tasks, cooling>>

Start(k) ==
    /\ probing' = probing \cup {k}
    /\ Settle([at EXCEPT ![k].retry = Retry])

\* Mutant: prepareProbe trusts the list it is called from.
StartableUnchecked(k, due) == k \notin probing /\ k \in selected /\ Room > 0

\* Mutant: nobody counts the slots of the credential.
StartableBeyond(k, due) == k \notin probing /\ k \in selected /\ due <= 0

Startable(k, due) ==
    k \notin probing /\ k \in selected /\ due <= 0 /\ Room > 0

TryJob ==
    /\ worker = "round" /\ jobs # <<>>
    /\ jobs' = Tail(jobs)
    /\ LET k == Head(jobs)
       IN  IF Startable(k, NextRefresh(k)) THEN Start(k)
           ELSE UNCHANGED <<probing, at>>
    /\ UNCHANGED <<worker, timer, wake, selected, demand, returning, cooling>>

Sleep ==
    /\ worker = "round" /\ jobs = <<>>
    /\ worker' = "asleep" /\ timer' = NextWakeDelay
    /\ UNCHANGED <<jobs, wake, selected, demand, at, tasks, cooling>>

----------------------------------------------------------------------------
(* Tasks.                                                                  *)

BackOff(k) ==
    /\ Settle([at EXCEPT ![k].block = Backoff])
    /\ cooling' = [cooling EXCEPT ![k] = Backoff]

\* How long until a new state is to be renewed; it may be due already.
Renewal == {Spent} \cup 1..Life

\* The last locked section of runProbe.  A value that was known already is a
\* success that renews nothing; without the selection nothing is a success.
End(k, outcome) ==
    /\ k \in probing
    /\ probing' = probing \ {k} /\ returning' = [returning EXCEPT ![k] = @ + 1]
    /\ demand' = demand \ {k}
    /\ \/ /\ outcome = "ok" /\ k \in selected
          /\ \E t \in Renewal \cup ({at[k].refresh} \ {Zero}) :
                Settle([at EXCEPT ![k].refresh = t, ![k].block = Zero])
          /\ cooling' = [cooling EXCEPT ![k] = 0]
       \/ outcome = "failed" /\ UNCHANGED <<at, cooling>>
       \/ outcome = "backoff" /\ k \in selected /\ BackOff(k)
    /\ UNCHANGED <<loop, wake, selected>>

Outcomes == {"ok", "failed", "backoff"}

\* Mutant: nobody tells the loop that there is room.
ReleaseSilently(k) ==
    /\ returning[k] > 0
    /\ returning' = [returning EXCEPT ![k] = @ - 1]
    /\ UNCHANGED <<loop, wake, selected, demand, at, probing, cooling>>

Release(k) ==
    /\ returning[k] > 0
    /\ returning' = [returning EXCEPT ![k] = @ - 1]
    /\ wake' = TRUE
    /\ UNCHANGED <<loop, selected, demand, at, probing, cooling>>

----------------------------------------------------------------------------
(* Hooks and time.                                                         *)

\* queueRefreshLocked: a request is blocked, retried or fails.
QueueRefresh(k, limited) ==
    /\ k \in selected
    /\ demand' = demand \cup {k} /\ wake' = TRUE
    /\ IF limited THEN BackOff(k) ELSE UNCHANGED <<at, cooling>>
    /\ UNCHANGED <<loop, selected, tasks>>

\* complete accepts what a business response brought, or is offered a value
\* that changes nothing.
Capture(k) ==
    /\ k \in selected
    /\ demand' = demand \ {k}
    /\ \E t \in Renewal \cup {at[k].refresh} : Settle([at EXCEPT ![k].refresh = t])
    /\ UNCHANGED <<loop, wake, selected, tasks, cooling>>

\* complete invalidates the active state: the standby takes over, or the key
\* is demanded; and it queues the failure the response reported besides.
Mismatch(k, failure) ==
    /\ k \in selected /\ Usable(k)
    /\ \E t \in Renewal \cup {Zero} :
          /\ Settle([at EXCEPT ![k].refresh = t,
                               ![k].block = IF failure = "rate_limit" THEN Backoff ELSE @])
          /\ IF t = Zero \/ failure # "none"
             THEN demand' = demand \cup {k} /\ wake' = TRUE
             ELSE UNCHANGED <<demand, wake>>
    /\ cooling' = [cooling EXCEPT ![k] = IF failure = "rate_limit" THEN Backoff ELSE @]
    /\ UNCHANGED <<loop, selected, tasks>>

Failures == {"none", "error", "rate_limit"}

\* The states of a key expire some time after they were to be renewed.
Expire(k) ==
    /\ Usable(k) /\ at[k].refresh <= 0
    /\ Settle([at EXCEPT ![k].refresh = Zero])
    /\ UNCHANGED <<loop, wake, selected, demand, tasks, cooling>>

\* One second less until what lies ahead.
Tick ==
    /\ timer' = Max({0, timer - 1})
    /\ cooling' = [k \in Keys |-> Max({0, cooling[k] - 1})]
    /\ Settle([k \in Keys |-> [refresh |-> Later(at[k].refresh),
                               retry |-> Later(at[k].retry),
                               block |-> Later(at[k].block)]])
    /\ UNCHANGED <<worker, jobs, wake, selected, demand, tasks>>

----------------------------------------------------------------------------
(* The dashboard.                                                          *)

\* A probe by hand ignores the states there are, not the spacing.
Manual(k) ==
    /\ Startable(k, ManualDue(k))
    /\ Start(k)
    /\ UNCHANGED <<loop, wake, selected, demand, returning, cooling>>

CancelAll ==
    /\ demand' = {}
    /\ UNCHANGED <<loop, wake, selected, at, tasks, cooling>>

UpdateSelection(S) ==
    /\ selected' = S /\ demand' = demand \cap S /\ wake' = TRUE
    /\ UNCHANGED <<loop, at, tasks, cooling>>

----------------------------------------------------------------------------

Next ==
    \/ Wakes \/ TryJob \/ Sleep \/ Tick \/ CancelAll
    \/ \E listed \in BOOLEAN : Snapshot(listed)
    \/ \E S \in Selections : UpdateSelection(S)
    \/ \E k \in Keys :
        \/ \E outcome \in Outcomes : End(k, outcome)
        \/ Release(k) \/ Expire(k) \/ Manual(k)
    \/ \E k \in Busy :
        \/ \E limited \in BOOLEAN : QueueRefresh(k, limited)
        \/ Capture(k)
        \/ \E failure \in Failures : Mismatch(k, failure)

Spec == Init /\ [][Next]_vars

WorkerStep == Wakes \/ TryJob \/ Sleep \/ \E listed \in BOOLEAN : Snapshot(listed)
EndAsleep(k) == worker = "asleep" /\ \E outcome \in Outcomes : End(k, outcome)
ReleaseAsleep == worker = "asleep" /\ \E k \in Keys : Release(k)

\* The host answers.
Listing == worker = "listing" /\ worker' = "round" => Snapshot(TRUE)

\* The loop, the clock, and a task that has ended; not that a task ends.
FairSpec ==
    /\ Spec
    /\ WF_vars(Tick) /\ WF_vars(WorkerStep) /\ <>[][Listing]_vars
    /\ <>[][\A k \in Keys : ~Manual(k)]_vars
    /\ SF_vars(ReleaseAsleep)

----------------------------------------------------------------------------

TypeOK ==
    /\ worker \in {"asleep", "listing", "round"}
    /\ jobs \in Seq(Keys) /\ IsInjective(jobs)
    /\ timer \in 0..Poll /\ wake \in BOOLEAN
    /\ selected \in Selections /\ demand \subseteq Keys
    /\ at \in [Keys -> [refresh : Time, retry : Time, block : Time]]
    /\ probing \subseteq Keys /\ returning \in [Keys -> Nat] /\ Room >= 0
    /\ cooling \in [Keys -> 0..Backoff]

\* "The scheduler observes exact retry deadlines" (README.md:36): while it
\* sleeps, the timer ends no later than the deadline of any key that has been
\* tried before, is selected and is not being tried, if a request asked for it
\* or none replaces its states meanwhile (a capture that brings the renewal
\* forward does not wake the loop: the key waits, Poll at most).
TimerCoversDeadlines ==
    worker = "asleep" /\ ~wake =>
        \A k \in (Tracked \cap selected) \ probing :
            (k \in demand \/ k \notin Busy) /\ returning[k] = 0 /\ NextRefresh(k) > 0
            => timer <= NextRefresh(k)

\* The same of deadlines that have passed: the loop would not sleep on while a
\* key it was asked to try is due and has room.  It does not hold: a deadline
\* that passes between the listing and the computation of the sleep, or a task
\* that ends in between, is in neither (src/refresh.go:76), and the key waits
\* for the next round, Poll at most.  As an INVARIANT of MCScheduler.cfg it
\* shows the race; no property states it.
DeadlinesObserved ==
    worker = "asleep" /\ ~wake /\ Room > 0 =>
        \A k \in (Tracked \cap selected \cap demand) \ probing :
            returning[k] = 0 /\ NextRefresh(k) <= 0 => timer = 0

\* "Authentication/rate/quota errors retain backoff" (README.md:38): neither
\* the loop with an older list nor a click tries a key that is to be left alone.
BackoffHonoured ==
    [][\A k \in Keys : k \in probing' \ probing => cooling[k] = 0]_vars

\* No task hangs.  The code does not see to that: a request to an upstream that
\* falls silent ends only when it is cancelled (src/egress.go:39).
TasksEnd == \A k \in Keys : SF_vars(EndAsleep(k))

Overdue(k) == k \in selected /\ k \notin probing /\ NextRefresh(k) <= 0

\* Due at once, for a request or a missing state, and not for a renewal.
Urgent(k) == AcquisitionDue(k) = Zero

\* If tasks end, a key that is due is tried, however its credential's slots are
\* contended: neither a key that is due at once nor one whose state is to be
\* renewed stays so for ever.  (One that changes between the two for ever,
\* its states replaced and its requests withdrawn all the time, might.)
DueKeysAreTried ==
    TasksEnd => \A k \in Keys, urgent \in BOOLEAN :
                   []<>~(Overdue(k) /\ Urgent(k) = urgent)
==============================================================================
