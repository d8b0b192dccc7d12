----------------------------- MODULE Acquisition -----------------------------
(***************************************************************************)
(* Acquisition tasks and the capacity they share (src/probe.go 154-335,    *)
(* src/probe_batch.go, src/refresh.go 15-63, the lifecycle in src/plugin.go *)
(* 456-538 and 771-782).  A task acquires a state for one key: it reserves *)
(* slots of its credential's limit, sends waves of concurrent requests,    *)
(* and in one last locked section caches what it got and forgets its key;  *)
(* its slots are returned after that.  Cancel, a new selection, quiesce    *)
(* and reconfiguration may cut in between any two steps.                   *)
(*                                                                         *)
(* When a key is due is left open (any selected key may be tried at any    *)
(* time), and so is how many proxy exits are available: capacity,          *)
(* cancellation and shutdown must not depend on either.  The selection is  *)
(* a set of keys with the account each was saved for.                      *)
(***************************************************************************)
EXTENDS Integers, FiniteSets, FiniteSetsExt

CONSTANTS
    Keys,            \* (credential, exact model) pairs
    Auths,           \* credentials
    AuthOf,          \* the credential of each key
    Tasks,           \* goroutines running runProbe
    NoTask, NoKey,
    Identities,      \* accounts an auth file may hold
    NoIdentity,
    Limits,          \* values of proxy_concurrency the dashboard may save
    Continuous,      \* option probe.continuous: no hourly budget
    MaxPerHour,      \* option probe.max_per_hour
    MaxAttempts,     \* option probe.max_attempts: waves of one task
    MaxGenerations   \* bound: configurations of one process

ASSUME AcquisitionAssumption ==
    /\ AuthOf \in [Keys -> Auths]
    /\ NoTask \notin Tasks /\ NoKey \notin Keys /\ NoIdentity \notin Identities
    /\ Limits \subseteq Nat \ {0} /\ Limits # {}
    /\ Continuous \in BOOLEAN
    /\ MaxPerHour \in Nat \ {0} /\ MaxAttempts \in Nat \ {0} /\ MaxGenerations \in Nat

VARIABLES
    accepting,       \* state.accepting
    ctx,             \* state.probeCtx: "none", "live" or "cancelled"
    generation,      \* state.generation
    worker,          \* does the refresh loop of this generation run?
    lifecycle,       \* the lifecycle call in progress
    limit,           \* config.Probe.ProxyConcurrency
    inFlight,        \* state.credentialInFlight
    probing,         \* keys of state.probing
    activeCancel,    \* state.activeCancels: whose cancel function is filed
    counts,          \* state.probeCounts of this hour; only kept with a budget
    selected,        \* identities admitted by the selection; {} = deselected
    host,            \* the account each auth file holds
    tasks            \* the goroutines

controlVars == <<accepting, ctx, generation, worker, lifecycle, limit>>
vars == <<controlVars, inFlight, probing, activeCancel, counts, selected, host, tasks>>

Steps == {"free", "reserved", "ready", "wave", "finish", "recheck", "release"}

Task == [step : Steps, key : Keys \cup {NoKey}, slots : Nat, gen : Nat,
         identity : Identities \cup {NoIdentity},
         waves : Nat,          \* waves sent
         running : Nat,        \* requests of the wave not yet collected
         ok : BOOLEAN,         \* a candidate state was collected
         credential : BOOLEAN, \* a credential failure was collected
         cancelled : BOOLEAN,  \* the task's context is cancelled
         withdrawn : BOOLEAN,  \* history: something asked it to stop
         cached : BOOLEAN]     \* history: it put a state into the slots

Live == {t \in Tasks : tasks[t].step # "free"}
\* Tasks that have not passed the last locked section of runProbe.
Working == {t \in Live : tasks[t].step # "release"}
On(a) == {t \in Live : AuthOf[tasks[t].key] = a}

Free == [step |-> "free", key |-> NoKey, slots |-> 0, gen |-> 0,
         identity |-> NoIdentity, waves |-> 0, running |-> 0, ok |-> FALSE,
         credential |-> FALSE, cancelled |-> FALSE, withdrawn |-> FALSE,
         cached |-> FALSE]

Init ==
    /\ accepting = FALSE /\ ctx = "none" /\ generation = 0
    /\ worker = FALSE /\ lifecycle = "idle"
    /\ limit \in Limits
    /\ inFlight = [a \in Auths |-> 0]
    /\ probing = {}
    /\ activeCancel = [k \in Keys |-> NoTask]
    /\ counts = [a \in Auths |-> 0]
    /\ selected = [k \in Keys |-> {}]
    /\ host \in [Auths -> Identities]
    /\ tasks = [t \in Tasks |-> Free]

----------------------------------------------------------------------------

\* The tasks once every working task on the keys K is told to stop, where the
\* order reaches those whose cancel function is in C.
Stop(K, C) ==
    [t \in Tasks |-> [tasks[t] EXCEPT
        !.withdrawn = @ \/ (t \in Working /\ tasks[t].key \in K),
        !.cancelled = @ \/ t \in C]]

\* Mutant: a key may be acquired twice at once.
DueAgain(k) == accepting /\ ctx = "live" /\ selected[k] # {}

Due(k) == accepting /\ ctx = "live" /\ selected[k] # {} /\ k \notin probing

\* The hour's count of requests: prepareProbe opens a new hour when the old
\* one is over.
Budget == {counts, [a \in Auths |-> 0]}

HasBudget(a) == Continuous \/ counts'[a] < MaxPerHour

\* prepareProbe, from the refresh loop or from the dashboard: reserve slots
\* of the credential's limit, as many as the pool has exits for (at least
\* one), and file the cancel function.
Prepare(t, k) ==
    LET a == AuthOf[k]
    IN  /\ tasks[t].step = "free" /\ Due(k)
        /\ counts' \in Budget /\ HasBudget(a)
        /\ \E n \in 1..(limit - inFlight[a]) :
             /\ inFlight' = [inFlight EXCEPT ![a] = @ + n]
             /\ tasks' = [tasks EXCEPT ![t] = [Free EXCEPT
                              !.step = "reserved", !.key = k, !.slots = n, !.gen = generation]]
        /\ probing' = probing \cup {k}
        /\ activeCancel' = [activeCancel EXCEPT ![k] = t]
        /\ UNCHANGED <<controlVars, selected, host>>

\* prepareProbe that opens a new hour and then finds no slot left.
TurnAway(k) ==
    /\ Due(k) /\ limit <= inFlight[AuthOf[k]]
    /\ counts' \in Budget /\ HasBudget(AuthOf[k])
    /\ UNCHANGED <<controlVars, inFlight, probing, activeCancel, selected, host, tasks>>

\* runProbe reads the credential from the host and checks that its account
\* is still selected.
ReadAuth(t) ==
    LET a == AuthOf[tasks[t].key]
    IN  /\ tasks[t].step = "reserved"
        /\ tasks' = [tasks EXCEPT
             ![t].identity = host[a],
             ![t].step = IF host[a] \in selected[tasks[t].key] THEN "ready" ELSE "recheck"]
        /\ UNCHANGED <<controlVars, inFlight, probing, activeCancel, counts, selected, host>>

AuthFails(t) ==
    /\ tasks[t].step = "reserved"
    /\ tasks' = [tasks EXCEPT ![t].step = "recheck"]
    /\ UNCHANGED <<controlVars, inFlight, probing, activeCancel, counts, selected, host>>

\* Mutant: a task keeps the width it reserved.
WidthReserved(t) ==
    LET a == AuthOf[tasks[t].key]
        budget == IF Continuous THEN {} ELSE {MaxPerHour - counts[a]}
    IN  Min({tasks[t].slots} \cup budget)

\* Mutant: the budget checked at reservation is not checked again.
WidthUnbudgeted(t) ==
    Min({tasks[t].slots, limit - (inFlight[AuthOf[tasks[t].key]] - tasks[t].slots)})

\* What probeWave may send: the task's own slots, cut to what the present
\* limit leaves beside the other reservations and to the hour's budget.
Width(t) ==
    LET a == AuthOf[tasks[t].key]
        room == limit - (inFlight[a] - tasks[t].slots)
        budget == IF Continuous THEN {} ELSE {MaxPerHour - counts[a]}
    IN  Min({tasks[t].slots, room} \cup budget)

\* probeWave's locked section; the pool has an exit for each of n requests.
StartWave(t) ==
    LET a == AuthOf[tasks[t].key]
    IN  /\ tasks[t].step = "ready" /\ ~tasks[t].cancelled
        /\ \E n \in 1..Width(t) :
             /\ tasks' = [tasks EXCEPT ![t].step = "wave", ![t].waves = @ + 1,
                                       ![t].running = n]
             /\ counts' = IF Continuous THEN counts ELSE [counts EXCEPT ![a] = @ + n]
        /\ UNCHANGED <<controlVars, inFlight, probing, activeCancel, selected, host>>

\* No (further) wave: the task is cancelled, the limit or the budget leaves
\* nothing, or the pool has no exit, which may happen at any time.
NoWave(t) ==
    /\ tasks[t].step = "ready"
    /\ tasks' = [tasks EXCEPT ![t].step = "finish"]
    /\ UNCHANGED <<controlVars, inFlight, probing, activeCancel, counts, selected, host>>

\* A request of the wave ends and its result is collected.  A success or a
\* credential failure cancels the siblings; what a sibling had finished by
\* then still counts, so any outcome may follow any other.
FetchEnd(t, outcome) ==
    /\ tasks[t].step = "wave" /\ tasks[t].running > 0
    /\ tasks' = [tasks EXCEPT
                     ![t].running = @ - 1,
                     ![t].ok = @ \/ outcome = "ok",
                     ![t].credential = @ \/ outcome = "credential"]
    /\ UNCHANGED <<controlVars, inFlight, probing, activeCancel, counts, selected, host>>

\* All results are in: another wave, unless one decided the matter.
WaveEnd(t) ==
    /\ tasks[t].step = "wave" /\ tasks[t].running = 0
    /\ tasks' = [tasks EXCEPT ![t].step =
                    IF \/ tasks[t].ok \/ tasks[t].credential \/ tasks[t].cancelled
                       \/ tasks[t].waves >= MaxAttempts
                    THEN "finish" ELSE "ready"]
    /\ UNCHANGED <<controlVars, inFlight, probing, activeCancel, counts, selected, host>>

\* After a success the account is read once more; if it changed, or cannot
\* be read, the states are dropped.
Recheck(t) ==
    /\ tasks[t].step = "finish"
    /\ \E same \in {TRUE, FALSE} :
         /\ same => host[AuthOf[tasks[t].key]] = tasks[t].identity \/ ~tasks[t].ok
         /\ tasks' = [tasks EXCEPT ![t].step = "recheck", ![t].ok = @ /\ same]
    /\ UNCHANGED <<controlVars, inFlight, probing, activeCancel, counts, selected, host>>

\* Mutant: a cancelled task still caches what it collected.
CommitCancelled(t) ==
    /\ tasks[t].step = "recheck"
    /\ probing' = probing \ {tasks[t].key}
    /\ activeCancel' = [activeCancel EXCEPT ![tasks[t].key] = NoTask]
    /\ tasks' = [tasks EXCEPT ![t].step = "release",
          ![t].cached = /\ tasks[t].ok /\ accepting
                        /\ tasks[t].identity \in selected[tasks[t].key]]
    /\ UNCHANGED <<controlVars, inFlight, counts, selected, host>>

\* The last locked section of runProbe.
Commit(t) ==
    /\ tasks[t].step = "recheck"
    /\ IF tasks[t].gen # generation
       THEN /\ tasks' = [tasks EXCEPT ![t].step = "release"]
            /\ UNCHANGED <<probing, activeCancel>>
       ELSE /\ probing' = probing \ {tasks[t].key}
            /\ activeCancel' = [activeCancel EXCEPT ![tasks[t].key] = NoTask]
            /\ tasks' = [tasks EXCEPT ![t].step = "release",
                  ![t].cached = /\ tasks[t].ok /\ ~tasks[t].cancelled /\ accepting
                                /\ tasks[t].identity \in selected[tasks[t].key]]
    /\ UNCHANGED <<controlVars, inFlight, counts, selected, host>>

\* Mutant: a task returns one slot however many it reserved.
ReleaseOne(t) ==
    LET a == AuthOf[tasks[t].key]
    IN  /\ tasks[t].step = "release"
        /\ inFlight' = [inFlight EXCEPT ![a] = IF @ > 1 THEN @ - 1 ELSE 0]
        /\ tasks' = [tasks EXCEPT ![t] = Free]
        /\ UNCHANGED <<controlVars, probing, activeCancel, counts, selected, host>>

\* releaseProbeSlots and the end of the goroutine.
Release(t) ==
    LET a == AuthOf[tasks[t].key]
    IN  /\ tasks[t].step = "release"
        /\ inFlight' = [inFlight EXCEPT ![a] =
                           IF @ - tasks[t].slots > 0 THEN @ - tasks[t].slots ELSE 0]
        /\ tasks' = [tasks EXCEPT ![t] = Free]
        /\ UNCHANGED <<controlVars, probing, activeCancel, counts, selected, host>>

----------------------------------------------------------------------------

Cancellable(K) == {activeCancel[k] : k \in K} \ {NoTask}

\* management /cancel
CancelAll ==
    /\ tasks' = Stop(Keys, Cancellable(Keys))
    /\ UNCHANGED <<controlVars, inFlight, probing, activeCancel, counts, selected, host>>

\* updateSelection: keys leave or join the selection, with the accounts that
\* were read a while ago and may be any by now; attempts for the keys that
\* left are cancelled.
Reselect(chosen, read) ==
    /\ selected' = [k \in Keys |-> IF k \in chosen THEN {read[AuthOf[k]]} ELSE {}]
    /\ tasks' = Stop(Keys \ chosen, Cancellable(probing \ chosen))
    /\ UNCHANGED <<controlVars, inFlight, probing, activeCancel, counts, host>>

\* updateSchedule
SaveLimit(n) ==
    /\ limit' = n
    /\ UNCHANGED <<accepting, ctx, generation, worker, lifecycle, inFlight, probing,
                   activeCancel, counts, selected, host, tasks>>

Rotate(a, i) ==
    /\ host' = [host EXCEPT ![a] = i]
    /\ UNCHANGED <<controlVars, inFlight, probing, activeCancel, counts, selected, tasks>>

\* Mutant: the context is left alive while the worker is joined.
StopBackgroundAlive(next) ==
    /\ lifecycle = "idle" /\ lifecycle' = next
    /\ tasks' = Stop(Keys, Working)
    /\ UNCHANGED <<ctx, generation, worker, limit, inFlight, probing, activeCancel, counts,
                   selected, host>>

\* stopBackground, first half: cancel the context every task derives from.
StopBackground(next) ==
    /\ lifecycle = "idle"
    /\ lifecycle' = next
    /\ ctx' = IF ctx = "live" THEN "cancelled" ELSE ctx
    /\ tasks' = Stop(Keys, Working)
    /\ UNCHANGED <<generation, worker, limit, inFlight, probing, activeCancel, counts,
                   selected, host>>

BeginConfigure ==
    /\ generation < MaxGenerations
    /\ StopBackground("configure")
    /\ UNCHANGED accepting

\* setAccepting(false), called by quiesce and by shutdown.
BeginQuiesce(call) ==
    /\ call = "shutdown" => generation < MaxGenerations
    /\ accepting' = FALSE
    /\ StopBackground(call)

\* refreshLoop returns once its context is cancelled.
WorkerExit ==
    /\ worker /\ ctx = "cancelled"
    /\ worker' = FALSE
    /\ UNCHANGED <<accepting, ctx, generation, lifecycle, limit, inFlight, probing,
                   activeCancel, counts, selected, host, tasks>>

\* Mutant: only the worker is joined.
DrainedWorker == ~worker

\* stopBackground, second half: the worker and every task have been joined.
Drained == ~worker /\ Live = {}

\* configure replaces everything the old generation owned.
FinishConfigure ==
    /\ lifecycle = "configure" /\ Drained
    /\ lifecycle' = "idle"
    /\ generation' = generation + 1
    /\ ctx' = "live"
    /\ accepting' \in BOOLEAN
    /\ worker' = accepting'
    /\ limit' \in Limits
    /\ inFlight' = [a \in Auths |-> 0]
    /\ probing' = {}
    /\ activeCancel' = [k \in Keys |-> NoTask]
    /\ UNCHANGED <<counts, selected, host, tasks>>

\* configure fails after stopBackground: the proxy pool file cannot be read.
FailConfigure ==
    /\ lifecycle = "configure" /\ Drained
    /\ lifecycle' = "idle"
    /\ UNCHANGED <<accepting, ctx, generation, worker, limit, inFlight, probing,
                   activeCancel, counts, selected, host, tasks>>

\* quiesce returns; shutdown also retires the generation.
FinishQuiesce ==
    /\ lifecycle \in {"quiesce", "shutdown"} /\ Drained
    /\ lifecycle' = "idle"
    /\ generation' = IF lifecycle = "shutdown" THEN generation + 1 ELSE generation
    /\ UNCHANGED <<accepting, ctx, worker, limit, inFlight, probing,
                   activeCancel, counts, selected, host, tasks>>

Own(t) ==
    \/ ReadAuth(t) \/ AuthFails(t) \/ StartWave(t) \/ NoWave(t)
    \/ WaveEnd(t) \/ Recheck(t) \/ Commit(t) \/ Release(t)

Fetches(t) == \E outcome \in {"ok", "credential", "failed"} : FetchEnd(t, outcome)

Step(t) == Own(t) \/ Fetches(t)

Finish == FinishConfigure \/ FailConfigure \/ FinishQuiesce

Next ==
    \/ \E t \in Tasks : Step(t) \/ \E k \in Keys : Prepare(t, k)
    \/ \E k \in Keys : TurnAway(k)
    \/ CancelAll
    \/ \E chosen \in SUBSET Keys, read \in [Auths -> Identities] : Reselect(chosen, read)
    \/ \E n \in Limits : SaveLimit(n)
    \/ \E a \in Auths, i \in Identities : Rotate(a, i)
    \/ BeginConfigure
    \/ \E call \in {"quiesce", "shutdown"} : BeginQuiesce(call)
    \/ WorkerExit
    \/ Finish

Spec == Init /\ [][Next]_vars

\* A request has no deadline of its own, it ends for certain only when its
\* context is cancelled: the task's, or the wave's after a decisive result.
Interrupted(t) == tasks[t].cancelled \/ tasks[t].ok \/ tasks[t].credential

\* A goroutine that can run does run, host calls return, and a request obeys
\* its context.
FairSpec ==
    /\ Spec
    /\ \A t \in Tasks : /\ WF_vars(Own(t))
                        /\ WF_vars(Interrupted(t) /\ Fetches(t))
    /\ WF_vars(WorkerExit) /\ WF_vars(Finish)

----------------------------------------------------------------------------

TypeOK ==
    /\ accepting \in BOOLEAN /\ ctx \in {"none", "live", "cancelled"}
    /\ generation \in Nat /\ worker \in BOOLEAN
    /\ lifecycle \in {"idle", "configure", "quiesce", "shutdown"}
    /\ limit \in Limits
    /\ inFlight \in [Auths -> Nat] /\ counts \in [Auths -> Nat]
    /\ probing \subseteq Keys
    /\ activeCancel \in [Keys -> Tasks \cup {NoTask}]
    /\ selected \in [Keys -> SUBSET Identities] /\ host \in [Auths -> Identities]
    /\ tasks \in [Tasks -> Task]

Running(a) == MapThenSumSet(LAMBDA t : tasks[t].running, On(a))

\* No slot of a credential's limit leaks or is counted twice, however tasks
\* end: what is reserved is what the live tasks hold.
CapacityExact ==
    \A a \in Auths : inFlight[a] = MapThenSumSet(LAMBDA t : tasks[t].slots, On(a))

\* One acquisition per key at a time, and the entry of probing and the
\* filed cancel function are that acquisition's.
OnePerKey ==
    /\ probing = {tasks[t].key : t \in Working}
    /\ \A t \in Working : activeCancel[tasks[t].key] = t

\* A task that the dashboard cancelled, whose key left the selection (even if
\* it was selected again), or whose configuration was stopped caches nothing.
NoWithdrawnCache == \A t \in Tasks : ~(tasks[t].cached /\ tasks[t].withdrawn)

\* Draining works: no task outlives the configuration that started it, so
\* none can return slots to, or forget keys of, another generation.
GenerationCoherent == \A t \in Live : tasks[t].gen = generation

\* The requests of one credential never exceed its hourly budget, though
\* several tasks spend it at once.
BudgetHolds == ~Continuous => \A a \in Auths : counts[a] <= MaxPerHour

\* "A saved lower limit applies to subsequent waves of an existing task too":
\* whenever a wave starts, the requests in flight for its credential, those
\* of the other tasks included, are within the limit saved by then.
WaveWithinLimit ==
    [][\A t \in Tasks : StartWave(t) => Running(AuthOf[tasks[t].key])' <= limit]_vars

Unanswered(t) == tasks[t].step = "wave" /\ tasks[t].running > 0 /\ ~Interrupted(t)

\* An acquisition ends and gives its slots back, unless a request of it stays
\* unanswered for ever and nobody cancels it; quiesce, shutdown and
\* reconfiguration, which join the worker and every task, are not left waiting
\* by any upstream: stopping reaches every request.
StoppedTasksEnd ==
    /\ \A t \in Tasks : []<>(tasks[t].step = "free") \/ <>[]Unanswered(t)
    /\ lifecycle # "idle" ~> lifecycle = "idle"

\* What a limit on each request would give: every acquisition ends.  It does not
\* hold: the client of src/egress.go:39 has no timeout, and the deadline of its
\* connection is lifted once the tunnel stands (src/transport.go:141).  As a
\* PROPERTY of MCAcquisitionLifecycle.cfg it shows that; no run lists it.
EveryTaskEnds == \A t \in Tasks : []<>(tasks[t].step = "free")

\* "Background acquisition continues independently" (README.md:5): a plugin
\* that accepts requests has a live acquisition context between lifecycle
\* calls.  It does not hold: a configuration that fails on the
\* pool's file leaves the old one accepting with a cancelled context
\* (src/plugin.go:487).  As an INVARIANT of MCAcquisitionLifecycle.cfg it shows
\* that; no run lists it.
AcceptingHasContext == accepting /\ lifecycle = "idle" => ctx = "live"
==============================================================================
