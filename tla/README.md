# A TLA+ model of the Codex turn state manager

The plugin keeps, for every pair of a credential and an exact model (a *key*), up
to two `X-Codex-Turn-State` tokens: an *active* one that it puts into business
requests and a *standby*. It learns tokens from business responses and from
requests of its own ("probes"), and it has to be right about whose token a token
is, which model it was answered by, and when it may be used, while the host calls
its hooks concurrently and the dashboard changes everything underneath.

This directory models that core, checks it with TLC on small instances, and
proves what can be proved about it for instances of any size.

## The system

| component | state | operations | talks to | modules |
|---|---|---|---|---|
| turn-state slots (`slots.go`, `guard.go`, `fernet.go`) | `current`, `standby` | promote, accept, invalidate, drop another account's states | everybody, under `runtimeState.mu` | TurnSlots, SlotStore |
| business hooks (`plugin.go`, `manager.go`, `display.go`, `refresh.go`) | `requests`, `candidates` | bind, capture, observe model and end, complete | the host (credential files), slots, refresh demand | BusinessRequest |
| acquisition (`probe.go`, `probe_batch.go`) | `probing`, `activeCancels`, `credentialInFlight`, `probeCounts`, goroutines | reserve, waves, cache, release | host, proxy pool, slots | Acquisition |
| refresh scheduler (`refresh.go`) | `refreshRequests`, `lastProbe`, `blockedUntil`, the worker | demand, due times, wake-ups | acquisition | Scheduler |
| selection (`selection.go`), schedule (`schedule.go`) | accounts and models; limit, advance, retry; each with revision and file | load, show, save | slots (what is usable), requests, tasks | Settings |
| proxy pool (`proxy_pool.go`) | entries, health, tickets, per-credential rotation | choose routes, record results, edit, test | acquisition | ProxyPool |
| lifecycle and persistence (`plugin.go`, `journal.go`) | `generation`, `accepting`, revisions, files | configure, quiesce, shutdown, flush, restore | all | Acquisition, SlotFile, Journal |
| acquisition test (`cmd/hunt292`) | `report.json`, two workers | resume, reserve, send, finish, stop | two hosts of its own | Hunt |
| transport and egress (`transport.go`, `egress.go`) | none of its own | one request through one or two proxies | acquisition | |
| ABI glue, setup defaults, dashboard, `cmd/livecheck`, scripts | none that the core reads | | | |

One mutex, `mu`, guards nearly all state; what makes the code hard is what happens
between two sections under it: a hook asks the host for the credential's account
without the lock and acts on the answer later; a WebSocket event is checked in one
section and captured in another; a task forgets its key in one section and returns
its slots in the next; `configure` reads files, joins goroutines and only then
replaces the maps; a save copies under the lock and writes without it. The hazards
of the code, each at its line, are listed in `PROJECT.json`, with the properties
that cover them or the reason why none does.

## The modules

**TurnSlots** holds the rules for one key as pure operators, each named after the
function it translates: `Usable` is `usableSlotLocked`, `Promote` is
`promoteStandbyLocked`, `Accept` is `acceptStateLocked`, `Invalidate` is
`invalidateUsedStateLocked`. A token is a model value; its length (292 or 332) and
its issuance time are read from it in the code, so they are constants of the token
here. The model a response reported is one of match, mismatch and missing.

**SlotStore** is the abstract store: the pairs of all keys, the selection and the
clock, with one atomic action per operation, each possible at any time. It says
what the store guarantees whoever calls it. `OfferSettles` has an exception, which it
names: `Holds` compares tokens only, so that a token that is stored for an account that
was deselected since is a duplicate to the same token of the account that is selected now.

**BusinessRequest** is the detailed module of the request path. Each request walks
through the hooks the host calls (`hook`), and each hook is split where the code
releases the lock: `Begin` / `Bind...` around the credential lookup of
`interceptAfter`, `ReadOwner` / `Commit...` around that of `complete`, `WsCheck` /
`WsCapture` in `observeWebSocket`. `Reselect` saves accounts that were read before
the lock, as `updateSelection` does. The history variable `attempt` records what
really happened upstream; no action's guard uses it to decide what the code does,
it only bounds what upstream may still send, and the properties compare the store
with it. Its slots, selection and clock are shown to be a behaviour of SlotStore
(property `StoreSpec`): everything SlotStore guarantees holds of the code's hooks.
`HeaderIsSound` states the lifetime and the allowance for clocks itself (`MayCarry`),
and not by the predicate the hooks decide with.

**Acquisition** models the tasks: `Prepare` (`prepareProbe`), `ReadAuth`,
`StartWave` / `FetchEnd` / `WaveEnd` (`probeWave` and the loop of `runProbe`),
`Recheck`, `Commit` (the last locked section), `Release` (`releaseProbeSlots`), and
what interferes: `CancelAll`, `Reselect`, `SaveLimit`, account changes, and the
lifecycle calls, each in two halves around the join of `stopBackground`.
`withdrawn` and `cached` are history variables. When a key is due is left open.

**Scheduler** says when a key is due, and leaves open what a task does in between.
The loop of `refresh.go` is its three states: it wakes, lists what may be tried
(`Wakes`, `Snapshot`), starts the keys of its list one after the other, each checked
again (`TryJob`), and computes its sleep (`Sleep`); tasks end (`End`) and return
their slot later (`Release`); hooks demand a key (`QueueRefresh`, with or without a
rate limit), capture a state (`Capture`) or lose one (`Mismatch`); the dashboard selects,
cancels and tries by hand. Times are relative to now: of what lies ahead the
distance is kept, of what is past only the order, by which due keys are sorted, so
that a behaviour may go on for ever in finitely many states. `cooling` is a history
variable. The keys are those of one credential; acquisition is continuous (the
default; otherwise the loop lists fewer keys), the pool is off, so that a task takes
one slot, `refresh_on_errors` is off in it, generations belong to Acquisition, and
the wake-up that follows a task's return of its slots is part of the return.

**ProxyPool** models the pool of exits: `Routes` (the rotation, for waves of any
width), `Finish` (what a result does to the exit of its ticket), the edits
(`SetMode`, `Add`, `Save`, `Delete`, `Reset`) of dashboard pages that may hold an old
revision, `StartTest` / `EndTest`, the file that may refuse to be written, and
`Restart`. An entry's `evidence` is a history variable: the addresses whose results
its failure count, cooldown and last result stand for.

**SlotFile** models how the slots reach their file and come back: a change (`Offer`,
`Mismatch`, `Scan`) counts a revision, and each goroutine then goes through, except after
a promotion with no flush behind it (`ScanInPassing`),
`Check` (`flushPersistence`), `Snapshot` and `Written` or `WriteFails`
(`persistCurrent`), the two locks included; `ReadActive`, `ReadStandby` and `Merge` are
the sections of `configure`, which reads the file twice, joins the worker and only
then merges; `Stop` is the end of the process at any point, in order or not (an
orderly `shutdown` is a flush followed by it). `rejected` is a history variable: the
values that a mismatch invalidated and nobody accepted again.

**Journal** is the same for the other file: what a goroutine still has to do on its way
through the files is a queue of sections (`Flush`, `SaveAndFlush`, `Shutdown`), taken
one by one (`CopyJournal`, `WriteJournal`, `CheckSlots`, `CopySlots`, `WriteSlots`,
`ReportError`). Of the journal it keeps the backoff, of the slots the revision, and
the error message the two files share. A promotion counts in both files, by a goroutine
that flushes when it is done (`Promotion`) or in passing (`PromotionInPassing`: the loop
after its flush, a click that is refused); `Dropped` is the removal of another account's
states. `promised` is a history variable: the revisions there were when a flush last
began, which that flush was to save. `Install` is the last section of `configure`,
which restores the journal once per process.

**Settings** models selection and schedule as two settings with the same life: a save
is checked against the revision its page shows (`Save`), written (`WriteSetting`) and
only then used (`CommitSetting`), while `Configure`, `Load` and `Replace` read both files
with saves kept out, fail (`FailToLoad`), and pages stay open across `RestartProcess`.
What a setting means is in the other modules.

**Hunt** models the bounded acquisition test: `StartFast` and `StartSequential` go on
from whatever report is on disk; `Reserve` counts and saves an attempt before `Send`;
`Finish` records the answer and stops the other worker; `NoticeExpired`, `NoticeFound` and
`Fail` are the ways a worker stops by itself, in one section what the report says and
in another (`StopAll`) the other worker; `Interrupt` is the end of the process.

**SlotStoreProofs**, **TurnSlotsProofs**, **BusinessRequestProofs**, **AcquisitionProofs**,
**SchedulerProofs**, **ProxyPoolProofs**, **SlotFileProofs** and **PrivateFilesProofs** (Settings,
Journal and Hunt) hold the theorems. The `MC...` modules give the constants values; one
of them, `MCPrivateFiles`, checks three components in one run: Settings and Journal share
no variable, Hunt is another program, and a behaviour runs one of the three.

Definitions whose comment begins with *Mutant* are not used by the specifications:
each is a plausible bug in the operator that follows it, and serves to confirm
that the properties notice it.

## What is checked

| run | instance | shows |
|---|---|---|
| `slot_store` | 1 key, tokens s1, l1, s2, l2 issued at 0..3, lifetime 3, skew 1, 2 accounts, clock to 5 | `DistinctSlots`, `PreferredFirst`, `OfferSettles`, `NeverWorseOff`, `EchoKeepsRecord`: no order of operations breaks the pair, and an offer ends with a usable active state, with the one exception `HeldForAnother` |
| `request_retry` | 1 request, 2 attempts, 2 credentials, both transports, 2 tokens | `CandidateOfAttempt`, `AdmissionIsEarned`: what is cached is what the last attempt was answered with and completed |
| `request_selection` | 1 request, 1 credential whose account changes once, saved selections, 2 tokens that age differently, all modes switched at any time, `block_without_state` on | `NothingOutsideSelection`, `HeaderIsSound`, `GateHolds`, and the refinement `StoreSpec` |
| `request_concurrent` | 2 requests of one key, acquisitions in between | `OnlyOwnStateRemoved`, `MismatchInvalidatesUsed` |
| `acquisition_capacity` | 3 tasks, 2 keys of one credential, limits 1 and 3, budget 2 per hour | `CapacityExact`, `OnePerKey`, `BudgetHolds`, `WaveWithinLimit` |
| `acquisition_lifecycle` | 2 tasks of 1 key, account changes, 2 generations, fair | `NoWithdrawnCache`, `GenerationCoherent`, `StoppedTasksEnd`: tasks that are stopped end, and so do lifecycle calls |
| `scheduler` | 2 keys that share 1 slot, one of them in demand, spacing 1, backoff 2, rounds of 2 seconds, fair | `TimerCoversDeadlines`, `BackoffHonoured`, `DueKeysAreTried` (if tasks end, a key that is due is tried: for a request, a missing state, or a renewal), and the types |
| `pool_edits` | 1 entry at a time of 2 IDs and 2 addresses, 1 wave, 1 test, 1 page, failing file, restarts, 2 edits | `EvidenceIsOfAddress`, `SettingsAreDurable`, `ErrorIsHonest`, `RevisionNamesSettings`, `TestsAreCounted` |
| `pool_fairness` | 4 entries, waves of 1 to 3, up to 4 uses of an entry | `UsesBalanced` |
| `slot_file` | 1 key, 2 tokens, one hook and the refresh loop as the writers, failing writes, 2 processes, 4 changes per process, fair | `CleanMeansSaved`, `RejectedStaysGone`, `FileNeverOlder`, `EventuallySaved` |
| `private_files` | 2 settings, each with a page, 2 values, 2 saves, 2 processes; 1 key, 1 hook and 1 background goroutine, 3 changes, 2 processes; a report with 2 attempts per proxy, 3 runs | `UsedIsSaved`, `NoLostUpdate`; `BackoffSurvives`, `UnsavedIsShown`; `CapHolds`, `RejectionIsFinal` |

and one run that shows where the code does not do what the repository says:

| run | finding |
|---|---|
| `slot_file_reconfigure` | a reconfiguration brings back, from the file it read earlier, a state that a mismatch invalidated since, or whose removal is not yet saved |

### Bounds, and why they are enough

Two lengths and two ages of token are all that the rules for a pair distinguish;
four tokens make every combination of older/newer and shorter/longer meet in the
two slots and the candidate, and a clock that runs past the last expiry lets each
state become unusable before, between and after the others. The request runs use
two tokens (one of each length): which of two tokens is better is SlotStore's
question, theirs is whose token it is. Each request run varies one source of
interference at a time (retry; account, selection and mode; a second request),
because all of them at once are beyond an exhaustive search; quiesce meets one
request at a time, too. An account changes at most once there: one that changes
away and back within a single request is not distinguishable by any check the code
could make from the identity alone. The theorems have none of these limits, except
where they name one. Deadlock is not checked: every bounded instance runs out of
tokens, attempts or time, the plugin may simply be idle, and in the scheduler time
always goes on.

Three tasks and two keys are what it takes for a task in its last step, a new task
of the same key and a task of the other key to hold slots together. A limit of 3
lets one task hold several slots, 1 is a limit lowered below what is reserved. In
the lifecycle run the second task is the one that a key starts while its first
returns its slots.

In the scheduler two keys and one slot are the least contention there is; the backoff
outlasts the spacing so that each of the two is what delays a key in some states, and
a round is longer than the spacing so that a sleep is cut short by a deadline.
Nothing counts up: its behaviours are not bounded in length.

What an edit races with in the pool is one entry's ticket, test and health, so one
entry that is deleted, re-addressed and replaced by one of another ID shows it; a
second page adds nothing to a page that may be arbitrarily stale. The failure
threshold is 2 and the cap on tests 1, to reach both. The rotation is checked with
four entries because with three a wave of two always reaches what the previous one
left out.

Two writers are enough for one to hold an older copy of the slots than the other
writes, two processes for a restart from every file the first can leave behind,
and four changes for a write to be overtaken twice. `slot_file` lets a running
plugin be reconfigured only when its slots are saved and nobody changes them:
otherwise it would only repeat the finding of `slot_file_reconfigure`, which drops
exactly that condition (`HotReconfigure`). In the journal a third writer is the
thread of the lifecycle calls, and three changes are one for each goroutine to be
ahead of what another copied. Two saves of a setting make a page stale, two
processes make it survive the one it was loaded from. In a report of two attempts
per proxy the cap of a proxy and that of the whole are reached at different times,
and three runs are one of each kind and one that finds what they left.

### Assumptions about the host

The hooks of one request are called in order, those of different requests
concurrently; lifecycle calls are serialised. WebSocket events of one attempt may
be handled while the next attempt begins only where `WsOverlapsRetry` says so,
and every run excludes it. Setting it in `MCBusinessRetry.cfg` makes TLC violate
`CandidateOfAttempt`: `observeWebSocket` checks an event against the binding of one
attempt (`manager.go:232`) and `captureCandidate` attributes its token to the binding
of the next (`manager.go:254`). Whether a host does overlap them cannot be seen in
this repository, so it is recorded as a hazard and not as a finding.

### Fairness

`FairSpec` of Acquisition asks that a goroutine that can run does run, that host
calls return, and that a request ends *once its context is cancelled* (`Interrupted`):
by whoever stops its task, or by the wave after a decisive answer. A request has no
deadline of its own: the client sets no `Timeout` (`egress.go:39`), the deadline of the
connection is lifted after the tunnel (`transport.go:141`), the transport limits the TLS
handshake only (`transport.go:93`), and the contexts are cancelled but never expire
(`probe.go:210`, `probe_batch.go:67`). `StoppedTasksEnd` therefore speaks of tasks that
are stopped and of lifecycle calls, which stop all of them; `EveryTaskEnds`, which says it
of every task, does not hold (see the divergences). Nothing is assumed about the
dashboard, the host's lifecycle calls, or new tasks being started.

`FairSpec` of SlotFile asks that the refresh loop makes its rounds (it waits five
seconds at most, `nextWakeDelay`) and that goroutines go on; that `persistMu` is not
withheld for ever from a goroutine that waits for it (Go's mutex hands over to a
waiter after a millisecond); and that writes do not fail for ever, since with a disk
that never recovers nothing could be saved.

`FairSpec` of Scheduler asks that time and the loop go on; that from some time on the
host lists the credentials when it is asked (the loop tries nothing it cannot list);
and that from some time on nobody tries keys by hand, since a dashboard that takes every
slot the moment it is free could keep the loop from one for ever. A task that has ended
returns its slot while the loop sleeps, which strong fairness says: the loop wakes
again and again, and weak fairness would let it wait for every one of its rounds. It is
a scheduling no weaker than the real one, where a round takes milliseconds and a
task that returns its slots does not wait for the loop. That tasks *end* is not
part of it, as the code does not see to that: it is the premise `TasksEnd` of
`DueKeysAreTried`, in the same form.

## What is proved

All theorems hold for every set of keys, tokens, identities, tasks and every value
of the options, from the assumptions named in the modules alone, and from those that
a theorem names itself. What each says in a sentence is in `PROJECT.json`.

**SlotStoreProofs.** The inductive invariant is `IInv`: types, and for every key
`PairInv`, that the two slots hold different tokens, that no 292 stands behind a
332 and that stored evidence was not rejected. It is needed because acceptance and
promotion are only right about pairs they could have built: promoting a standby
that equals the active would duplicate it. From it: `TypeCorrect`,
`SlotsStayDistinct`, `PreferredStaysFirst`, `EvidenceIsStrict` and `OffersSettle` as
invariants, and `MismatchRemovesOnlyTheUsedValue`,
`KeysNeverWorseOff`, `EchoesKeepTheirRecord` as action properties. `EchoesChangeNothing`
says that an offer settles: a token that is offered again, by whoever and with whatever
record, changes nothing. `StrictEvidence`, `MismatchIsExact` and `EchoIsIdle` are proved
only; no run lists them. **TurnSlotsProofs** holds
the lemmas about the operators on one pair, which the request path uses too.

**BusinessRequestProofs.** `TypeCorrect`, `SelectionRules` (`NothingOutsideSelection`),
`HeadersAreSound`, `TheGateHolds` and `HooksImplementStore` hold without any condition. The
last is the refinement: every step of a hook is one of SlotStore's operations on the
mapped state, or changes nothing of it. `CandidatesStayWithAttempts`,
`AdmissionsAreEarned` and `OthersStatesStay` assume `~WsOverlapsRetry`. Their invariants:
`Held`, that a candidate exists only between an attempt's answer and its completion and
that a checked WebSocket event is one of the attempt under way; `Truthful`, that what a
binding and a candidate say of the answer is what really was answered; and
`PairsCorrect`, the pair invariant of every key. `AdmissionsAreEarned` also assumes
`MaxRotations <= 1`: an account that changes and changes back while a request is under way
is taken for the same. `MismatchesInvalidateTheUsedState` assumes `RoomForAll`, that
the table has room for every request, and no account change; its invariant
`AllAccounted` says that every request that carries a state has the binding that says so.

**AcquisitionProofs.** The inductive invariant `IInv` is type correctness,
`OnePerKey`, `GenerationCoherent`, `NoWithdrawnCache` and `StopIsKnown`: a task that
still may cache and was asked to stop has a cancelled context, and a task that has
cached is in its last step. The last part is what ties the others together: the
code never looks at why a task was stopped, it only checks its context in the
section that caches, so that section is right only because every way of stopping a
task reaches the cancel function filed under its key (`OnePerKey`) and because a
generation is replaced only after its tasks are gone (`GenerationCoherent`). Most
steps change one task or none of what the invariant reads; `QuietKeeps`,
`TaskUpdate` and `StopKeeps` say so once. From it follow `TypeCorrect`,
`KeysAreExclusive`, `GenerationsStayCoherent`, `WithdrawnTasksCacheNothing`; and
`BudgetIsKept` with one more induction, because a wave is never wider than what the
budget of its hour leaves (`WidthWithinBudget`).

`CapacityIsExact` and `WavesKeepWithinLimit` are about sums over tasks. `SumIsWeight`
turns a sum into the cardinality of a set of units (`Weight`), one for each slot a task
holds; then a step adds or takes the units of one task. The invariant `Capacity` says
that finitely many tasks live, that what is counted is what they hold, and that no task
runs more requests than it holds slots. A wave is no wider than what the limit saved by
then leaves beside the slots of the other tasks (`WidthWithinRoom`), and those send no
more than their slots, so that all together fit that limit.

`TasksComeToAnEnd` and `NothingStartsWhileDraining` are the part of `StoppedTasksEnd` that
needs no fairness. Each step of a task lowers the pair of `StepsLeft` and its requests in
flight, and nobody else's step moves it (`SamePlace`); and while a lifecycle call waits,
the context is cancelled and every task has been told (`Draining`), so that no task, no
worker and no wave starts. What fairness adds is that steps that can be taken are taken.

**SchedulerProofs.** `BackoffIsHonoured` rests on `Guarded`: as long as a failure asks
for backoff, the spacing or the backoff of the key lasts no less; trimming and
ranking of past times must not touch it. `DeadlinesAreCovered` rests on `Cover`: no time
lies further ahead than the delays allow, only busy keys are demanded, and the timer of
a sleeping loop is no later than any deadline it has to observe. What brings a deadline
forward afterwards also signals the loop, with the exceptions `TimerCoversDeadlines`
names. `TypeCorrect` adds that the list names no key twice, that no more tasks hold a
slot than `Limit` allows, and that ranks stay above `Spent`, since a key has three times
at most.

`RanksDecideAsTimes` justifies the abstraction of the model: for any times, what `Settle`
keeps of them (past times as ranks, what is overtaken by the retry dropped) gives every
key the same answers the code computes from the times themselves: whether it has a
state, was tried before, is due, how long it has to wait, and which of two is first.

**SlotFileProofs.** `TypeCorrect` and `FileGrowsNewer` hold for any configuration: a
copy is taken and written under `persistMu`, so it is no older than what the last
holder wrote (`Ordered`). `SavedIsOnDisk` and `NothingRejectedReturns` assume
`~HotReconfigure`: what is marked as saved is in the file (`Agreed`), a configuration
that meets a quiet plugin has read what is in memory, and a value that was
invalidated is neither in memory, nor in a copy under way that counts as current, nor in
the file of a clean process (`Gone`). `Gone` carries the rules of a pair along, in memory
and in the file, hence `PairsSurviveTheFile` (`PairsRuled`, which no run lists; under
`HotReconfigure` it does not hold, see the divergences).

**ProxyPoolProofs.** Typed entries whose health is that of their address (`Sound`), a
file that differs from memory in nothing but what the error announces (`Durable`), and
tests that are counted per entry and not per address (`Counted`) give
`EvidenceStaysWithAddress`, `EditsAreDurable`, `ErrorsAreShown`, `EditsMeetWhatTheySaw`
and `TestsStayCounted`. `UseIsBalanced` is about behaviours in which every entry stays
available and none is added, which its hypotheses `AllAvailable` and `NoneAdded` say;
entries may be tested, edited otherwise and deleted. Its invariant `Balanced` adds to
`UsesBalanced` what the preference for entries outside the previous wave must not do:
an entry that was in the previous wave is never less used than one that was not.

**PrivateFilesProofs.** For the settings, revisions name settings: what is used and what a
configuration has read are on file, and a page that shows the file's revision shows
the file (`Sound`); hence `SavedSettingsAreUsed` and `SavesLoseNoUpdate`. For the journal,
`OnTheWay` and `Aside` say what a goroutine holds at each section of its way and what it
still says, `Shown` that whoever could clear the error still has the slots
to check, and `Promises` that what a flush was to save is saved, shown, or still on
somebody's way: hence `BackoffIsKept` and `UnsavedStaysShown`. For the report, `Accounted` says
that the file counts every request that was sent or will be, and `Stopped` that a
rejection that is recorded or saved has stopped both workers: hence `CapIsKept` and
`RejectionsAreFinal`.

Not proved, only model-checked: the three properties under fairness, `StoppedTasksEnd`,
`EventuallySaved` and `DueKeysAreTried`, since liveness and ENABLED are out of the prover's
reach. Every other property of a passing run is a theorem. No module uses a RECURSIVE
operator.

## Known divergences

`slot_file_reconfigure` is the one a run lists. These are others that TLC shows when the
named configuration is changed as said; the passing runs and the theorems exclude them by
a named condition.

- **The table of requests is full** (`plugin.go:584`). A request beyond the cap gets a
  state and no binding, so that a mismatch does not invalidate what it used, though
  `README.md:44` says it does. `MaxRequests = 1` in `MCBusinessConcurrent.cfg` violates
  `MismatchInvalidatesUsed`; `RoomForAll` is what the theorem needs.
- **A configuration that fails on the pool's file** (`plugin.go:487`) returns after it
  has stopped the acquisition of the old one, and the old one stays accepting:
  "Background acquisition continues independently" (`README.md:5`) then does not hold
  until the next configuration. `AcceptingHasContext` as an INVARIANT of
  `MCAcquisitionLifecycle.cfg` is violated.
- **A deadline in between** (`refresh.go:76`). A deadline that passes after the loop has
  listed what is due and before it computes its sleep is in neither, and the key waits
  for the next round, five seconds at most. `DeadlinesObserved` as an INVARIANT of
  `MCScheduler.cfg` is violated. A capture that brings a renewal forward does not wake the
  loop either.
- **A silent upstream** (`egress.go:39`). A request that is never answered keeps its task,
  and with it the key and the slots of its credential, until somebody cancels it, saves a
  selection without the key, or calls the lifecycle. `EveryTaskEnds` as a PROPERTY of
  `MCAcquisitionLifecycle.cfg` is violated.
- **A promotion in passing** (`refresh.go:76`, `probe.go:167`). The loop promotes a standby
  when it computes its sleep, after its flush, and a click on the page that is then refused
  may promote one, too: both revisions are ahead of the files and no error says so, until
  the next hook or round, five seconds at most. `UnsavedIsShown` asks for what a flush
  was to save.
- **A duplicate of a deselected account** (`slots.go:85`). An offer compares tokens and not
  accounts, so that a token kept for an account that is no longer selected keeps the same token
  out for the selected one, and the key may be left without a usable state.
  `OfferSettles` without `HeldForAnother` is violated in `slot_store`.
- **A key between renewal and demand** (`refresh.go:147`). `DueKeysAreTried` holds of keys that
  stay due for a request or a missing state, and of keys that stay due for a renewal; one that
  changes between the two for ever may be passed over in both.
- **A backoff reported by a stream** (`refresh.go:190`) counts no revision: a restart
  before the next counted change loses it. So does a `lastProbe` that `prepareProbe` sets
  (`probe.go:196`). `BackoffSurvives` asks for no more than what the last revision covers.
- **A configuration that meets an unsaved change** (`plugin.go:503`) merges each slot by
  age alone: a 332 that is in the file may push out the 292 that replaced it in memory,
  and stand in both slots, though slots are kept "each preferring 292" (`README.md:40`).
  `PairsRuled` as an INVARIANT of `MCSlotFileReconfigure.cfg` is violated;
  `~HotReconfigure` is what the theorem needs.
- **Overlapping WebSocket events** (`manager.go:234`), see the assumptions about the host.
- **A sequential test run over the report of a fast one** (`cmd/hunt292/main.go:180`) keeps
  to the common cap, but knows nothing of the cap per proxy and drops what the report
  says of the credential. `CapHolds` and `RejectionIsFinal` say where they stop.

## What is not modelled

- Transport and egress: dialling, TLS and reading one SSE answer are I/O; a request of a
  wave ends with one of three outcomes.
- Setup defaults, labels, history rows and the status page; the browser code; the ABI
  glue, which passes buffers; `cmd/livecheck`, which sends one request after the other
  and keeps no state; scripts and the native integration tests.
- Of the request path: the reassembly of SSE fragments (an event is observed or not);
  API-key credentials (their identity never changes); a candidate of a zero binding,
  which `complete` drops.
- Of persistence: seeds, changes of policy, account or path between two configurations;
  of the journal everything but the backoff and its revision (spacing and budget travel
  with it, history is shown only); quiesce in Journal and SlotFile.
- Of the scheduler: acquisition that is not continuous, `refresh_on_errors`, retry seconds
  that change while a key waits, tasks that hold more than one slot (Acquisition has them).
- Of the pool: labels and counters only the dashboard shows, a configuration that names
  another file, the rotation's reset when 4096 credentials have used it, and the width
  `batchCapacity` proposes, which Acquisition leaves open.
- Of the acquisition test: starting hosts and bridges, the search of the archive and the
  classification of answers; their outcomes are open.

Next in line would be the composition of Acquisition with SlotStore (a wave's results
are offered in one section, in the order they arrived), tasks of several slots in the
scheduler, and a configuration that changes the policy or a path.
