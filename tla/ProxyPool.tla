------------------------------ MODULE ProxyPool ------------------------------
(***************************************************************************)
(* The dashboard's pool of proxies for acquisition (src/proxy_pool.go):    *)
(* which exits a wave of requests takes, what a result does to the exit it *)
(* came through, and how the pool is edited, tested and kept in its file.  *)
(* Results come back while the pool is edited; every edit names the        *)
(* revision its author looked at; the file may refuse to be written and    *)
(* the process may stop at any time.                                       *)
(*                                                                         *)
(* Labels, counters and times that only the dashboard shows are left out.  *)
(* With the pool switched off a wave takes the credential's own proxy and  *)
(* the pool neither chooses nor learns anything, so no step is needed.     *)
(***************************************************************************)
EXTENDS Integers, FiniteSets, FiniteSetsExt

CONSTANTS
    Ids,            \* entry IDs, drawn at random and never drawn twice
    Urls,           \* proxy addresses that parse
    Auths,          \* credentials that acquire
    Waves,          \* waves that may be in flight at once
    Pages,          \* dashboard pages, each with what it last loaded
    NoEntry, NoUrl,
    MaxEntries,     \* the cap on entries (128 in the code)
    MaxTests,       \* the cap on connection tests (4 in the code)
    Threshold,      \* poolFailureThreshold
    Cooldown,       \* poolCooldown
    Limits,         \* how many exits a wave may ask for
    Files,          \* what the file may hold when the plugin starts
    MaxRevision,    \* bound: edits of the pool
    MaxUses,        \* bound: waves of one credential through one entry
    MaxTime         \* bound: the clock stops here

ASSUME PoolAssumption ==
    /\ NoUrl \notin Urls
    /\ {MaxEntries, MaxTests, Threshold, Cooldown, MaxRevision, MaxUses, MaxTime} \subseteq Nat
    /\ Threshold > 0 /\ Limits \subseteq Nat \ {0}

VARIABLES
    data,        \* p.data
    disk,        \* the file
    unsaved,     \* p.persistenceError # ""
    minted,      \* IDs drawn so far
    uses,        \* p.selections[a].uses
    previous,    \* p.selections[a].previous
    waves,       \* the tickets of each wave whose results are outstanding
    testing,     \* p.testing
    checks,      \* connection tests that run: which entry, which address
    pages,       \* what each page last loaded
    now

vars == <<data, disk, unsaved, minted, uses, previous, waves, testing, checks, pages, now>>

Ticket == [id : Ids, url : Urls]

\* evidence (history): the addresses whose results stand in the failure
\* count, the cooldown or the last result.
Entry == [url : Urls, enabled : BOOLEAN, rotating : BOOLEAN,
          failures : 0..(Threshold - 1), cooldown : Nat,
          test : Urls \cup {NoUrl}, evidence : SUBSET Urls]

ASSUME NoEntryAssumption == NoEntry \notin Entry

NewEntry(url, enabled, rotating) ==
    [url |-> url, enabled |-> enabled, rotating |-> rotating, failures |-> 0,
     cooldown |-> 0, test |-> NoUrl, evidence |-> {}]

File == [enabled : BOOLEAN, revision : Nat, entries : [Ids -> Entry \cup {NoEntry}]]

Present(f) == {id \in Ids : f.entries[id] # NoEntry}

\* What an entry shows and is cooled down for was seen through its address.
SeenThroughAddress(e) == e.evidence \subseteq {e.url} /\ e.test \in {NoUrl, e.url}

ASSUME FilesAssumption ==
    Files \subseteq {f \in File : \A id \in Present(f) : SeenThroughAddress(f.entries[id])}

\* What an edit decides on: the part of the pool that only edits change.
Settings(f) ==
    [enabled |-> f.enabled,
     entries |-> [id \in Present(f) |->
                     [url |-> f.entries[id].url, enabled |-> f.entries[id].enabled,
                      rotating |-> f.entries[id].rotating]]]

Unused == [a \in Auths |-> [id \in Ids |-> 0]]

\* load, at the start of the plugin.
Init ==
    /\ disk \in Files /\ data = disk /\ unsaved = FALSE
    /\ minted = Present(disk)
    /\ uses = Unused /\ previous = [a \in Auths |-> {}]
    /\ waves = [w \in Waves |-> {}]
    /\ testing = {} /\ checks = {}
    /\ pages = [p \in Pages |-> disk]
    /\ now = 0

----------------------------------------------------------------------------

Available ==
    {id \in Present(data) : data.entries[id].enabled /\ now >= data.entries[id].cooldown}

\* Mutant: only the previous wave counts.
BeforeByTurn(a, x, y) == x \notin previous[a] /\ y \in previous[a]

\* Entries omitted in the previous wave first, then the least used.
Before(a, x, y) ==
    IF (x \in previous[a]) # (y \in previous[a]) THEN y \in previous[a]
    ELSE uses[a][x] < uses[a][y]

Smaller(m, n) == IF m < n THEN m ELSE n

\* routes with the pool switched on: the first n of the available entries,
\* ties broken at random.
Routes(w, a, n) ==
    /\ waves[w] = {} /\ data.enabled /\ Available # {}
    /\ \E S \in SUBSET Available :
         /\ Cardinality(S) = Smaller(n, Cardinality(Available))
         /\ \A x \in Available \ S, y \in S : ~Before(a, x, y)
         /\ \A x \in S : uses[a][x] < MaxUses
         /\ uses' = [uses EXCEPT ![a] = [id \in Ids |->
                        IF id \notin Present(data) THEN 0
                        ELSE IF id \in S THEN @[id] + 1 ELSE @[id]]]
         /\ previous' = [previous EXCEPT ![a] = S]
         /\ waves' = [waves EXCEPT ![w] =
                         {[id |-> id, url |-> data.entries[id].url] : id \in S}]
    /\ UNCHANGED <<data, disk, unsaved, minted, testing, checks, pages, now>>

Outcomes == {"ok", "account", "validation", "network"}

\* finish for the entry a result came through.  A failure of the account (or
\* a cancelled request) says nothing about the proxy, and what a rotating
\* proxy failed at may differ with its next exit.
Charge(e, url, outcome) ==
    CASE outcome = "ok" ->
            [e EXCEPT !.failures = 0, !.cooldown = 0, !.evidence = {url}]
      [] outcome = "account" \/ (e.rotating /\ outcome = "validation") ->
            [e EXCEPT !.evidence = @ \cup {url}]
      [] OTHER ->
            [e EXCEPT !.failures = IF @ + 1 = Threshold THEN 0 ELSE @ + 1,
                      !.cooldown = IF e.failures + 1 = Threshold THEN now + Cooldown ELSE @,
                      !.evidence = @ \cup {url}]

\* Mutant: an error of the file is overlooked.
PersistSilently(f) == disk' \in {f, disk} /\ unsaved' = FALSE

\* persistLocked: the file follows, or the page shows an error.
Persist(f) ==
    \/ disk' = f /\ unsaved' = FALSE
    \/ UNCHANGED disk /\ unsaved' = TRUE

\* A ticket still names its entry if neither was edited away.
Names(t) == t.id \in Present(data) /\ data.entries[t.id].url = t.url

\* A result of wave w comes back; the entry may be gone, changed or disabled
\* by then, and the result is dropped.
Finish(w, t, outcome) ==
    /\ t \in waves[w]
    /\ waves' = [waves EXCEPT ![w] = @ \ {t}]
    /\ IF Names(t) /\ data.enabled /\ data.entries[t.id].enabled
       THEN /\ data' = [data EXCEPT !.entries[t.id] = Charge(@, t.url, outcome)]
            /\ Persist(data')
       ELSE UNCHANGED <<data, disk, unsaved>>
    /\ UNCHANGED <<minted, uses, previous, testing, checks, pages, now>>

----------------------------------------------------------------------------

\* Mutant: the edit is in force although the file refused it.
StoreAnyway(next) ==
    /\ data' = [next EXCEPT !.revision = @ + 1]
    /\ Persist(data')

\* Mutant: an edit does not make a new revision.
StoreUnnumbered(next) ==
    \/ data' = next /\ disk' = next /\ unsaved' = FALSE
    \/ UNCHANGED <<data, disk>> /\ unsaved' = TRUE

\* An edit takes effect with its file, or not at all.
Store(next) ==
    LET numbered == [next EXCEPT !.revision = @ + 1]
    IN  \/ data' = numbered /\ disk' = numbered /\ unsaved' = FALSE
        \/ UNCHANGED <<data, disk>> /\ unsaved' = TRUE

\* A page may only edit the revision it looked at.
Current(p) == pages[p].revision = data.revision /\ data.revision < MaxRevision

SetMode(p, on) ==
    /\ Current(p)
    /\ Store([data EXCEPT !.enabled = on])
    /\ UNCHANGED <<minted, uses, previous, waves, testing, checks, pages, now>>

\* Mutant: a new address inherits the record of the old one.
SavedKeeping(e, url, enabled, rotating) ==
    [e EXCEPT !.url = url, !.enabled = enabled, !.rotating = rotating,
              !.cooldown = IF rotating THEN 0 ELSE @]

\* What saving does to an entry: a new address starts with no record.
Saved(e, url, enabled, rotating) ==
    LET f == IF url = e.url THEN e ELSE NewEntry(url, enabled, rotating)
    IN  [f EXCEPT !.enabled = enabled, !.rotating = rotating,
                  !.cooldown = IF rotating THEN 0 ELSE @]

Taken(id, url) == \E other \in Present(data) \ {id} : data.entries[other].url = url

Add(p, id, url, enabled, rotating) ==
    /\ Current(p) /\ id \notin minted /\ ~Taken(id, url)
    /\ Cardinality(Present(data)) < MaxEntries
    /\ minted' = minted \cup {id}
    /\ Store([data EXCEPT !.entries[id] = NewEntry(url, enabled, rotating)])
    /\ UNCHANGED <<uses, previous, waves, testing, checks, pages, now>>

Save(p, id, url, enabled, rotating) ==
    /\ Current(p) /\ id \in Present(data) /\ ~Taken(id, url)
    /\ Store([data EXCEPT !.entries[id] = Saved(@, url, enabled, rotating)])
    /\ UNCHANGED <<minted, uses, previous, waves, testing, checks, pages, now>>

Delete(p, id) ==
    /\ Current(p) /\ id \in Present(data)
    /\ Store([data EXCEPT !.entries[id] = NoEntry])
    /\ UNCHANGED <<minted, uses, previous, waves, testing, checks, pages, now>>

Reset(p, id) ==
    /\ Current(p) /\ id \in Present(data)
    /\ Store([data EXCEPT !.entries[id] = [@ EXCEPT !.failures = 0, !.cooldown = 0]])
    /\ UNCHANGED <<minted, uses, previous, waves, testing, checks, pages, now>>

\* A page loads the pool; the answer to an accepted edit is such a view, too.
Load(p) ==
    /\ pages' = [pages EXCEPT ![p] = data]
    /\ UNCHANGED <<data, disk, unsaved, minted, uses, previous, waves, testing, checks, now>>

----------------------------------------------------------------------------

\* startPoolTest
StartTest(id) ==
    /\ id \in Present(data) \ testing /\ Cardinality(testing) < MaxTests
    /\ testing' = testing \cup {id}
    /\ checks' = checks \cup {[id |-> id, url |-> data.entries[id].url]}
    /\ UNCHANGED <<data, disk, unsaved, minted, uses, previous, waves, pages, now>>

\* Mutant: a test of an entry that is gone is not taken off the list.
EndTestOfEntry(t) ==
    /\ t \in checks
    /\ checks' = checks \ {t}
    /\ IF Names(t)
       THEN /\ testing' = testing \ {t.id}
            /\ data' = [data EXCEPT !.entries[t.id].test = t.url]
            /\ Persist(data')
       ELSE UNCHANGED <<data, disk, unsaved, testing>>
    /\ UNCHANGED <<minted, uses, previous, waves, pages, now>>

\* A connection test ends, reaches its timeout or is cancelled.
EndTest(t) ==
    /\ t \in checks
    /\ checks' = checks \ {t} /\ testing' = testing \ {t.id}
    /\ IF Names(t)
       THEN /\ data' = [data EXCEPT !.entries[t.id].test = t.url]
            /\ Persist(data')
       ELSE UNCHANGED <<data, disk, unsaved>>
    /\ UNCHANGED <<minted, uses, previous, waves, pages, now>>

\* The process stops at any point and starts with what the file holds; the
\* pages in browsers keep what they loaded.
Restart ==
    /\ data' = disk /\ unsaved' = FALSE
    /\ uses' = Unused /\ previous' = [a \in Auths |-> {}]
    /\ waves' = [w \in Waves |-> {}]
    /\ testing' = {} /\ checks' = {}
    /\ UNCHANGED <<disk, minted, pages, now>>

Tick ==
    /\ now < MaxTime
    /\ now' = now + 1
    /\ UNCHANGED <<data, disk, unsaved, minted, uses, previous, waves, testing, checks, pages>>

Edit(p) ==
    \/ \E on \in BOOLEAN : SetMode(p, on)
    \/ \E id \in Ids :
        \/ Delete(p, id) \/ Reset(p, id)
        \/ \E url \in Urls, enabled, rotating \in BOOLEAN :
            Add(p, id, url, enabled, rotating) \/ Save(p, id, url, enabled, rotating)

Next ==
    \/ \E w \in Waves, a \in Auths, n \in Limits : Routes(w, a, n)
    \/ \E w \in Waves, t \in Ticket, outcome \in Outcomes : Finish(w, t, outcome)
    \/ \E p \in Pages : Edit(p) \/ Load(p)
    \/ \E id \in Ids : StartTest(id)
    \/ \E t \in Ticket : EndTest(t)
    \/ Restart
    \/ Tick

Spec == Init /\ [][Next]_vars

----------------------------------------------------------------------------

TypeOK ==
    /\ data \in File /\ disk \in File /\ unsaved \in BOOLEAN
    /\ minted \subseteq Ids
    /\ uses \in [Auths -> [Ids -> Nat]] /\ previous \in [Auths -> SUBSET Ids]
    /\ waves \in [Waves -> SUBSET Ticket]
    /\ testing \subseteq Ids /\ checks \subseteq Ticket
    /\ pages \in [Pages -> File]
    /\ now \in Nat

\* What an entry shows and is cooled down for was seen through the address it
\* has now, whatever results and tests were under way when it was edited.
EvidenceIsOfAddress == \A id \in Present(data) : SeenThroughAddress(data.entries[id])

\* "Failed saves leave the active settings unchanged": the settings in force
\* are those a restart would find.
SettingsAreDurable == Settings(data) = Settings(disk) /\ data.revision = disk.revision

\* When no error is shown, a restart loses no failure count, cooldown or test.
ErrorIsHonest == ~unsaved => data = disk

\* A page that holds the current revision looks at the current settings, so
\* an accepted edit never overwrites another page's.
RevisionNamesSettings ==
    \A p \in Pages :
        pages[p].revision = data.revision => Settings(pages[p]) = Settings(data)

\* An entry counts as under test exactly while its one test runs, even if it
\* is edited or deleted meanwhile.
TestsAreCounted ==
    /\ testing = {t.id : t \in checks}
    /\ Cardinality(checks) = Cardinality(testing) /\ Cardinality(testing) <= MaxTests

\* "Fairness is tracked independently per credential": while every entry
\* stays available, no credential uses one entry two waves more than another.
UsesBalanced ==
    \A a \in Auths, x, y \in Present(data) : uses[a][x] - uses[a][y] <= 1
==============================================================================
