--------------------------- MODULE ProxyPoolProofs ---------------------------
(***************************************************************************)
(* Theorems about ProxyPool, for any number of entries, credentials,       *)
(* waves, pages and tests, any threshold and cooldown, and whatever the    *)
(* file held at the start, as long as nothing in it was seen through       *)
(* another address (FilesAssumption).                                      *)
(***************************************************************************)
EXTENDS ProxyPool, FiniteSetTheorems, TLAPS

\* A pool whose records are all of the addresses they stand with.
Sound(f) == f \in File /\ \A id \in Present(f) : SeenThroughAddress(f.entries[id])

\* Types, of pools also that nothing in them is of another address.
Typed ==
    /\ Sound(data) /\ Sound(disk) /\ unsaved \in BOOLEAN
    /\ minted \subseteq Ids
    /\ uses \in [Auths -> [Ids -> Nat]] /\ previous \in [Auths -> SUBSET Ids]
    /\ waves \in [Waves -> SUBSET Ticket]
    /\ testing \subseteq Ids /\ checks \subseteq Ticket
    /\ pages \in [Pages -> File]
    /\ now \in Nat

\* The file has the settings in force, and all of the pool when no error is
\* shown; pages are not ahead of it.
Durable ==
    /\ SettingsAreDurable
    /\ ErrorIsHonest
    /\ \A p \in Pages : pages[p].revision <= data.revision
    /\ RevisionNamesSettings

\* Tests and the entries under test belong together one by one.
Counted ==
    /\ IsFiniteSet(checks) /\ IsFiniteSet(testing)
    /\ TestsAreCounted
    /\ \A t, u \in checks : t.id = u.id => t = u

\* What balance needs of the pool: no entry is disabled or cooled down, and
\* none is new.  Entries may be edited otherwise, tested and deleted.
AllAvailable == Available = Present(data)
NoneAdded == Present(data') \subseteq Present(data)

\* Balance, and that the rotation never passes over a less used entry for its
\* part in the previous wave alone.
Balanced ==
    /\ UsesBalanced
    /\ \A a \in Auths, x, y \in Present(data) :
          uses[a][x] < uses[a][y] => ~(x \in previous[a] /\ y \notin previous[a])

----------------------------------------------------------------------------
(* What results, tests and edits make of an entry.                         *)

\* A failure count starts below the threshold.
LEMMA ThresholdIsNat == Threshold \in Nat \ {0} /\ Cooldown \in Nat /\ 0 \in 0..(Threshold - 1)
<1>1. Threshold \in Nat /\ Threshold > 0 /\ Cooldown \in Nat
    BY PoolAssumption
<1> QED BY <1>1

\* A new entry has no record.
LEMMA NewEntrySound ==
    ASSUME NEW url \in Urls, NEW enabled \in BOOLEAN, NEW rotating \in BOOLEAN
    PROVE  /\ NewEntry(url, enabled, rotating) \in Entry
           /\ SeenThroughAddress(NewEntry(url, enabled, rotating))
  BY ThresholdIsNat DEF NewEntry, Entry, SeenThroughAddress

\* A result that came through an entry's address leaves the entry sound, and
\* its settings alone.
LEMMA ChargeSound ==
    ASSUME NEW e \in Entry, SeenThroughAddress(e), NEW outcome, now \in Nat
    PROVE  LET f == Charge(e, e.url, outcome)
           IN  /\ f \in Entry /\ SeenThroughAddress(f)
               /\ f.url = e.url /\ f.enabled = e.enabled /\ f.rotating = e.rotating
<1> DEFINE counted == IF e.failures + 1 = Threshold THEN 0 ELSE e.failures + 1
           until == IF e.failures + 1 = Threshold THEN now + Cooldown ELSE e.cooldown
<1>1. counted \in 0..(Threshold - 1) /\ until \in Nat
    BY ThresholdIsNat DEF Entry
<1>2. CASE outcome = "ok"
    BY <1>2, ThresholdIsNat DEF Charge, Entry, SeenThroughAddress
<1>3. CASE outcome = "account" \/ (e.rotating /\ outcome = "validation")
    BY <1>3 DEF Charge, Entry, SeenThroughAddress
<1>4. CASE outcome # "ok" /\ outcome # "account" /\ ~(e.rotating /\ outcome = "validation")
    <2>1. Charge(e, e.url, outcome) =
              [e EXCEPT !.failures = counted, !.cooldown = until, !.evidence = @ \cup {e.url}]
        BY <1>4 DEF Charge
    <2> DEFINE f == Charge(e, e.url, outcome)
    <2> HIDE DEF counted, until
    <2>2. /\ f.url = e.url /\ f.enabled = e.enabled /\ f.rotating = e.rotating
          /\ f.test = e.test /\ f.evidence = e.evidence \cup {e.url}
        BY <2>1 DEF Entry
    <2>3. f \in Entry
        BY <1>1, <2>1 DEF Entry
    <2>4. SeenThroughAddress(f)
        BY <2>2 DEF SeenThroughAddress
    <2> QED BY <2>2, <2>3, <2>4
<1> QED BY <1>2, <1>3, <1>4

\* An entry that is saved keeps its record only with its address.
LEMMA SavedSound ==
    ASSUME NEW e \in Entry, SeenThroughAddress(e),
           NEW url \in Urls, NEW enabled \in BOOLEAN, NEW rotating \in BOOLEAN
    PROVE  Saved(e, url, enabled, rotating) \in Entry
           /\ SeenThroughAddress(Saved(e, url, enabled, rotating))
<1> DEFINE f == IF url = e.url THEN e ELSE NewEntry(url, enabled, rotating)
<1>1. f \in Entry /\ SeenThroughAddress(f) /\ f.url = url
    BY NewEntrySound DEF NewEntry
<1>2. Saved(e, url, enabled, rotating) =
          [f EXCEPT !.enabled = enabled, !.rotating = rotating,
                    !.cooldown = IF rotating THEN 0 ELSE @]
    BY DEF Saved
<1> DEFINE g == Saved(e, url, enabled, rotating)
           until == IF rotating THEN 0 ELSE f.cooldown
<1> HIDE DEF f
<1>3. g = [f EXCEPT !.enabled = enabled, !.rotating = rotating, !.cooldown = until]
    BY <1>2
<1>4. until \in Nat
    BY <1>1 DEF Entry
<1> HIDE DEF until, g
<1>5. g \in Entry /\ g.url = f.url /\ g.test = f.test /\ g.evidence = f.evidence
    BY <1>1, <1>3, <1>4 DEF Entry
<1>6. SeenThroughAddress(g)
    BY <1>1, <1>5 DEF SeenThroughAddress
<1> QED BY <1>5, <1>6 DEF g

\* Replacing one entry by a sound one, or by none, keeps a pool sound.
LEMMA EntrySound ==
    ASSUME NEW f, Sound(f), NEW id \in Ids, NEW e,
           e = NoEntry \/ (e \in Entry /\ SeenThroughAddress(e))
    PROVE  Sound([f EXCEPT !.entries[id] = e])
  BY DEF Sound, File, Present

\* An entry's record does not belong to the settings.
LEMMA SameSettings ==
    ASSUME NEW f, Sound(f), NEW id \in Present(f), NEW e \in Entry,
           e.url = f.entries[id].url, e.enabled = f.entries[id].enabled,
           e.rotating = f.entries[id].rotating
    PROVE  /\ Settings([f EXCEPT !.entries[id] = e]) = Settings(f)
           /\ [f EXCEPT !.entries[id] = e].revision = f.revision
<1> DEFINE g == [f EXCEPT !.entries[id] = e]
<1>1. /\ f.entries \in [Ids -> Entry \cup {NoEntry}] /\ id \in Ids
      /\ g.entries = [f.entries EXCEPT ![id] = e] /\ g.enabled = f.enabled
      /\ g.revision = f.revision
    BY DEF Sound, File, Present
<1>2. Present(g) = Present(f)
    BY <1>1, NoEntryAssumption DEF Present
<1>3. \A i \in Present(f) : /\ g.entries[i].url = f.entries[i].url
                            /\ g.entries[i].enabled = f.entries[i].enabled
                            /\ g.entries[i].rotating = f.entries[i].rotating
    BY <1>1 DEF Present
<1> HIDE DEF g
<1>4. \A i \in Present(f) :
          [url |-> g.entries[i].url, enabled |-> g.entries[i].enabled,
           rotating |-> g.entries[i].rotating]
          = [url |-> f.entries[i].url, enabled |-> f.entries[i].enabled,
             rotating |-> f.entries[i].rotating]
    BY <1>3
<1>5. Settings(g).entries = Settings(f).entries
    BY <1>2, <1>4 DEF Settings
<1>6. Settings(g) = Settings(f)
    BY <1>1, <1>5 DEF Settings
<1> QED BY <1>1, <1>6 DEF g

----------------------------------------------------------------------------
(* Types, and evidence.                                                    *)

\* Numbering an edited pool keeps it sound and settles nothing else.
LEMMA NumberedSound ==
    ASSUME NEW f, Sound(f)
    PROVE  LET g == [f EXCEPT !.revision = @ + 1]
           IN  Sound(g) /\ g.revision = f.revision + 1
  BY DEF Sound, File, Present

\* An edit leaves sound pools in memory and in the file.
LEMMA StoreSound ==
    ASSUME Typed, NEW f, Sound(f), Store(f)
    PROVE  Sound(data') /\ Sound(disk') /\ unsaved' \in BOOLEAN
<1>1. Sound([f EXCEPT !.revision = @ + 1])
    BY NumberedSound
<1> QED BY <1>1 DEF Store, Typed

\* So does a result or a test that is recorded.
LEMMA PersistSound ==
    ASSUME Typed, NEW f, Sound(f), data' = f, Persist(f)
    PROVE  Sound(data') /\ Sound(disk') /\ unsaved' \in BOOLEAN
  BY DEF Persist, Typed

\* What a result records is sound, and settles nothing.
LEMMA FinishRecord ==
    ASSUME Typed, NEW t \in Ticket, Names(t), NEW outcome
    PROVE  LET f == [data EXCEPT !.entries[t.id] = Charge(@, t.url, outcome)]
           IN  Sound(f) /\ Settings(f) = Settings(data) /\ f.revision = data.revision
<1> DEFINE old == data.entries[t.id]
           e == Charge(old, t.url, outcome)
<1>1. /\ t.id \in Present(data) /\ t.id \in Ids /\ old.url = t.url
      /\ old \in Entry /\ SeenThroughAddress(old)
    BY DEF Names, Typed, Sound, File, Present
<1>2. /\ e \in Entry /\ SeenThroughAddress(e)
      /\ e.url = old.url /\ e.enabled = old.enabled /\ e.rotating = old.rotating
    <2>1. now \in Nat /\ e = Charge(old, old.url, outcome)
        BY <1>1 DEF Typed
    <2> HIDE DEF old, e
    <2> QED BY <1>1, <2>1, ChargeSound
<1> HIDE DEF e
<1>3. Sound([data EXCEPT !.entries[t.id] = e])
    BY <1>1, <1>2, EntrySound DEF Typed
<1>4. /\ Settings([data EXCEPT !.entries[t.id] = e]) = Settings(data)
      /\ [data EXCEPT !.entries[t.id] = e].revision = data.revision
    BY <1>1, <1>2, SameSettings DEF Typed
<1> QED BY <1>3, <1>4 DEF e

\* What a test records is sound, and settles nothing.
LEMMA TestRecord ==
    ASSUME Typed, NEW t \in Ticket, Names(t)
    PROVE  LET f == [data EXCEPT !.entries[t.id].test = t.url]
           IN  Sound(f) /\ Settings(f) = Settings(data) /\ f.revision = data.revision
<1> DEFINE old == data.entries[t.id]
           e == [old EXCEPT !.test = t.url]
<1>1. /\ t.id \in Present(data) /\ t.id \in Ids /\ old.url = t.url /\ t.url \in Urls
      /\ old \in Entry /\ SeenThroughAddress(old)
    BY DEF Names, Typed, Sound, File, Present, Ticket
<1>2. /\ e \in Entry /\ SeenThroughAddress(e)
      /\ e.url = old.url /\ e.enabled = old.enabled /\ e.rotating = old.rotating
    BY <1>1 DEF Entry, SeenThroughAddress
<1> HIDE DEF e
<1>3. Sound([data EXCEPT !.entries[t.id] = e])
    BY <1>1, <1>2, EntrySound DEF Typed
<1>4. /\ Settings([data EXCEPT !.entries[t.id] = e]) = Settings(data)
      /\ [data EXCEPT !.entries[t.id] = e].revision = data.revision
    BY <1>1, <1>2, SameSettings DEF Typed
<1> QED BY <1>3, <1>4 DEF e

\* Every edit stores a sound pool of the revision it was made from.
LEMMA EditStores ==
    ASSUME Typed, NEW p \in Pages, Edit(p)
    PROVE  /\ \E f : Sound(f) /\ f.revision = data.revision /\ Store(f)
           /\ minted' \subseteq Ids
           /\ UNCHANGED <<uses, previous, waves, testing, checks, pages, now>>
<1>0. Sound(data) /\ minted \subseteq Ids
    BY DEF Typed
<1>e. ASSUME NEW id \in Ids, NEW e, e = NoEntry \/ (e \in Entry /\ SeenThroughAddress(e))
      PROVE  Sound([data EXCEPT !.entries[id] = e])
             /\ [data EXCEPT !.entries[id] = e].revision = data.revision
    <2>1. Sound([data EXCEPT !.entries[id] = e])
        BY <1>0, <1>e, EntrySound
    <2> QED BY <1>0, <2>1 DEF Sound, File
<1>p. ASSUME NEW id \in Present(data)
      PROVE  id \in Ids /\ data.entries[id] \in Entry /\ SeenThroughAddress(data.entries[id])
    BY <1>0, <1>p DEF Sound, File, Present
<1>1. ASSUME NEW on \in BOOLEAN, SetMode(p, on)
      PROVE  \E f : Sound(f) /\ f.revision = data.revision /\ Store(f)
    <2>1. Sound([data EXCEPT !.enabled = on])
          /\ [data EXCEPT !.enabled = on].revision = data.revision
        BY <1>0 DEF Sound, File, Present
    <2> QED BY <1>1, <2>1 DEF SetMode
<1>2. ASSUME NEW id \in Ids, Delete(p, id)
      PROVE  \E f : Sound(f) /\ f.revision = data.revision /\ Store(f)
    BY <1>2, <1>e DEF Delete
<1>3. ASSUME NEW id \in Ids, Reset(p, id)
      PROVE  \E f : Sound(f) /\ f.revision = data.revision /\ Store(f)
    <2> DEFINE e == [data.entries[id] EXCEPT !.failures = 0, !.cooldown = 0]
    <2>1. e \in Entry /\ SeenThroughAddress(e)
        BY <1>3, <1>p, ThresholdIsNat DEF Reset, Entry, SeenThroughAddress
    <2>2. Store([data EXCEPT !.entries[id] = e])
        BY <1>3 DEF Reset
    <2> HIDE DEF e
    <2> QED BY <1>e, <2>1, <2>2
<1>4. ASSUME NEW id \in Ids, NEW url \in Urls, NEW enabled \in BOOLEAN, NEW rotating \in BOOLEAN,
             Add(p, id, url, enabled, rotating)
      PROVE  \E f : Sound(f) /\ f.revision = data.revision /\ Store(f)
    <2> DEFINE e == NewEntry(url, enabled, rotating)
    <2>1. e \in Entry /\ SeenThroughAddress(e)
        BY NewEntrySound
    <2>2. Store([data EXCEPT !.entries[id] = e])
        BY <1>4 DEF Add
    <2> HIDE DEF e
    <2> QED BY <1>e, <2>1, <2>2
<1>5. ASSUME NEW id \in Ids, NEW url \in Urls, NEW enabled \in BOOLEAN, NEW rotating \in BOOLEAN,
             Save(p, id, url, enabled, rotating)
      PROVE  \E f : Sound(f) /\ f.revision = data.revision /\ Store(f)
    <2> DEFINE e == Saved(data.entries[id], url, enabled, rotating)
    <2>1. e \in Entry /\ SeenThroughAddress(e)
        BY <1>5, <1>p, SavedSound DEF Save
    <2>2. Store([data EXCEPT !.entries[id] = e])
        BY <1>5 DEF Save
    <2> HIDE DEF e
    <2> QED BY <1>e, <2>1, <2>2
<1>6. minted' \subseteq Ids
    BY <1>0 DEF Edit, SetMode, Delete, Reset, Add, Save
<1>7. UNCHANGED <<uses, previous, waves, testing, checks, pages, now>>
    BY DEF Edit, SetMode, Delete, Reset, Add, Save
<1> QED BY <1>1, <1>2, <1>3, <1>4, <1>5, <1>6, <1>7 DEF Edit

\* Every step keeps the types.
LEMMA TypedStep == Typed /\ [Next]_vars => Typed'
<1> SUFFICES ASSUME Typed, [Next]_vars PROVE Typed'
    OBVIOUS
<1>1. ASSUME NEW w \in Waves, NEW a \in Auths, NEW n \in Limits, Routes(w, a, n) PROVE Typed'
    <2>1. PICK S \in SUBSET Available :
              /\ uses' = [uses EXCEPT ![a] = [id \in Ids |->
                             IF id \notin Present(data) THEN 0
                             ELSE IF id \in S THEN @[id] + 1 ELSE @[id]]]
              /\ previous' = [previous EXCEPT ![a] = S]
              /\ waves' = [waves EXCEPT ![w] =
                              {[id |-> id, url |-> data.entries[id].url] : id \in S}]
        BY <1>1 DEF Routes
    <2>2. S \subseteq Ids /\ \A id \in S : [id |-> id, url |-> data.entries[id].url] \in Ticket
        BY DEF Available, Typed, Sound, File, Present, Entry, Ticket
    <2>3. [id \in Ids |-> IF id \notin Present(data) THEN 0
                          ELSE IF id \in S THEN uses[a][id] + 1 ELSE uses[a][id]]
          \in [Ids -> Nat]
        BY DEF Typed
    <2>4. uses' \in [Auths -> [Ids -> Nat]]
        BY <2>1, <2>3 DEF Typed
    <2>5. previous' \in [Auths -> SUBSET Ids] /\ waves' \in [Waves -> SUBSET Ticket]
        BY <2>1, <2>2 DEF Typed
    <2>6. UNCHANGED <<data, disk, unsaved, minted, testing, checks, pages, now>>
        BY <1>1 DEF Routes
    <2> QED BY <2>4, <2>5, <2>6 DEF Typed
<1>2. ASSUME NEW w \in Waves, NEW t \in Ticket, NEW outcome \in Outcomes, Finish(w, t, outcome)
      PROVE  Typed'
    <2>1. Sound(data') /\ Sound(disk') /\ unsaved' \in BOOLEAN
        <3>1. CASE Names(t) /\ data.enabled /\ data.entries[t.id].enabled
            BY <1>2, <3>1, FinishRecord, PersistSound DEF Finish
        <3>2. CASE ~(Names(t) /\ data.enabled /\ data.entries[t.id].enabled)
            BY <1>2, <3>2 DEF Finish, Typed
        <3> QED BY <3>1, <3>2
    <2>2. waves' \in [Waves -> SUBSET Ticket]
        BY <1>2 DEF Finish, Typed
    <2> QED BY <1>2, <2>1, <2>2 DEF Finish, Typed
<1>3. ASSUME NEW p \in Pages, Edit(p) PROVE Typed'
    <2>1. Sound(data') /\ Sound(disk') /\ unsaved' \in BOOLEAN
        BY <1>3, EditStores, StoreSound
    <2> QED BY <1>3, <2>1, EditStores DEF Typed
<1>4. ASSUME NEW p \in Pages, Load(p) PROVE Typed'
    BY <1>4 DEF Load, Typed, Sound
<1>5. ASSUME NEW id \in Ids, StartTest(id) PROVE Typed'
    <2>1. [id |-> id, url |-> data.entries[id].url] \in Ticket
        BY <1>5 DEF StartTest, Typed, Sound, File, Present, Entry, Ticket
    <2> QED BY <1>5, <2>1 DEF StartTest, Typed
<1>6. ASSUME NEW t \in Ticket, EndTest(t) PROVE Typed'
    <2>1. Sound(data') /\ Sound(disk') /\ unsaved' \in BOOLEAN
        <3>1. CASE Names(t)
            BY <1>6, <3>1, TestRecord, PersistSound DEF EndTest
        <3>2. CASE ~Names(t)
            BY <1>6, <3>2 DEF EndTest, Typed
        <3> QED BY <3>1, <3>2
    <2> QED BY <1>6, <2>1 DEF EndTest, Typed
<1>7. CASE Restart
    BY <1>7 DEF Restart, Unused, Typed
<1>8. CASE Tick
    BY <1>8 DEF Tick, Typed
<1>9. CASE UNCHANGED vars
    BY <1>9 DEF vars, Typed
<1> QED BY <1>1, <1>2, <1>3, <1>4, <1>5, <1>6, <1>7, <1>8, <1>9 DEF Next

\* The types hold at first.
LEMMA InitTyped == Init => Typed
<1> SUFFICES ASSUME Init PROVE Typed
    OBVIOUS
<1>1. Sound(disk)
    BY FilesAssumption DEF Init, Sound
<1>2. disk \in File /\ Present(disk) \subseteq Ids
    BY <1>1 DEF Sound, Present
<1> QED BY <1>1, <1>2 DEF Init, Typed, Unused

\* Type correctness of the pool.
THEOREM TypeCorrect == Spec => []TypeOK
<1>1. Typed => TypeOK
    BY DEF Typed, TypeOK, Sound
<1> QED BY InitTyped, TypedStep, <1>1, PTL DEF Spec

\* No result and no test, however late, is held against an address it was
\* not seen through.
THEOREM EvidenceStaysWithAddress == Spec => []EvidenceIsOfAddress
<1>1. Typed => EvidenceIsOfAddress
    BY DEF Typed, Sound, EvidenceIsOfAddress
<1> QED BY InitTyped, TypedStep, <1>1, PTL DEF Spec

----------------------------------------------------------------------------
(* The file.                                                               *)

\* An edit is in force with its file, or shows an error.
LEMMA StoreDurable ==
    ASSUME Typed, Durable, NEW f, Sound(f), f.revision = data.revision, Store(f),
           UNCHANGED pages
    PROVE  Durable'
<1> DEFINE g == [f EXCEPT !.revision = @ + 1]
<1>1. g.revision = data.revision + 1
    BY NumberedSound
<1>2. \/ data' = g /\ disk' = g /\ unsaved' = FALSE
      \/ UNCHANGED <<data, disk>> /\ unsaved' = TRUE
    BY DEF Store
<1>3. \A p \in Pages : pages[p].revision \in Nat /\ data.revision \in Nat
    BY DEF Typed, Sound, File
<1> HIDE DEF g
<1>4. CASE data' = g /\ disk' = g /\ unsaved' = FALSE
    <2>1. \A p \in Pages : pages'[p].revision < data'.revision
        BY <1>1, <1>3, <1>4 DEF Durable
    <2>2. \A p \in Pages : pages'[p].revision <= data'.revision
                           /\ pages'[p].revision # data'.revision
        BY <1>1, <1>3, <1>4, <2>1
    <2>3. SettingsAreDurable'
        BY <1>4 DEF SettingsAreDurable, Settings, Present
    <2>4. ErrorIsHonest'
        BY <1>4 DEF ErrorIsHonest
    <2> QED BY <2>2, <2>3, <2>4 DEF Durable, RevisionNamesSettings
<1>5. CASE UNCHANGED <<data, disk>> /\ unsaved' = TRUE
    BY <1>5 DEF Durable, SettingsAreDurable, ErrorIsHonest, RevisionNamesSettings, Settings,
       Present
<1> QED BY <1>2, <1>4, <1>5

\* What is recorded leaves the settings as they are in the file.
LEMMA PersistDurable ==
    ASSUME Durable, NEW f, Settings(f) = Settings(data), f.revision = data.revision,
           data' = f, Persist(f), UNCHANGED pages
    PROVE  Durable'
<1>1. Settings(data') = Settings(data) /\ data'.revision = data.revision
    BY DEF Settings, Present
<1>2. Settings(disk') = Settings(data') /\ disk'.revision = data'.revision
    <2>1. CASE disk' = f
        BY <2>1
    <2>2. CASE disk' = disk
        BY <1>1, <2>2 DEF Durable, SettingsAreDurable
    <2> QED BY <2>1, <2>2 DEF Persist
<1>3. ErrorIsHonest'
    BY DEF Persist, ErrorIsHonest
<1>4. SettingsAreDurable'
    BY <1>2 DEF SettingsAreDurable, Settings, Present
<1>5. RevisionNamesSettings'
    BY <1>1 DEF Durable, RevisionNamesSettings, Settings, Present
<1> QED BY <1>1, <1>3, <1>4, <1>5 DEF Durable

\* Every step keeps file and memory together.
LEMMA DurableStep == Typed /\ Durable /\ [Next]_vars => Durable'
<1> SUFFICES ASSUME Typed, Durable, [Next]_vars PROVE Durable'
    OBVIOUS
<1> USE DEF Present
<1>1. ASSUME UNCHANGED <<data, disk, unsaved, pages>> PROVE Durable'
    BY <1>1 DEF Durable, SettingsAreDurable, ErrorIsHonest, RevisionNamesSettings, Settings
<1>2. ASSUME NEW w \in Waves, NEW t \in Ticket, NEW outcome \in Outcomes, Finish(w, t, outcome)
      PROVE  Durable'
    <2>1. CASE Names(t) /\ data.enabled /\ data.entries[t.id].enabled
        BY <1>2, <2>1, FinishRecord, PersistDurable DEF Finish
    <2>2. CASE ~(Names(t) /\ data.enabled /\ data.entries[t.id].enabled)
        BY <1>1, <1>2, <2>2 DEF Finish
    <2> QED BY <2>1, <2>2
<1>3. ASSUME NEW p \in Pages, Edit(p) PROVE Durable'
    BY <1>3, EditStores, StoreDurable
<1>4. ASSUME NEW p \in Pages, Load(p) PROVE Durable'
    <2>1. UNCHANGED <<data, disk, unsaved>> /\ pages' = [pages EXCEPT ![p] = data]
        BY <1>4 DEF Load
    <2>2. \A q \in Pages : pages'[q] = IF q = p THEN data ELSE pages[q]
        BY <2>1 DEF Typed
    <2>3. data.revision \in Nat
        BY DEF Typed, Sound, File
    <2>4. SettingsAreDurable' /\ ErrorIsHonest'
        BY <2>1 DEF Durable, SettingsAreDurable, ErrorIsHonest, Settings
    <2>5. \A q \in Pages : pages'[q].revision <= data'.revision
        BY <2>1, <2>2, <2>3 DEF Durable
    <2>6. ASSUME NEW q \in Pages, pages'[q].revision = data'.revision
          PROVE  Settings(pages'[q]) = Settings(data')
        <3>1. CASE q = p
            BY <2>1, <2>2, <3>1
        <3>2. CASE q # p
            BY <2>1, <2>2, <2>6, <3>2 DEF Durable, RevisionNamesSettings
        <3> QED BY <3>1, <3>2
    <2>7. RevisionNamesSettings'
        BY <2>6 DEF RevisionNamesSettings, Settings
    <2> QED BY <2>4, <2>5, <2>7 DEF Durable
<1>5. ASSUME NEW t \in Ticket, EndTest(t) PROVE Durable'
    <2>1. CASE Names(t)
        BY <1>5, <2>1, TestRecord, PersistDurable DEF EndTest
    <2>2. CASE ~Names(t)
        BY <1>1, <1>5, <2>2 DEF EndTest
    <2> QED BY <2>1, <2>2
<1>6. CASE Restart
    <2>1. data' = disk /\ disk' = disk /\ unsaved' = FALSE /\ pages' = pages
        BY <1>6 DEF Restart
    <2>2. Settings(disk) = Settings(data) /\ disk.revision = data.revision
        BY DEF Durable, SettingsAreDurable
    <2> QED BY <2>1, <2>2 DEF Durable, SettingsAreDurable, ErrorIsHonest, RevisionNamesSettings,
           Settings
<1>7. CASE \/ \E w \in Waves, a \in Auths, n \in Limits : Routes(w, a, n)
           \/ \E id \in Ids : StartTest(id)
           \/ Tick \/ UNCHANGED vars
    BY <1>1, <1>7 DEF Routes, StartTest, Tick, vars
<1> QED BY <1>2, <1>3, <1>4, <1>5, <1>6, <1>7 DEF Next

\* In every reachable state the file is what memory relies on.
LEMMA Durability == Spec => [](Typed /\ Durable)
<1>1. Init /\ Typed => Durable
    BY DEF Init, Durable, SettingsAreDurable, ErrorIsHonest, RevisionNamesSettings, Typed, Sound,
       File
<1> QED BY <1>1, InitTyped, TypedStep, DurableStep, PTL DEF Spec

\* The settings in force are those a restart finds, whichever writes fail.
THEOREM EditsAreDurable == Spec => []SettingsAreDurable
<1>1. Durable => SettingsAreDurable
    BY DEF Durable
<1> QED BY <1>1, Durability, PTL

\* While no error is shown a restart loses nothing.
THEOREM ErrorsAreShown == Spec => []ErrorIsHonest
<1>1. Durable => ErrorIsHonest
    BY DEF Durable
<1> QED BY <1>1, Durability, PTL

\* A page with the current revision looks at the current settings, also
\* after a restart.
THEOREM EditsMeetWhatTheySaw == Spec => []RevisionNamesSettings
<1>1. Durable => RevisionNamesSettings
    BY DEF Durable
<1> QED BY <1>1, Durability, PTL

----------------------------------------------------------------------------
(* Tests.                                                                  *)

\* A test that starts is counted once.
LEMMA StartCounted ==
    ASSUME Typed, Counted, NEW id \in Ids, StartTest(id)
    PROVE  Counted'
<1> DEFINE t == [id |-> id, url |-> data.entries[id].url]
<1>1. id \notin testing /\ testing' = testing \cup {id} /\ checks' = checks \cup {t}
      /\ Cardinality(testing) < MaxTests
    BY DEF StartTest
<1>2. t \notin checks /\ t.id = id
    BY <1>1 DEF Counted, TestsAreCounted
<1> HIDE DEF t
<1>3. /\ IsFiniteSet(testing') /\ Cardinality(testing') = Cardinality(testing) + 1
      /\ IsFiniteSet(checks') /\ Cardinality(checks') = Cardinality(checks) + 1
    BY <1>1, <1>2, FS_AddElement DEF Counted
<1>4. testing' = {u.id : u \in checks'}
    BY <1>1, <1>2 DEF Counted, TestsAreCounted
<1>5. \A u, v \in checks' : u.id = v.id => u = v
    BY <1>1, <1>2 DEF Counted, TestsAreCounted
<1>6. Cardinality(testing) \in Nat /\ MaxTests \in Nat
    BY FS_CardinalityType, PoolAssumption DEF Counted
<1>7. Cardinality(testing') <= MaxTests
    BY <1>1, <1>3, <1>6
<1>8. Cardinality(checks') = Cardinality(testing')
    BY <1>3 DEF Counted, TestsAreCounted
<1> QED BY <1>3, <1>4, <1>5, <1>7, <1>8 DEF Counted, TestsAreCounted

\* A test that ends is taken off, whatever became of its entry.
LEMMA EndCounted ==
    ASSUME Typed, Counted, NEW t \in Ticket, EndTest(t)
    PROVE  Counted'
<1>1. t \in checks /\ testing' = testing \ {t.id} /\ checks' = checks \ {t}
    BY DEF EndTest
<1>2. t.id \in testing
    BY <1>1 DEF Counted, TestsAreCounted
<1>3. /\ IsFiniteSet(testing') /\ Cardinality(testing') = Cardinality(testing) - 1
      /\ IsFiniteSet(checks') /\ Cardinality(checks') = Cardinality(checks) - 1
    BY <1>1, <1>2, FS_RemoveElement DEF Counted
<1>4. testing' = {u.id : u \in checks'}
    BY <1>1 DEF Counted, TestsAreCounted
<1>5. \A u, v \in checks' : u.id = v.id => u = v
    BY <1>1 DEF Counted
<1>6. Cardinality(testing) \in Nat /\ MaxTests \in Nat /\ Cardinality(testing) <= MaxTests
    BY FS_CardinalityType, PoolAssumption DEF Counted, TestsAreCounted
<1>7. Cardinality(testing') <= MaxTests
    BY <1>3, <1>6
<1>8. Cardinality(checks') = Cardinality(testing')
    BY <1>3 DEF Counted, TestsAreCounted
<1> QED BY <1>3, <1>4, <1>5, <1>7, <1>8 DEF Counted, TestsAreCounted

\* Every step keeps the count.
LEMMA CountedStep == Typed /\ Counted /\ [Next]_vars => Counted'
<1> SUFFICES ASSUME Typed, Counted, [Next]_vars PROVE Counted'
    OBVIOUS
<1>1. ASSUME UNCHANGED <<testing, checks>> PROVE Counted'
    BY <1>1 DEF Counted, TestsAreCounted
<1>2. ASSUME testing' = {}, checks' = {} PROVE Counted'
    BY <1>2, FS_EmptySet, PoolAssumption DEF Counted, TestsAreCounted
<1>3. CASE Restart
    BY <1>2, <1>3 DEF Restart
<1>4. ASSUME NEW p \in Pages, Edit(p) PROVE Counted'
    BY <1>1, <1>4, EditStores
<1>5. CASE \/ \E w \in Waves, a \in Auths, n \in Limits : Routes(w, a, n)
           \/ \E w \in Waves, t \in Ticket, outcome \in Outcomes : Finish(w, t, outcome)
           \/ \E p \in Pages : Load(p)
           \/ Tick \/ UNCHANGED vars
    BY <1>1, <1>5 DEF Routes, Finish, Load, Tick, vars
<1> QED BY <1>3, <1>4, <1>5, StartCounted, EndCounted DEF Next

\* At most the allowed number of tests runs, one per entry.
THEOREM TestsStayCounted == Spec => []TestsAreCounted
<1>1. Init => Counted
    BY FS_EmptySet, PoolAssumption DEF Init, Counted, TestsAreCounted
<1>2. Counted => TestsAreCounted
    BY DEF Counted
<1> QED BY <1>1, <1>2, InitTyped, TypedStep, CountedStep, PTL DEF Spec

----------------------------------------------------------------------------
(* Turns.                                                                  *)

\* A wave takes the least used entries: where the previous wave decides, it
\* decides for the less used one.
LEMMA RoutesBalanced ==
    ASSUME Typed, Balanced, AllAvailable, NEW w \in Waves, NEW a \in Auths, NEW n \in Limits,
           Routes(w, a, n)
    PROVE  Balanced'
<1>1. PICK S \in SUBSET Available :
        /\ \A x \in Available \ S, y \in S : ~Before(a, x, y)
        /\ uses' = [uses EXCEPT ![a] = [id \in Ids |->
                        IF id \notin Present(data) THEN 0
                        ELSE IF id \in S THEN @[id] + 1 ELSE @[id]]]
        /\ previous' = [previous EXCEPT ![a] = S]
    BY DEF Routes
<1>2. data' = data /\ S \subseteq Present(data) /\ Present(data) \subseteq Ids
    BY <1>1 DEF Routes, AllAvailable, Present
<1>3. ASSUME NEW x \in Present(data), NEW y \in Present(data)
      PROVE  uses[a][x] \in Nat /\ uses[a][y] \in Nat /\ uses[a][x] - uses[a][y] <= 1
    BY <1>2 DEF Typed, Balanced, UsesBalanced
<1>4. ASSUME NEW x \in Present(data) \ S, NEW y \in S PROVE uses[a][y] <= uses[a][x]
    <2>1. ~Before(a, x, y) /\ y \in Present(data)
        BY <1>1, <1>2 DEF AllAvailable
    <2>2. uses[a][x] < uses[a][y] => Before(a, x, y)
        BY <2>1 DEF Balanced, Before
    <2> QED  BY <1>3, <2>1, <2>2
<1>5. \A id \in Present(data) :
        uses'[a][id] = IF id \in S THEN uses[a][id] + 1 ELSE uses[a][id]
    BY <1>1, <1>2 DEF Typed
<1>6. previous'[a] = S
    BY <1>1 DEF Typed
<1>7. \A b \in Auths \ {a} : uses'[b] = uses[b] /\ previous'[b] = previous[b]
    BY <1>1 DEF Typed
<1>8. ASSUME NEW x \in Present(data), NEW y \in Present(data)
      PROVE  /\ uses'[a][x] - uses'[a][y] <= 1
             /\ uses'[a][x] < uses'[a][y] => ~(x \in S /\ y \notin S)
    <2>1. CASE x \in S /\ y \notin S
        BY <1>3, <1>4, <1>5, <2>1
    <2>2. CASE x \notin S \/ y \in S
        BY <1>3, <1>5, <2>2
    <2> QED  BY <2>1, <2>2
<1>9. ASSUME NEW b \in Auths, NEW x \in Present(data), NEW y \in Present(data)
      PROVE  /\ uses'[b][x] - uses'[b][y] <= 1
             /\ uses'[b][x] < uses'[b][y] => ~(x \in previous'[b] /\ y \notin previous'[b])
    <2>1. CASE b = a
        BY <1>6, <1>8, <2>1
    <2>2. CASE b # a
        BY <1>7, <2>2 DEF Balanced, UsesBalanced
    <2> QED  BY <2>1, <2>2
<1> QED  BY <1>2, <1>9 DEF Balanced, UsesBalanced

\* Nothing else counts uses; a restart forgets them all.
LEMMA BalancedStep ==
    Typed /\ Balanced /\ AllAvailable /\ [Next /\ NoneAdded]_vars => Balanced'
<1> SUFFICES ASSUME Typed, Balanced, AllAvailable, [Next /\ NoneAdded]_vars PROVE Balanced'
    OBVIOUS
<1>1. ASSUME Present(data') \subseteq Present(data), UNCHANGED <<uses, previous>>
      PROVE  Balanced'
    BY <1>1 DEF Balanced, UsesBalanced
<1>2. CASE NoneAdded /\ Restart
    <2>1. \A a \in Auths : uses'[a] = [id \in Ids |-> 0]
        BY <1>2 DEF Restart, Unused
    <2>2. Present(data') \subseteq Ids
        BY DEF Present
    <2> QED  BY <2>1, <2>2 DEF Balanced, UsesBalanced
<1>3. ASSUME NEW p \in Pages, Edit(p) PROVE UNCHANGED <<uses, previous>>
    BY <1>3, EditStores
<1>4. CASE /\ NoneAdded
           /\ \/ \E w \in Waves, t \in Ticket, outcome \in Outcomes : Finish(w, t, outcome)
              \/ \E p \in Pages : Edit(p) \/ Load(p)
              \/ \E id \in Ids : StartTest(id)
              \/ \E t \in Ticket : EndTest(t)
              \/ Tick
    BY <1>1, <1>3, <1>4 DEF NoneAdded, Finish, Load, StartTest, EndTest, Tick
<1>5. CASE UNCHANGED vars
    BY <1>1, <1>5 DEF vars
<1> QED  BY <1>2, <1>4, <1>5, RoutesBalanced DEF Next

\* While every entry stays available and none is new, the rotation serves a
\* credential's entries in turns, whatever the widths of its waves: no entry
\* gets two waves ahead of another (src/proxy_pool.go routes).
THEOREM UseIsBalanced ==
    Spec /\ []AllAvailable /\ [][NoneAdded]_vars => []UsesBalanced
<1>1. Init => Balanced
    <2> SUFFICES ASSUME Init PROVE Balanced
        OBVIOUS
    <2>1. \A a \in Auths : uses[a] = [id \in Ids |-> 0] /\ Present(data) \subseteq Ids
        BY DEF Init, Unused, Present
    <2> QED  BY <2>1 DEF Balanced, UsesBalanced
<1>2. [Next]_vars /\ [NoneAdded]_vars => [Next /\ NoneAdded]_vars
    OBVIOUS
<1>3. Balanced => UsesBalanced
    BY DEF Balanced
<1> QED  BY <1>1, <1>2, <1>3, InitTyped, TypedStep, BalancedStep, PTL DEF Spec
=============================================================================
