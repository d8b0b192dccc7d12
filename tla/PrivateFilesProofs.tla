------------------------- MODULE PrivateFilesProofs -------------------------
(***************************************************************************)
(* Theorems about the private files beside the slots': the settings, for   *)
(* any values, defaults and number of processes, the journal, for any keys *)
(* and any number of hooks and background goroutines, and the report of    *)
(* the acquisition test, for any cap and number of runs.                   *)
(*                                                                         *)
(* A save of a setting compares revisions only; that this is enough rests  *)
(* on revisions naming settings, and on configure reading a file that      *)
(* nobody replaces before it is used.  The journal's part is about the way *)
(* a goroutine takes through the files, and what each copy it holds there  *)
(* still says.  The report counts every request before it is sent, and is  *)
(* in memory what it is on file.                                           *)
(***************************************************************************)
EXTENDS Settings, Journal, Hunt, TLAPS

(* The settings.                                                           *)

\* The revision of a file, which an unsaved setting lacks.
Newest(d) == IF file[d] = NoSetting THEN 0 ELSE file[d].revision

\* Has configure read this setting?
Loaded(d) == conf = "join" \/ (conf = "schedule" /\ d = "selection")

\* s is what the file of d holds, or a default that was never saved.
OnFile(d, s) ==
    /\ s # NoSetting
    /\ file[d] # NoSetting => s = file[d]
    /\ file[d] = NoSetting => s.revision = 0

\* The inductive invariant, for one setting: what is used and what configure
\* has read are on file, a save under way is one revision ahead of what is
\* used, and a page that shows the file's revision shows the file.
Sound(d) ==
    /\ configured /\ saving[d].step # "commit" => OnFile(d, used[d])
    /\ saving[d].step # "none" =>
          /\ configured /\ used[d] # NoSetting /\ page[d] # NoSetting
          /\ saving[d].next.revision = used[d].revision + 1
    /\ saving[d].step = "commit" => file[d] = saving[d].next
    /\ saving[d].step = "write" /\ file[d] # NoSetting => page[d] = file[d]
    /\ Loaded(d) => saving[d].step = "none" /\ OnFile(d, read[d])
    /\ page[d] # NoSetting =>
          /\ page[d].revision <= Newest(d)
          /\ file[d] # NoSetting /\ page[d].revision = file[d].revision
                => page[d] = file[d]

SettingsInv == SettingsTypeOK /\ \A d \in Docs : Sound(d)

----------------------------------------------------------------------------

\* What a step does to a setting that it is not about: nothing.
LEMMA Elsewhere ==
    ASSUME NEW d \in Docs, Sound(d),
           used'[d] = used[d], file'[d] = file[d], page'[d] = page[d],
           saving'[d] = saving[d], configured' = configured,
           Loaded(d)' => Loaded(d) /\ read'[d] = read[d]
    PROVE  Sound(d)'
  BY DEF Sound, OnFile, Newest

\* Nothing read and nothing to save are well typed.
LEMMA NothingYet ==
    /\ Unset \in [Docs -> Setting \cup {NoSetting}]
    /\ [d \in Docs |-> NoSave] \in
           [Docs -> {NoSave} \cup [step : {"write", "commit"}, next : Setting]]
  BY DEF Unset

\* A page is loaded.
LEMMA ShowKeeps ==
    ASSUME SettingsInv, NEW d \in Docs, Show(d)
    PROVE  SettingsInv'
<1> USE DEF SettingsInv, Show, process
<1>1. SettingsTypeOK'
    BY DEF SettingsTypeOK
<1>2. ASSUME NEW e \in Docs, e # d PROVE Sound(e)'
    BY <1>2, Elsewhere DEF SettingsTypeOK, Loaded
<1>3. Sound(d)'
    <2>1. /\ Sound(d) /\ page'[d] = used[d] /\ used[d] \in Setting \cup {NoSetting}
          /\ saving[d] \in {NoSave} \cup [step : {"write", "commit"}, next : Setting]
        BY DEF SettingsTypeOK
    <2>2. CASE saving[d].step = "commit"
        <3>1. saving[d].next \in Setting /\ file[d] = saving[d].next /\ file[d] # NoSetting
            BY <2>1, <2>2, SettingsAssumption DEF Sound, NoSave
        <3>2. used[d].revision < file[d].revision /\ used[d] \in Setting
            BY <2>1, <2>2, <3>1 DEF Sound, Setting
        <3> QED BY <2>1, <2>2, <3>1, <3>2 DEF Sound, OnFile, Newest, Loaded, Setting
    <2>3. CASE saving[d].step # "commit"
        BY <2>1, <2>3 DEF Sound, OnFile, Newest, Loaded, Setting
    <2> QED BY <2>2, <2>3
<1> QED BY <1>1, <1>2, <1>3

\* A save passes its check.
LEMMA SaveKeeps ==
    ASSUME SettingsInv, NEW d \in Docs, NEW v \in Values, Save(d, v)
    PROVE  SettingsInv'
<1> USE DEF SettingsInv, Save, process, Held, UpToDate
<1>1. Sound(d) /\ saving[d].step = "none" /\ used[d] \in Setting /\ page[d] \in Setting
    BY DEF SettingsTypeOK, Sound, OnFile
<1>2. [revision |-> used[d].revision + 1, value |-> v] \in Setting
    BY <1>1 DEF Setting
<1>3. SettingsTypeOK'
    BY <1>2 DEF SettingsTypeOK
<1>4. ASSUME NEW e \in Docs, e # d PROVE Sound(e)'
    BY <1>4, Elsewhere DEF SettingsTypeOK, Loaded
<1>5. Sound(d)'
    <2>1. saving'[d] = [step |-> "write",
                        next |-> [revision |-> used[d].revision + 1, value |-> v]]
        BY DEF SettingsTypeOK
    <2> QED BY <1>1, <2>1 DEF Sound, OnFile, Newest, Loaded, Setting
<1> QED BY <1>3, <1>4, <1>5

\* A save replaces the file, or fails to.
LEMMA WriteKeeps ==
    ASSUME SettingsInv, NEW d \in Docs, WriteSetting(d)
    PROVE  SettingsInv'
<1> USE DEF SettingsInv, WriteSetting, process
<1> DEFINE s == saving[d]
<1>1. /\ Sound(d) /\ s \in [step : {"write", "commit"}, next : Setting]
      /\ used[d] \in Setting /\ page[d] \in Setting
    BY DEF SettingsTypeOK, Sound, NoSave
<1>2. ASSUME NEW e \in Docs, e # d PROVE Sound(e)'
    BY <1>2, Elsewhere DEF SettingsTypeOK, Loaded
<1>3. CASE file' = [file EXCEPT ![d] = s.next] /\ saving' = [saving EXCEPT ![d].step = "commit"]
    <2>1. saving'[d] = [step |-> "commit", next |-> s.next]
        BY <1>1, <1>3 DEF SettingsTypeOK
    <2>2. SettingsTypeOK'
        BY <1>1, <1>3 DEF SettingsTypeOK
    <2>3. Sound(d)'
        BY <1>1, <1>3, <2>1, SettingsAssumption
           DEF SettingsTypeOK, Sound, OnFile, Newest, Loaded, Setting
    <2> QED BY <1>2, <2>2, <2>3
<1>4. CASE saving' = [saving EXCEPT ![d] = NoSave] /\ UNCHANGED file
    <2>1. SettingsTypeOK'
        BY <1>4 DEF SettingsTypeOK
    <2>2. Sound(d)'
        BY <1>1, <1>4 DEF SettingsTypeOK, Sound, OnFile, Newest, Loaded, NoSave
    <2> QED BY <1>2, <2>1, <2>2
<1> QED BY <1>3, <1>4

\* A save is used and answered.
LEMMA CommitKeeps ==
    ASSUME SettingsInv, NEW d \in Docs, CommitSetting(d)
    PROVE  SettingsInv'
<1> USE DEF SettingsInv, CommitSetting, process
<1>1. Sound(d) /\ saving[d] \in [step : {"write", "commit"}, next : Setting]
    BY DEF SettingsTypeOK, NoSave
<1>2. SettingsTypeOK'
    BY <1>1 DEF SettingsTypeOK
<1>3. ASSUME NEW e \in Docs, e # d PROVE Sound(e)'
    BY <1>3, Elsewhere DEF SettingsTypeOK, Loaded
<1>4. Sound(d)'
    BY <1>1, SettingsAssumption
       DEF SettingsTypeOK, Sound, OnFile, Newest, Loaded, Setting, NoSave
<1> QED BY <1>2, <1>3, <1>4

\* configure reads a file.
LEMMA LoadKeeps ==
    ASSUME SettingsInv, NEW d \in Docs, Load(d)
    PROVE  SettingsInv'
<1> USE DEF SettingsInv, Load
<1> PICK v \in Defaults[d] :
        read' = [read EXCEPT ![d] = IF file[d] # NoSetting THEN file[d]
                                    ELSE [revision |-> 0, value |-> v]]
    BY DEF Load
<1>1. [revision |-> 0, value |-> v] \in Setting
    BY SettingsAssumption DEF Setting
<1>2. SettingsTypeOK'
    BY <1>1 DEF SettingsTypeOK, Docs, Following
<1>3. ASSUME NEW e \in Docs, e # d PROVE Sound(e)'
    BY <1>3, Elsewhere DEF SettingsTypeOK, Loaded, Docs, Following
<1>4. Sound(d)'
    BY <1>1, SettingsAssumption DEF SettingsTypeOK, Sound, OnFile, Newest, Loaded
<1> QED BY <1>2, <1>3, <1>4

\* Every step keeps the inductive invariant.
LEMMA SettingsStep == SettingsInv /\ [SettingsNext]_settingsVars => SettingsInv'
<1> SUFFICES ASSUME SettingsInv, [SettingsNext]_settingsVars PROVE SettingsInv'
    OBVIOUS
<1>1. CASE \E d \in Docs : \/ Show(d) \/ WriteSetting(d) \/ CommitSetting(d) \/ Load(d)
                           \/ \E v \in Values : Save(d, v)
    BY <1>1, ShowKeeps, SaveKeeps, WriteKeeps, CommitKeeps, LoadKeeps
<1>2. CASE Configure \/ FailToLoad \/ UNCHANGED settingsVars
    <2> USE DEF Configure, FailToLoad, settingsVars, process, SettingsInv
    <2>1. SettingsTypeOK'
        BY <1>2 DEF SettingsTypeOK, Unset
    <2>2. ASSUME NEW d \in Docs PROVE Sound(d)'
        <3>1. Sound(d) /\ Loaded(d)' => Loaded(d) /\ read'[d] = read[d]
            BY <1>2 DEF Loaded
        <3>2. UNCHANGED <<used, file, page, saving, configured>>
            BY <1>2
        <3> QED BY <3>1, <3>2, Elsewhere
    <2> QED BY <2>1, <2>2
<1>3. CASE Replace
    BY <1>3 DEF Replace, SettingsInv, SettingsTypeOK, Unset, Sound, OnFile, Newest, Loaded
<1>4. CASE RestartProcess
    <2> USE DEF RestartProcess, SettingsInv
    <2>1. SettingsTypeOK'
        <3>1. used' = Unset /\ read' = Unset /\ saving' = [d \in Docs |-> NoSave]
            BY <1>4
        <3>2. UNCHANGED <<file, page>> /\ processes' \in Nat
            BY <1>4 DEF SettingsTypeOK
        <3>3. configured' \in BOOLEAN /\ conf' \in {"none", "selection", "schedule", "join"}
            BY <1>4
        <3> QED BY <3>1, <3>2, <3>3, NothingYet, Zenon DEF SettingsTypeOK
    <2>2. ASSUME NEW d \in Docs PROVE Sound(d)'
        <3>1. /\ ~configured' /\ saving'[d].step = "none" /\ ~Loaded(d)'
              /\ page'[d] = page[d] /\ file'[d] = file[d]
            BY <1>4 DEF Loaded, NoSave
        <3> QED BY <3>1 DEF Sound, Newest
    <2> QED BY <2>1, <2>2
<1> QED BY <1>1, <1>2, <1>3, <1>4 DEF SettingsNext

\* Every reachable state satisfies the inductive invariant.
LEMMA SettingsInvariance == SettingsSpec => []SettingsInv
<1>1. SettingsInit => SettingsInv
    <2> SUFFICES ASSUME SettingsInit PROVE SettingsInv
        OBVIOUS
    <2>1. SettingsTypeOK
        BY NothingYet DEF SettingsInit, SettingsTypeOK
    <2>2. ASSUME NEW d \in Docs PROVE Sound(d)
        BY DEF SettingsInit, Sound, Loaded, Unset, NoSave
    <2> QED BY <2>1, <2>2 DEF SettingsInv
<1> QED BY <1>1, SettingsStep, PTL DEF SettingsSpec

\* Type correctness of the settings.
THEOREM SettingsTypeCorrect == SettingsSpec => []SettingsTypeOK
<1>1. SettingsInv => SettingsTypeOK
    BY DEF SettingsInv
<1> QED BY <1>1, SettingsInvariance, PTL

\* What is used is what was saved last, whatever configurations fail and
\* wherever the process stops.
THEOREM SavedSettingsAreUsed == SettingsSpec => []UsedIsSaved
<1>1. SettingsInv => UsedIsSaved
    BY DEF SettingsInv, Sound, OnFile, UsedIsSaved
<1> QED BY <1>1, SettingsInvariance, PTL

\* A save never replaces a setting that its page did not show.
THEOREM SavesLoseNoUpdate == SettingsSpec => NoLostUpdate
<1> DEFINE Seen == \A d \in Docs : file'[d] # file[d] /\ file[d] # NoSetting
                                       => page[d] = file[d]
<1>1. SettingsInv /\ [SettingsNext]_settingsVars => [Seen]_settingsVars
    <2> SUFFICES ASSUME SettingsInv, SettingsNext, NEW d \in Docs,
                        file'[d] # file[d], file[d] # NoSetting
                 PROVE  page[d] = file[d]
        OBVIOUS
    <2>1. WriteSetting(d)
        BY DEF SettingsNext, SettingsInv, SettingsTypeOK, Show, Save, WriteSetting, CommitSetting, Load,
               Configure, FailToLoad, Replace, RestartProcess, process
    <2> QED BY <2>1 DEF WriteSetting, SettingsInv, Sound
<1> QED BY <1>1, SettingsInvariance, PTL DEF SettingsSpec, NoLostUpdate

----------------------------------------------------------------------------
(* The journal.                                                            *)

\* The ways through the files that are left to a goroutine while the plugin
\* is in use, and those that are left to shutdown.
Ways == {<<>>, <<"slots">>, <<"journal", "slots">>, <<"current", "journal", "slots">>,
         <<"save">>, <<"report">>}
LastWays == {<<"journal", "slots", "journal", "current">>, <<"slots", "journal", "current">>,
             <<"save", "journal", "current">>, <<"report", "journal", "current">>,
             <<"journal", "current">>, <<"current">>}

\* A copy is of the file the goroutine is at.
Holding(q) == q.copy # NoCopy => q.todo # <<>> /\ Head(q.todo) \in {"journal", "save", "current"}

\* The inductive invariant about one goroutine's way.
OnItsWay(f) ==
    /\ flush[f].todo \in Ways \cup (IF phase = "closed" THEN LastWays ELSE {})
    /\ Holding(flush[f])

\* A copy of the journal is no newer than the journal, and what it says of
\* the backoff still holds unless a revision or a report came after it.
JournalCopied(f) ==
    Writing(f, "journal") =>
        /\ flush[f].copy.revision <= journal.revision
        /\ flush[f].copy.revision = journal.revision
               => flush[f].copy.blocked \ reported = blocked \ reported

SlotsCopied(f) ==
    Saving(f) => slots.saved <= flush[f].copy.revision /\ flush[f].copy.revision <= slots.revision

\* Without a process only the journal's file says what is to be kept.
Down == /\ \A f \in Goroutines : flush[f] = Resting
        /\ journal = Fresh /\ slots = Fresh /\ reported = {} /\ live = disk

FlushType == [Goroutines -> [todo : Seq(Sections), copy : Copy \cup {NoCopy}]]

\* What the inductive invariant says of the goroutines.
OnTheWay ==
    /\ flush \in FlushType
    /\ \A f \in Goroutines : OnItsWay(f) /\ JournalCopied(f) /\ SlotsCopied(f)
    /\ \A f, g \in Goroutines : Writing(f, "journal") /\ Writing(g, "journal") => f = g
    /\ \A f, g \in Goroutines : Saving(f) /\ Saving(g) => f = g

\* The rest of the inductive invariant.
Aside ==
    /\ phase \in {"down", "up", "closing", "closed"}
    /\ joining \in BOOLEAN /\ loop \in BOOLEAN /\ starts \in Nat /\ changes \in Nat
    /\ blocked \subseteq Keys /\ disk \subseteq Keys
    /\ reported \subseteq Keys /\ live \subseteq Keys
    /\ journal \in Revisions /\ slots \in Revisions
    /\ journal.saved <= journal.revision /\ slots.saved <= slots.revision
    /\ error \in {"none", "runtime_save_failed", "state_save_failed"}
    /\ joining => phase \in {"down", "up"}
    /\ phase = "down" => Down
    /\ BackoffSurvives
    /\ phase # "down" /\ Clean(journal) => disk \ reported = blocked \ reported

JournalInv == OnTheWay /\ Aside

----------------------------------------------------------------------------
(* Ways.                                                                   *)

\* A sequence of three.
LEMMA Prefixed == ASSUME NEW x, NEW y, NEW z PROVE <<x>> \o <<y, z>> = <<x, y, z>>
<1> DEFINE s == <<x>> \o <<y, z>>
<1>1. s \in Seq({x, y, z}) /\ <<x, y, z>> \in Seq({x, y, z})
    OBVIOUS
<1>2. Len(s) = 3 /\ s[1] = x /\ s[2] = y /\ s[3] = z /\ Len(<<x, y, z>>) = 3
    OBVIOUS
<1> HIDE DEF s
<1>3. \A i \in 1..3 : s[i] = <<x, y, z>>[i]
    BY <1>2
<1>4. s = <<x, y, z>>
    BY <1>1, <1>2, <1>3
<1> QED BY <1>4 DEF s

\* Whatever is done on the way, it stays one of the ways.
LEMMA WaysGoOn ==
    ASSUME NEW t \in Ways \cup LastWays, t # <<>>
    PROVE  /\ t \in Seq(Sections) /\ Head(t) \in Sections
           /\ Tail(t) \in Ways \cup LastWays
           /\ t \in Ways => Tail(t) \in Ways
           /\ Head(t) = "slots" => /\ <<"save">> \o Tail(t) \in Ways \cup LastWays
                                   /\ t \in Ways => <<"save">> \o Tail(t) \in Ways
           /\ Head(t) = "save" => /\ <<"report">> \o Tail(t) \in Ways \cup LastWays
                                  /\ t \in Ways => <<"report">> \o Tail(t) \in Ways
<1>1. CASE t = <<"slots">>
    BY <1>1 DEF Ways, LastWays, Sections
<1>2. CASE t = <<"journal", "slots">>
    BY <1>2 DEF Ways, LastWays, Sections
<1>3. CASE t = <<"current", "journal", "slots">>
    BY <1>3 DEF Ways, LastWays, Sections
<1>4. CASE t = <<"save">>
    BY <1>4 DEF Ways, LastWays, Sections
<1>5. CASE t = <<"report">>
    BY <1>5 DEF Ways, LastWays, Sections
<1>6. CASE t = <<"journal", "slots", "journal", "current">>
    BY <1>6 DEF Ways, LastWays, Sections
<1>7. CASE t = <<"slots", "journal", "current">>
    <2>1. Head(t) = "slots" /\ Tail(t) = <<"journal", "current">> /\ t \in Seq(Sections)
        BY <1>7 DEF Sections
    <2>2. <<"save">> \o <<"journal", "current">> = <<"save", "journal", "current">>
        BY Prefixed
    <2>3. t \notin Ways
        BY <1>7 DEF Ways
    <2>4. {<<"journal", "current">>, <<"save", "journal", "current">>,
           <<"report", "journal", "current">>} \subseteq LastWays
        BY DEF LastWays
    <2> QED BY <2>1, <2>2, <2>3, <2>4 DEF Sections
<1>8. CASE t = <<"save", "journal", "current">>
    <2>1. Head(t) = "save" /\ Tail(t) = <<"journal", "current">> /\ t \in Seq(Sections)
        BY <1>8 DEF Sections
    <2>2. <<"report">> \o <<"journal", "current">> = <<"report", "journal", "current">>
        BY Prefixed
    <2>3. t \notin Ways
        BY <1>8 DEF Ways
    <2>4. {<<"journal", "current">>, <<"save", "journal", "current">>,
           <<"report", "journal", "current">>} \subseteq LastWays
        BY DEF LastWays
    <2> QED BY <2>1, <2>2, <2>3, <2>4 DEF Sections
<1>9. CASE t = <<"report", "journal", "current">>
    BY <1>9 DEF Ways, LastWays, Sections
<1>10. CASE t = <<"journal", "current">>
    BY <1>10 DEF Ways, LastWays, Sections
<1>11. CASE t = <<"current">>
    BY <1>11 DEF Ways, LastWays, Sections
<1> QED BY <1>1, <1>2, <1>3, <1>4, <1>5, <1>6, <1>7, <1>8, <1>9, <1>10, <1>11 DEF Ways, LastWays

----------------------------------------------------------------------------
(* Steps.                                                                  *)

\* The ways are sequences of sections.
LEMMA WaysAreTyped == ASSUME NEW t \in Ways \cup LastWays PROVE t \in Seq(Sections)
<1>1. CASE t = <<>>
    BY <1>1
<1> QED BY <1>1, WaysGoOn

\* A goroutine that goes on without a copy disturbs no other, if revisions
\* only grow and a backoff changes only with a revision or a report.
LEMMA GoingOn ==
    ASSUME JournalInv, NEW t \in Ways \cup (IF phase' = "closed" THEN LastWays ELSE {}),
           DOMAIN flush' = Goroutines, flush' = [f \in Goroutines |-> flush'[f]],
           \A f \in Goroutines : flush'[f] = flush[f] \/ flush'[f] = Queue(t),
           phase = "closed" => phase' = "closed",
           journal' \in Revisions, journal.revision <= journal'.revision,
           journal'.revision = journal.revision =>
               \A S \in SUBSET Keys :
                   S \ reported = blocked \ reported => S \ reported' = blocked' \ reported',
           slots' \in Revisions, slots.revision <= slots'.revision,
           \A f \in Goroutines : Saving(f) /\ flush'[f] = flush[f] => slots'.saved = slots.saved
    PROVE  OnTheWay'
<1>1. Queue(t) \in [todo : Seq(Sections), copy : Copy \cup {NoCopy}]
    BY WaysAreTyped DEF Queue
<1>2. flush' \in FlushType
    BY <1>1 DEF FlushType, JournalInv, OnTheWay, Aside, FlushType
<1>3. ASSUME NEW f \in Goroutines, flush'[f] = Queue(t)
      PROVE  OnItsWay(f)' /\ ~Writing(f, "journal")' /\ ~Saving(f)'
    BY <1>3 DEF OnItsWay, Holding, Queue, Writing, Saving
<1>4. ASSUME NEW f \in Goroutines, flush'[f] = flush[f]
      PROVE  /\ OnItsWay(f)' /\ Writing(f, "journal")' = Writing(f, "journal")
             /\ Saving(f)' = Saving(f) /\ JournalCopied(f)' /\ SlotsCopied(f)'
    <2>1. OnItsWay(f) /\ JournalCopied(f) /\ SlotsCopied(f)
          /\ flush[f] \in [todo : Seq(Sections), copy : Copy \cup {NoCopy}]
        BY DEF JournalInv, OnTheWay, Aside, FlushType
    <2>2. /\ Writing(f, "journal")' = Writing(f, "journal")
          /\ Saving(f)' = Saving(f) /\ OnItsWay(f)'
        BY <1>4, <2>1 DEF OnItsWay, Writing, At, Saving
    <2>3. Writing(f, "journal") => flush[f].copy \in Copy
        BY <2>1 DEF Writing
    <2>4. JournalCopied(f)'
        <3> SUFFICES ASSUME Writing(f, "journal")
                     PROVE  /\ flush[f].copy.revision <= journal'.revision
                            /\ flush[f].copy.revision = journal'.revision
                                   => flush[f].copy.blocked \ reported' = blocked' \ reported'
            BY <1>4, <2>2 DEF JournalCopied
        <3>1. /\ flush[f].copy.revision \in Nat /\ flush[f].copy.blocked \in SUBSET Keys
              /\ journal.revision \in Nat /\ journal'.revision \in Nat
            BY <2>3 DEF JournalInv, OnTheWay, Aside, FlushType, Revisions, Copy
        <3>2. /\ flush[f].copy.revision <= journal.revision
              /\ flush[f].copy.revision = journal.revision
                     => flush[f].copy.blocked \ reported = blocked \ reported
            BY <2>1 DEF JournalCopied
        <3>3. flush[f].copy.revision <= journal'.revision
            BY <3>1, <3>2
        <3>4. ASSUME flush[f].copy.revision = journal'.revision
              PROVE  flush[f].copy.blocked \ reported' = blocked' \ reported'
            <4>1. journal'.revision = journal.revision
                BY <3>1, <3>2, <3>4
            <4> QED BY <4>1, <3>1, <3>2, <3>4
        <3> QED BY <3>3, <3>4
    <2>5. Saving(f) => flush[f].copy \in Copy
        BY <2>1 DEF Saving, Writing
    <2>6. SlotsCopied(f)'
        <3> SUFFICES ASSUME Saving(f)
                     PROVE  /\ slots'.saved <= flush[f].copy.revision
                            /\ flush[f].copy.revision <= slots'.revision
            BY <1>4, <2>2 DEF SlotsCopied
        <3>1. /\ flush[f].copy.revision \in Nat /\ slots.revision \in Nat
              /\ slots'.revision \in Nat /\ slots'.saved = slots.saved
            BY <1>4, <2>5 DEF JournalInv, OnTheWay, Aside, FlushType, Revisions, Copy
        <3>2. slots.saved <= flush[f].copy.revision /\ flush[f].copy.revision <= slots.revision
            BY <2>1 DEF SlotsCopied
        <3> QED BY <3>1, <3>2
    <2> QED BY <2>2, <2>4, <2>6
<1>5. ASSUME NEW f \in Goroutines PROVE (OnItsWay(f) /\ JournalCopied(f) /\ SlotsCopied(f))'
    BY <1>3, <1>4 DEF JournalCopied, SlotsCopied
<1>6. ASSUME NEW f \in Goroutines, NEW g \in Goroutines
      PROVE  /\ (Writing(f, "journal") /\ Writing(g, "journal"))' => f = g
             /\ (Saving(f) /\ Saving(g))' => f = g
    BY <1>3, <1>4 DEF JournalInv, OnTheWay
<1> QED BY <1>2, <1>5, <1>6 DEF OnTheWay

\* What hooks and tasks queue are ways.
LEMMA QueuedWays == Flush \in Ways /\ SaveAndFlush \in Ways /\ <<>> \in Ways
  BY Prefixed DEF Flush, SaveAndFlush, Ways

\* A change counts revisions and queues a flush at a goroutine that rests, or
\* none.
LEMMA ChangeKeeps ==
    ASSUME JournalInv, NEW f \in Goroutines, NEW changed \in BOOLEAN, NEW t \in Ways,
           phase # "down", Counted \/ UNCHANGED <<journal, backoff>>, Touched(changed),
           blocked' \subseteq Keys, live' = blocked',
           flush' = flush \/ flush' = [flush EXCEPT ![f] = Queue(t)], Changeable
    PROVE  JournalInv'
<1> USE DEF Changeable, lifecycle, backoff
<1>1. /\ journal' \in Revisions /\ journal'.saved = journal.saved
      /\ journal.revision <= journal'.revision
      /\ journal.saved <= journal.revision
      /\ journal'.revision = journal.revision => UNCHANGED <<journal, backoff>>
    BY DEF Counted, JournalInv, OnTheWay, Aside, FlushType, Revisions
<1>2. /\ slots' \in Revisions /\ slots'.saved = slots.saved
      /\ slots.revision <= slots'.revision /\ slots.saved <= slots.revision
    BY DEF Touched, JournalInv, OnTheWay, Aside, FlushType, Revisions
<1>3. OnTheWay'
    <2>1. \A g \in Goroutines : flush'[g] = flush[g] \/ flush'[g] = Queue(t)
        BY DEF JournalInv, OnTheWay, Aside, FlushType
    <2>2. DOMAIN flush' = Goroutines /\ flush' = [g \in Goroutines |-> flush'[g]]
        BY DEF JournalInv, OnTheWay, Aside, FlushType
    <2> QED BY <1>1, <1>2, <2>1, <2>2, GoingOn
<1>4. Aside'
    <2>1. reported' \subseteq Keys
        BY DEF Counted, JournalInv, OnTheWay, Aside, FlushType
    <2>2. phase # "down" /\ Clean(journal)' => disk' \ reported' = blocked' \ reported'
        <3>1. CASE Counted
            BY <1>1, <3>1 DEF Clean, Counted, Revisions, JournalInv, Aside
        <3>2. CASE UNCHANGED <<journal, backoff>>
            BY <3>2 DEF Clean, JournalInv, Aside
        <3> QED BY <3>1, <3>2
    <2>3. journal'.saved <= journal'.revision /\ slots'.saved <= slots'.revision
        BY <1>1, <1>2 DEF Revisions, JournalInv, OnTheWay, Aside, FlushType
    <2>4. changes' \in Nat /\ UNCHANGED <<phase, joining, loop, starts, error, disk>>
        BY DEF JournalInv, OnTheWay, Aside, FlushType
    <2> QED BY <1>1, <1>2, <2>1, <2>2, <2>3, <2>4 DEF JournalInv, Aside, BackoffSurvives
<1> QED BY <1>3, <1>4 DEF JournalInv

\* A hook ends a request.
LEMMA CompletionKeeps ==
    ASSUME JournalInv, NEW f \in Goroutines, NEW limited \in SUBSET Keys,
           NEW outcome \in CompletionOutcomes, Completion(f, limited, outcome)
    PROVE  JournalInv'
<1>1. blocked' \subseteq Keys /\ live' = blocked' /\ phase # "down"
    BY DEF Completion, JournalInv, OnTheWay, Aside, FlushType, BackoffSurvives
<1>2. PICK t \in Ways : flush' = [flush EXCEPT ![f] = Queue(t)]
    BY QueuedWays DEF Completion, Begins, Goes
<1> QED BY <1>1, <1>2, ChangeKeeps DEF Completion

\* A task ends.
LEMMA TaskEndsKeeps ==
    ASSUME JournalInv, NEW f \in Goroutines, NEW k \in Keys, NEW outcome \in TaskOutcomes,
           TaskEnds(f, k, outcome)
    PROVE  JournalInv'
<1>1. blocked' \subseteq Keys /\ live' = blocked' /\ phase # "down"
    BY DEF TaskEnds, TaskOutcomes, JournalInv, OnTheWay, Aside, FlushType, BackoffSurvives
<1>2. flush' = [flush EXCEPT ![f] = Queue(Flush)] /\ Counted /\ Changeable
    BY DEF TaskEnds, Begins, Goes
<1>3. Touched(outcome = "ok")
    BY DEF TaskEnds
<1> QED BY <1>1, <1>2, <1>3, QueuedWays, ChangeKeeps

\* A standby is promoted, with a flush or without, or a state dropped.
LEMMA PromotionKeeps ==
    ASSUME JournalInv, NEW f \in Goroutines, Promotion(f) \/ PromotionInPassing \/ Dropped(f)
    PROVE  JournalInv'
<1>1. /\ phase # "down" /\ Touched(TRUE) /\ Changeable
      /\ Counted \/ UNCHANGED <<journal, backoff>>
      /\ UNCHANGED <<blocked, live>>
      /\ flush' = flush \/ flush' = [flush EXCEPT ![f] = Queue(Flush)]
    BY DEF Promotion, PromotionInPassing, Dropped, Promoted, Begins, Goes, backoff
<1>2. blocked' \subseteq Keys /\ live' = blocked'
    BY <1>1 DEF JournalInv, Aside, BackoffSurvives
<1> QED BY <1>1, <1>2, QueuedWays, ChangeKeeps

\* A step that leaves the goroutines, or gives one nothing but a way.
LEMMA AsideKeeps ==
    ASSUME JournalInv, NEW t \in Ways \cup (IF phase' = "closed" THEN LastWays ELSE {}),
           NEW f \in Goroutines,
           flush' = flush \/ flush' = [flush EXCEPT ![f] = Queue(t)],
           phase = "closed" => phase' = "closed",
           UNCHANGED <<journal, slots, reported, blocked>>
    PROVE  OnTheWay'
<1>1. \A g \in Goroutines : flush'[g] = flush[g] \/ flush'[g] = Queue(t)
    BY DEF JournalInv, OnTheWay, Aside, FlushType
<1>2. DOMAIN flush' = Goroutines /\ flush' = [g \in Goroutines |-> flush'[g]]
    BY DEF JournalInv, OnTheWay, Aside, FlushType
<1>3. journal \in Revisions /\ slots \in Revisions
    BY DEF JournalInv, OnTheWay, Aside, FlushType
<1>4. journal.revision <= journal.revision /\ slots.revision <= slots.revision
    BY <1>3 DEF Revisions
<1> QED BY <1>1, <1>2, <1>3, <1>4, GoingOn

\* A stream reports a rate limit.
LEMMA ReportKeeps ==
    ASSUME JournalInv, NEW k \in Keys, Report(k)
    PROVE  JournalInv'
<1> USE DEF Report, Changeable, lifecycle
<1>1. OnTheWay'
    <2>1. journal \in Revisions /\ slots \in Revisions
          /\ journal.revision <= journal.revision /\ slots.revision <= slots.revision
        BY DEF JournalInv, OnTheWay, Aside, FlushType, Revisions
    <2>2. \A S \in SUBSET Keys :
              S \ reported = blocked \ reported => S \ reported' = blocked' \ reported'
        BY DEF JournalInv, OnTheWay, Aside, FlushType
    <2>3. flush' = flush /\ flush = [f \in Goroutines |-> flush[f]] /\ DOMAIN flush = Goroutines
        BY DEF JournalInv, OnTheWay, Aside, FlushType
    <2>4. <<>> \in Ways \cup (IF phase' = "closed" THEN LastWays ELSE {})
        BY QueuedWays
    <2> QED BY <2>1, <2>2, <2>3, <2>4, GoingOn
<1>2. Aside'
    <2>1. Clean(journal) => disk' \ reported' = blocked' \ reported'
        BY DEF JournalInv, Aside, Clean
    <2>2. /\ UNCHANGED <<phase, joining, loop, starts, error, disk, journal, slots>>
          /\ changes' \in Nat
        BY DEF JournalInv, OnTheWay, Aside, FlushType
    <2>3. /\ blocked' \subseteq Keys /\ live' \subseteq Keys /\ reported' \subseteq Keys
          /\ phase # "down" /\ blocked' = live'
        BY DEF JournalInv, OnTheWay, Aside, FlushType, BackoffSurvives
    <2> QED BY <2>1, <2>2, <2>3 DEF JournalInv, Aside, BackoffSurvives, Clean
<1> QED BY <1>1, <1>2 DEF JournalInv

\* A goroutine wakes.
LEMMA WakeKeeps ==
    ASSUME JournalInv, NEW f \in Goroutines, Wake(f)
    PROVE  JournalInv'
<1>1. OnTheWay'
    BY QueuedWays, AsideKeeps DEF Wake, Begins, Goes, backoff, lifecycle
<1>2. Aside'
    <2>1. /\ UNCHANGED <<phase, joining, loop, starts, changes, blocked, reported, live,
                         journal, slots, error, disk>>
          /\ phase # "down"
        BY DEF Wake, backoff, lifecycle
    <2> QED BY <2>1 DEF JournalInv, Aside, BackoffSurvives, Clean
<1> QED BY <1>1, <1>2 DEF JournalInv

----------------------------------------------------------------------------
(* Steps through the files.                                                *)

\* A goroutine passes, or finds the slots to be saved, or reports.
LEMMA PassingKeeps ==
    ASSUME JournalInv, NEW f \in Goroutines, flush[f].todo # <<>>,
           \/ Passes(f)
           \/ At(f, "slots") /\ Goes(f, <<"save">> \o Tail(flush[f].todo))
           \/ At(f, "save") /\ Goes(f, <<"report">> \o Tail(flush[f].todo)),
           UNCHANGED <<lifecycle, backoff, journal, slots>>
    PROVE  OnTheWay'
<1>1. OnItsWay(f)
    BY DEF JournalInv, OnTheWay
<1>2. flush[f].todo \in Ways \cup LastWays /\ (phase # "closed" => flush[f].todo \in Ways)
    BY <1>1 DEF OnItsWay
<1>3. PICK t \in Ways \cup (IF phase = "closed" THEN LastWays ELSE {}) :
          flush' = [flush EXCEPT ![f] = Queue(t)]
    BY <1>2, WaysGoOn DEF Passes, Goes, At
<1> QED BY <1>3, AsideKeeps DEF lifecycle, backoff

\* A file step leaves everything else.
LEMMA AsideUnchanged ==
    ASSUME JournalInv, UNCHANGED <<lifecycle, changes, backoff, journal, slots, disk>>,
           error' \in {"none", "runtime_save_failed", "state_save_failed"}, phase # "down"
    PROVE  Aside'
  BY DEF lifecycle, backoff, JournalInv, Aside, BackoffSurvives, Clean

\* Nobody is at a file without a process.
LEMMA NotDown == ASSUME JournalInv, NEW f \in Goroutines, flush[f].todo # <<>> PROVE phase # "down"
  BY DEF JournalInv, Aside, Down, Resting, Queue

\* persistRuntime looks at the journal.
LEMMA CopyJournalKeeps ==
    ASSUME JournalInv, NEW f \in Goroutines, CopyJournal(f)
    PROVE  JournalInv'
<1> USE DEF CopyJournal, Saves
<1>1. flush[f].todo # <<>> /\ Head(flush[f].todo) = "journal"
    BY DEF At
<1>2. Aside'
    BY <1>1, NotDown, AsideUnchanged DEF JournalInv, Aside
<1>3. CASE Clean(journal)
    BY <1>1, <1>2, <1>3, PassingKeeps DEF JournalInv
<1>4. CASE ~Clean(journal)
    <2> DEFINE c == [revision |-> journal.revision, blocked |-> blocked]
    <2>1. c \in Copy /\ c # NoCopy
        BY JournalAssumption DEF JournalInv, Aside, Revisions, Copy
    <2>2. /\ flush'[f].todo = flush[f].todo /\ flush'[f].copy = c
          /\ \A g \in Goroutines \ {f} : flush'[g] = flush[g]
          /\ flush' \in FlushType
        BY <1>4, <2>1 DEF Copies, JournalInv, OnTheWay, FlushType
    <2>3. /\ OnItsWay(f)' /\ JournalCopied(f)' /\ ~Saving(f)' /\ SlotsCopied(f)'
        <3>1. OnItsWay(f)'
            BY <1>1, <2>2 DEF OnItsWay, Holding, JournalInv, OnTheWay, lifecycle
        <3>2. ~Saving(f)'
            BY <1>1, <2>2 DEF Saving, Writing, At
        <3>3. c.revision <= journal.revision /\ c.blocked = blocked /\ UNCHANGED <<journal, backoff>>
            BY DEF JournalInv, Aside, Revisions
        <3>4. JournalCopied(f)'
            BY <2>2, <3>3 DEF JournalCopied, backoff
        <3> QED BY <3>1, <3>2, <3>4 DEF SlotsCopied
    <2>4. ASSUME NEW g \in Goroutines, g # f
          PROVE  /\ OnItsWay(g)' /\ JournalCopied(g)' /\ SlotsCopied(g)'
                 /\ ~Writing(g, "journal")' /\ Saving(g)' = Saving(g)
        BY <2>2, <2>4 DEF OnItsWay, JournalCopied, SlotsCopied, Writing, Saving, At, JournalInv, OnTheWay,
                          lifecycle
    <2> QED BY <1>2, <2>2, <2>3, <2>4 DEF JournalInv, OnTheWay
<1> QED BY <1>3, <1>4

\* flushPersistence looks at the slots.
LEMMA CheckSlotsKeeps ==
    ASSUME JournalInv, NEW f \in Goroutines, CheckSlots(f)
    PROVE  JournalInv'
<1> USE DEF CheckSlots, Saves
<1>1. flush[f].todo # <<>>
    BY DEF At
<1>2. Aside'
    BY <1>1, NotDown, AsideUnchanged DEF JournalInv, Aside
<1>3. OnTheWay'
    BY <1>1, PassingKeeps
<1> QED BY <1>2, <1>3 DEF JournalInv

\* A failed save of the slots is reported.
LEMMA ReportErrorKeeps ==
    ASSUME JournalInv, NEW f \in Goroutines, ReportError(f)
    PROVE  JournalInv'
<1> USE DEF ReportError, Saves
<1>1. flush[f].todo # <<>>
    BY DEF At
<1>2. Aside'
    BY <1>1, NotDown, AsideUnchanged
<1>3. OnTheWay'
    BY <1>1, PassingKeeps
<1> QED BY <1>2, <1>3 DEF JournalInv

\* persistCurrent copies the slots.
LEMMA CopySlotsKeeps ==
    ASSUME JournalInv, NEW f \in Goroutines, CopySlots(f)
    PROVE  JournalInv'
<1> USE DEF CopySlots, Saves
<1>1. flush[f].todo # <<>> /\ Head(flush[f].todo) \in {"save", "current"}
    BY DEF At
<1>2. Aside'
    BY <1>1, NotDown, AsideUnchanged DEF JournalInv, Aside
<1> DEFINE c == [revision |-> slots.revision, blocked |-> {}]
<1>3. c \in Copy /\ c # NoCopy
    BY JournalAssumption DEF JournalInv, Aside, Revisions, Copy
<1>4. /\ flush'[f].todo = flush[f].todo /\ flush'[f].copy = c
      /\ \A g \in Goroutines \ {f} : flush'[g] = flush[g]
      /\ flush' \in FlushType
    BY <1>3 DEF Copies, JournalInv, OnTheWay, FlushType
<1>5. /\ OnItsWay(f)' /\ JournalCopied(f)' /\ ~Writing(f, "journal")' /\ SlotsCopied(f)'
    <2>1. OnItsWay(f)'
        BY <1>1, <1>4 DEF OnItsWay, Holding, JournalInv, OnTheWay, lifecycle
    <2>2. ~Writing(f, "journal")'
        BY <1>1, <1>4 DEF Writing, At
    <2>3. slots.saved <= c.revision /\ c.revision <= slots.revision /\ UNCHANGED slots
        BY DEF JournalInv, Aside, Revisions
    <2>4. SlotsCopied(f)'
        BY <1>4, <2>3 DEF SlotsCopied
    <2> QED BY <2>1, <2>2, <2>4 DEF JournalCopied
<1>6. ASSUME NEW g \in Goroutines, g # f
      PROVE  /\ OnItsWay(g)' /\ JournalCopied(g)' /\ SlotsCopied(g)'
             /\ Writing(g, "journal")' = Writing(g, "journal") /\ ~Saving(g)'
    BY <1>4, <1>6 DEF OnItsWay, JournalCopied, SlotsCopied, Writing, Saving, At, JournalInv, OnTheWay,
                      lifecycle, backoff
<1> QED BY <1>2, <1>4, <1>5, <1>6 DEF JournalInv, OnTheWay

\* The journal's file is replaced, or not.
LEMMA WriteJournalKeeps ==
    ASSUME JournalInv, NEW f \in Goroutines, WriteJournal(f)
    PROVE  JournalInv'
<1> USE DEF WriteJournal, Saves, RevisionOf
<1>1. /\ flush[f].todo # <<>> /\ flush[f].copy \in Copy /\ phase # "down"
      /\ JournalCopied(f) /\ OnItsWay(f) /\ Writing(f, "journal")
    BY NotDown DEF Writing, At, JournalInv, OnTheWay, FlushType
<1>2. PICK t \in Ways \cup (IF phase = "closed" THEN LastWays ELSE {}) :
          flush' = [flush EXCEPT ![f] = Queue(t)]
    BY <1>1, WaysGoOn DEF Passes, Goes, OnItsWay
<1>3. /\ journal' \in Revisions /\ journal'.revision = journal.revision
      /\ journal'.saved <= journal'.revision
      /\ journal' = journal \/ journal'.saved = flush[f].copy.revision
    BY <1>1 DEF JournalInv, Aside, Revisions, Copy, JournalCopied
<1>4. OnTheWay'
    <2>1. \A g \in Goroutines : flush'[g] = flush[g] \/ flush'[g] = Queue(t)
        BY <1>2 DEF JournalInv, OnTheWay, FlushType
    <2>2. DOMAIN flush' = Goroutines /\ flush' = [g \in Goroutines |-> flush'[g]]
        BY <1>2 DEF JournalInv, OnTheWay, FlushType
    <2>3. UNCHANGED <<slots, phase, reported, blocked>> /\ slots \in Revisions
          /\ slots.revision <= slots.revision /\ journal.revision <= journal'.revision
        BY <1>3 DEF lifecycle, backoff, JournalInv, Aside, Revisions
    <2> QED BY <1>3, <2>1, <2>2, <2>3, GoingOn
<1>5. Aside'
    <2>1. /\ UNCHANGED <<phase, joining, loop, starts, changes, blocked, reported, live, slots>>
          /\ phase # "down"
        BY <1>1 DEF lifecycle, backoff
    <2>2. disk' \subseteq Keys /\ error' \in {"none", "runtime_save_failed", "state_save_failed"}
        BY <1>1 DEF JournalInv, Aside, Copy
    <2>3. Clean(journal)' => disk' \ reported = blocked \ reported
        <3>1. CASE UNCHANGED <<disk, journal>>
            BY <1>1, <3>1 DEF JournalInv, Aside, Clean
        <3>2. CASE disk' = flush[f].copy.blocked /\ journal'.saved = flush[f].copy.revision
            BY <1>1, <1>3, <3>2 DEF JournalCopied, Clean
        <3> QED BY <1>1, <1>3, <3>1, <3>2 DEF JournalInv, Aside, Revisions
    <2> QED BY <1>3, <2>1, <2>2, <2>3 DEF JournalInv, Aside, BackoffSurvives
<1> QED BY <1>4, <1>5 DEF JournalInv

\* The slots' file is replaced, or not.
LEMMA WriteSlotsKeeps ==
    ASSUME JournalInv, NEW f \in Goroutines, WriteSlots(f)
    PROVE  JournalInv'
<1> USE DEF WriteSlots, Saves
<1>1. /\ flush[f].todo # <<>> /\ flush[f].copy \in Copy /\ phase # "down"
      /\ SlotsCopied(f) /\ OnItsWay(f) /\ Saving(f)
    BY NotDown DEF Saving, Writing, At, JournalInv, OnTheWay, FlushType
<1>2. PICK t \in Ways \cup (IF phase = "closed" THEN LastWays ELSE {}) :
          flush' = [flush EXCEPT ![f] = Queue(t)]
    BY <1>1, WaysGoOn DEF Passes, Goes, OnItsWay, AfterFailure
<1>3. /\ slots' \in Revisions /\ slots'.revision = slots.revision
      /\ slots'.saved <= slots'.revision
    BY <1>1 DEF JournalInv, Aside, Revisions, Copy, SlotsCopied
<1>4. OnTheWay'
    <2>1. \A g \in Goroutines : flush'[g] = flush[g] \/ flush'[g] = Queue(t)
        BY <1>2 DEF JournalInv, OnTheWay, FlushType
    <2>2. DOMAIN flush' = Goroutines /\ flush' = [g \in Goroutines |-> flush'[g]]
        BY <1>2 DEF JournalInv, OnTheWay, FlushType
    <2>3. UNCHANGED <<journal, phase, reported, blocked>> /\ journal \in Revisions
          /\ journal.revision <= journal.revision /\ slots.revision <= slots'.revision
        BY <1>3 DEF lifecycle, backoff, JournalInv, Aside, Revisions
    <2>4. ASSUME NEW g \in Goroutines, Saving(g), flush'[g] = flush[g]
          PROVE  slots'.saved = slots.saved
        <3>1. g = f
            BY <1>1, <2>4 DEF JournalInv, OnTheWay
        <3>2. flush'[f] = Queue(t) /\ Queue(t).copy = NoCopy
            BY <1>2 DEF JournalInv, OnTheWay, FlushType, Queue
        <3>3. flush[f].copy # NoCopy
            BY <1>1 DEF Saving, Writing
        <3> QED BY <2>4, <3>1, <3>2, <3>3
    <2> QED BY <1>3, <2>1, <2>2, <2>3, <2>4, GoingOn
<1>5. Aside'
    <2>1. /\ UNCHANGED <<phase, joining, loop, starts, changes, blocked, reported, live, journal,
                         error, disk>>
          /\ phase # "down"
        BY <1>1 DEF lifecycle, backoff
    <2> QED BY <1>3, <2>1 DEF JournalInv, Aside, BackoffSurvives, Clean
<1> QED BY <1>4, <1>5 DEF JournalInv

----------------------------------------------------------------------------
(* Lifecycle steps.                                                        *)

\* configure begins and fails, quiesce and shutdown begin.
LEMMA LifecycleKeeps ==
    ASSUME JournalInv, Joining \/ PoolFails \/ Close \/ Closed
    PROVE  JournalInv'
<1> USE DEF Joining, PoolFails, Close, Closed
<1>1. UNCHANGED <<blocked, reported, live, journal, slots, error, disk>> /\ changes' = changes
    BY DEF backoff
<1>2. phase' = "down" <=> phase = "down"
    OBVIOUS
<1>3. OnTheWay'
    <2>1. flush' = flush \/ flush' = [flush EXCEPT ![Host] = Queue(<<>>)]
              \/ (phase' = "closed" /\ flush' = [flush EXCEPT ![Host] = Queue(Shutdown)])
        BY DEF Begins, Goes
    <2>2. <<>> \in Ways /\ Shutdown \in LastWays /\ Host \in Goroutines
        <3>1. Shutdown = <<"journal", "slots", "journal", "current">>
            <4> DEFINE s == <<"journal", "slots">> \o <<"journal", "current">>
            <4>1. s \in Seq(Sections) /\ <<"journal", "slots", "journal", "current">> \in Seq(Sections)
                BY DEF Sections
            <4>2. /\ Len(s) = 4 /\ Len(<<"journal", "slots", "journal", "current">>) = 4
                  /\ s[1] = "journal" /\ s[2] = "slots" /\ s[3] = "journal" /\ s[4] = "current"
                OBVIOUS
            <4> HIDE DEF s
            <4>3. \A i \in 1..4 : s[i] = <<"journal", "slots", "journal", "current">>[i]
                BY <4>2
            <4>4. s = <<"journal", "slots", "journal", "current">>
                BY <4>1, <4>2, <4>3
            <4> QED BY <4>4 DEF s, Shutdown, Flush
        <3> QED BY <3>1 DEF Ways, LastWays, Goroutines
    <2>3. phase = "closed" => phase' = "closed"
        BY DEF JournalInv, Aside
    <2> QED BY <1>1, <2>1, <2>2, <2>3, AsideKeeps
<1>4. Aside'
    <2>1. phase = "down" => Down /\ flush' = flush
        BY DEF JournalInv, Aside
    <2>2. phase' = "down" => Down'
        BY <1>1, <1>2, <2>1 DEF Down
    <2>3. /\ phase' \in {"down", "up", "closing", "closed"} /\ joining' \in BOOLEAN
          /\ loop' \in BOOLEAN /\ starts' \in Nat /\ (joining' => phase' \in {"down", "up"})
        <3>1. /\ phase \in {"down", "up", "closing", "closed"} /\ joining \in BOOLEAN
              /\ loop \in BOOLEAN /\ starts \in Nat
              /\ joining => phase \in {"down", "up"}
            BY DEF JournalInv, Aside
        <3>2. starts' \in Nat
            BY <3>1
        <3>3. /\ phase' \in {"down", "up", "closing", "closed"} /\ joining' \in BOOLEAN
              /\ loop' \in BOOLEAN
            BY <3>1, Zenon
        <3>4. ASSUME joining' PROVE phase' \in {"down", "up"}
            <4>1. CASE Joining \/ PoolFails
                BY <4>1, <3>1, <3>4
            <4>2. CASE Close
                BY <4>2, <3>4, Zenon
            <4>3. CASE Closed
                BY <4>3, <3>1, <3>4, Zenon
            <4> QED BY <4>1, <4>2, <4>3
        <3> QED BY <3>2, <3>3, <3>4
    <2> QED BY <1>1, <1>2, <2>2, <2>3 DEF JournalInv, Aside, BackoffSurvives, Clean
<1> QED BY <1>3, <1>4 DEF JournalInv

\* configure ends.
LEMMA InstallKeeps ==
    ASSUME JournalInv, NEW w \in Background, NEW dropped \in BOOLEAN, Install(w, dropped)
    PROVE  JournalInv'
<1> USE DEF Install, Restores
<1>1. /\ phase \in {"down", "up"} /\ phase' = "up" /\ ~joining' /\ loop' \in BOOLEAN
      /\ UNCHANGED <<starts, error, disk, reported, live>>
    BY DEF JournalInv, Aside
<1>2. /\ slots' \in Revisions /\ slots'.saved = slots.saved
      /\ slots.revision <= slots'.revision /\ slots'.saved <= slots'.revision
    BY DEF Touched, JournalInv, Aside, Revisions
<1>3. w \in Goroutines /\ Flush \in Ways /\ flush' = [flush EXCEPT ![w] = Queue(Flush)]
    BY QueuedWays DEF Begins, Goes, Goroutines
<1>4. CASE phase = "down"
    <2>1. /\ blocked' = disk /\ live = disk /\ reported = {}
          /\ journal' = [revision |-> 1, saved |-> 0] /\ journal = Fresh
        BY <1>4 DEF JournalInv, Aside, Down, Fresh
    <2>2. journal' \in Revisions /\ journal.revision <= journal'.revision
          /\ journal'.revision # journal.revision /\ ~Clean(journal)'
          /\ journal'.saved <= journal'.revision
        BY <2>1 DEF Revisions, Fresh, Clean
    <2>3. OnTheWay'
        <3>1. \A g \in Goroutines : flush'[g] = flush[g] \/ flush'[g] = Queue(Flush)
            BY <1>3 DEF JournalInv, OnTheWay, FlushType
        <3>2. DOMAIN flush' = Goroutines /\ flush' = [g \in Goroutines |-> flush'[g]]
            BY <1>3 DEF JournalInv, OnTheWay, FlushType
        <3> QED BY <1>1, <1>2, <1>3, <2>2, <3>1, <3>2, GoingOn
    <2>4. Aside'
        <3>1. changes' \in Nat
            BY DEF JournalInv, Aside
        <3> QED BY <1>1, <1>2, <2>1, <2>2, <3>1 DEF JournalInv, Aside, BackoffSurvives
    <2> QED BY <2>3, <2>4 DEF JournalInv
<1>5. CASE phase = "up"
    <2>1. UNCHANGED <<blocked, journal>> /\ journal \in Revisions
          /\ journal.revision <= journal.revision
        BY <1>5 DEF JournalInv, Aside, Revisions
    <2>2. OnTheWay'
        <3>1. \A g \in Goroutines : flush'[g] = flush[g] \/ flush'[g] = Queue(Flush)
            BY <1>3 DEF JournalInv, OnTheWay, FlushType
        <3>2. DOMAIN flush' = Goroutines /\ flush' = [g \in Goroutines |-> flush'[g]]
            BY <1>3 DEF JournalInv, OnTheWay, FlushType
        <3> QED BY <1>1, <1>2, <1>3, <2>1, <3>1, <3>2, GoingOn
    <2>3. Aside'
        <3>1. changes' \in Nat
            BY DEF JournalInv, Aside
        <3> QED BY <1>1, <1>2, <1>5, <2>1, <3>1 DEF JournalInv, Aside, BackoffSurvives, Clean
    <2> QED BY <2>2, <2>3 DEF JournalInv
<1> QED BY <1>1, <1>4, <1>5

\* Who rests holds nothing.
LEMMA RestingIsTyped ==
    /\ Resting.todo = <<>> /\ Resting.copy = NoCopy /\ <<>> \in Ways
    /\ Resting \in [todo : Seq(Sections), copy : Copy \cup {NoCopy}]
  BY QueuedWays DEF Resting, Queue

\* The process stops.
LEMMA StopKeeps ==
    ASSUME JournalInv, Stop
    PROVE  JournalInv'
<1> USE DEF Stop
<1>1. live' = disk'
    <2>1. CASE phase = "down"
        BY <2>1 DEF JournalInv, Aside, Down
    <2>2. CASE phase # "down" /\ ~Clean(journal)
        BY <2>2
    <2>3. CASE phase # "down" /\ Clean(journal)
        <3>1. disk \ reported = live \ reported
            BY <2>3 DEF JournalInv, Aside, BackoffSurvives
        <3> QED BY <2>3, <3>1
    <2> QED BY <2>1, <2>2, <2>3
<1>2. Down'
    BY <1>1 DEF Down
<1>3. /\ phase' = "down" /\ joining' = FALSE /\ loop' = FALSE
      /\ UNCHANGED <<starts, changes, disk>> /\ blocked' = {} /\ error' = "none"
      /\ \A f \in Goroutines : flush'[f] = Resting
    OBVIOUS
<1>4. Aside'
    <2>1. /\ journal' \in Revisions /\ slots' \in Revisions
          /\ journal'.saved <= journal'.revision /\ slots'.saved <= slots'.revision
        BY <1>2 DEF Down, Fresh, Revisions
    <2>2. live' \subseteq Keys /\ reported' \subseteq Keys
        BY <1>1, <1>2 DEF Down, JournalInv, Aside
    <2> QED BY <1>2, <1>3, <2>1, <2>2 DEF JournalInv, Aside, BackoffSurvives
<1>5. OnTheWay'
    <2>1. flush' \in FlushType
        BY RestingIsTyped DEF FlushType
    <2>2. \A f \in Goroutines : OnItsWay(f)' /\ ~Writing(f, "journal")' /\ ~Saving(f)'
        BY <1>3, RestingIsTyped DEF OnItsWay, Holding, Writing, Saving
    <2> QED BY <2>1, <2>2 DEF OnTheWay, JournalCopied, SlotsCopied
<1> QED BY <1>4, <1>5 DEF JournalInv

----------------------------------------------------------------------------

\* Every step keeps the inductive invariant.
LEMMA JournalStep == JournalInv /\ [JournalNext]_journalVars => JournalInv'
<1> SUFFICES ASSUME JournalInv, [JournalNext]_journalVars PROVE JournalInv'
    OBVIOUS
<1> USE DEF Goroutines
<1>1. CASE \E f \in Hooks :
            \/ \E limited \in {{}} \cup {{k} : k \in Keys}, outcome \in CompletionOutcomes :
                  Completion(f, limited, outcome)
            \/ Dropped(f)
    BY <1>1, CompletionKeeps, PromotionKeeps
<1>2. CASE \E f \in Background, k \in Keys, outcome \in TaskOutcomes : TaskEnds(f, k, outcome)
    BY <1>2, TaskEndsKeeps
<1>3. CASE (\E k \in Keys : Report(k)) \/ (\E f \in Hooks \cup Background : Promotion(f))
              \/ PromotionInPassing
    BY <1>3, ReportKeeps, PromotionKeeps
<1>4. CASE \E f \in Hooks \cup Background : Wake(f)
    BY <1>4, WakeKeeps
<1>5. CASE \E f \in Goroutines : FlushStep(f)
    BY <1>5, CopyJournalKeeps, WriteJournalKeeps, CheckSlotsKeeps, CopySlotsKeeps,
       WriteSlotsKeeps, ReportErrorKeeps DEF FlushStep
<1>6. CASE \E worker \in Background, dropped \in BOOLEAN : Install(worker, dropped)
    BY <1>6, InstallKeeps
<1>7. CASE Joining \/ PoolFails \/ Close \/ Closed
    BY <1>7, LifecycleKeeps
<1>8. CASE Stop
    BY <1>8, StopKeeps
<1>9. CASE UNCHANGED journalVars
    <2>1. UNCHANGED <<phase, joining, loop, starts, changes, blocked, reported, live, journal,
                      slots, error, flush, disk>>
        BY <1>9 DEF journalVars, lifecycle, backoff
    <2>2. Aside'
        <3>1. Down' = Down
            BY <2>1 DEF Down
        <3> QED BY <2>1, <3>1 DEF JournalInv, Aside, BackoffSurvives, Clean
    <2>3. OnTheWay'
        BY <2>1 DEF JournalInv, OnTheWay, OnItsWay, JournalCopied, SlotsCopied, Writing, At, Saving,
                    FlushType
    <2> QED BY <2>2, <2>3 DEF JournalInv
<1> QED BY <1>1, <1>2, <1>3, <1>4, <1>5, <1>6, <1>7, <1>8, <1>9 DEF JournalNext

\* Every reachable state satisfies the inductive invariant.
LEMMA JournalInvariance == JournalSpec => []JournalInv
<1>1. JournalInit => JournalInv
    <2> SUFFICES ASSUME JournalInit PROVE JournalInv
        OBVIOUS
    <2>1. \A f \in Goroutines : flush[f] = Resting
        BY DEF JournalInit
    <2>2. Down
        BY <2>1 DEF JournalInit, Down
    <2>3. Aside
        <3>1. Fresh \in Revisions /\ Fresh.saved <= Fresh.revision /\ 0 \in Nat
            BY DEF Fresh, Revisions
        <3>2. /\ phase = "down" /\ joining = FALSE /\ loop = FALSE /\ starts = 0 /\ changes = 0
              /\ blocked = {} /\ disk = {} /\ reported = {} /\ live = {} /\ error = "none"
              /\ journal = Fresh /\ slots = Fresh
            BY DEF JournalInit
        <3> QED BY <2>2, <3>1, <3>2 DEF Aside, BackoffSurvives
    <2>4. flush \in FlushType
        BY RestingIsTyped DEF JournalInit, FlushType
    <2>5. \A f \in Goroutines : OnItsWay(f) /\ ~Writing(f, "journal") /\ ~Saving(f)
        BY <2>1, RestingIsTyped DEF OnItsWay, Holding, Writing, Saving
    <2> QED BY <2>3, <2>4, <2>5 DEF JournalInv, OnTheWay, JournalCopied, SlotsCopied
<1> QED BY <1>1, JournalStep, PTL DEF JournalSpec

\* What was promised is no newer than what there is.
Promises ==
    /\ promised \in [journal : Nat, slots : Nat]
    /\ promised.journal <= journal.revision /\ promised.slots <= slots.revision

\* A step promises what there is, or leaves the promise and takes back no
\* revision.
LEMMA PromisesHold ==
    ASSUME JournalInv, Promises, journal' \in Revisions, slots' \in Revisions,
           \/ promised' = [journal |-> journal'.revision, slots |-> slots'.revision]
           \/ promised' = [journal |-> 0, slots |-> 0]
           \/ /\ promised' = promised
              /\ journal.revision <= journal'.revision /\ slots.revision <= slots'.revision
    PROVE  Promises'
<1>1. journal \in Revisions /\ slots \in Revisions
    BY DEF JournalInv, Aside
<1> QED BY <1>1 DEF Promises, Revisions

LEMMA PromisesStep == JournalInv /\ Promises /\ [JournalNext]_journalVars => Promises'
<1> SUFFICES ASSUME JournalInv, Promises, [JournalNext]_journalVars PROVE Promises'
    OBVIOUS
<1>1. JournalInv'
    BY JournalStep
<1>2. journal \in Revisions /\ slots \in Revisions /\ journal' \in Revisions /\ slots' \in Revisions
    BY <1>1 DEF JournalInv, Aside
<1>3. /\ journal.revision <= journal.revision /\ slots.revision <= slots.revision
      /\ Counted => journal.revision <= journal'.revision
      /\ \A b \in BOOLEAN : Touched(b) => slots.revision <= slots'.revision
    BY <1>2 DEF Counted, Touched, Revisions
<1>4. CASE \E f \in Hooks :
            \/ \E limited \in {{}} \cup {{k} : k \in Keys}, outcome \in CompletionOutcomes :
                  Completion(f, limited, outcome)
            \/ Dropped(f)
    BY <1>2, <1>4, PromisesHold DEF Completion, Dropped, Begins
<1>5. CASE \E f \in Background, k \in Keys, outcome \in TaskOutcomes : TaskEnds(f, k, outcome)
    BY <1>2, <1>5, PromisesHold DEF TaskEnds, Begins
<1>6. CASE (\E f \in Hooks \cup Background : Promotion(f) \/ Wake(f))
              \/ (\E w \in Background, dropped \in BOOLEAN : Install(w, dropped)) \/ Closed
    BY <1>2, <1>6, PromisesHold DEF Promotion, Wake, Install, Closed, Begins
<1>7. CASE PromotionInPassing
    BY <1>2, <1>3, <1>7, PromisesHold DEF PromotionInPassing, Promoted
<1>8. CASE (\E k \in Keys : Report(k)) \/ Joining \/ PoolFails \/ Close \/ UNCHANGED journalVars
    BY <1>2, <1>3, <1>8, PromisesHold DEF Report, Joining, PoolFails, Close, journalVars
<1>9. CASE \E f \in Goroutines : FlushStep(f)
    <2> PICK f \in Goroutines : FlushStep(f)
        BY <1>9
    <2>1. UNCHANGED promised
        BY DEF FlushStep, CopyJournal, WriteJournal, CheckSlots, CopySlots, WriteSlots,
               ReportError, Saves
    <2>2. journal'.revision = journal.revision /\ slots'.revision = slots.revision
        BY <1>2 DEF FlushStep, CopyJournal, WriteJournal, CheckSlots, CopySlots, WriteSlots,
               ReportError, Revisions
    <2> QED BY <1>2, <1>3, <2>1, <2>2, PromisesHold
<1>10. CASE Stop
    BY <1>2, <1>10, PromisesHold DEF Stop
<1> QED BY <1>4, <1>5, <1>6, <1>7, <1>8, <1>9, <1>10 DEF JournalNext

LEMMA PromisesInvariance == JournalSpec => []Promises
<1>1. JournalInit => Promises
    BY DEF JournalInit, Promises, Fresh
<1> QED BY <1>1, PromisesStep, JournalInvariance, PTL DEF JournalSpec

\* Type correctness of the journal and of the ways to it.
THEOREM JournalTypeCorrect == JournalSpec => []JournalTypeOK
<1>1. JournalInv /\ Promises => JournalTypeOK
    BY DEF JournalInv, OnTheWay, Aside, FlushType, JournalTypeOK, Promises
<1> QED BY <1>1, JournalInvariance, PromisesInvariance, PTL

\* No configuration, failed write, shutdown or stop with a clean journal loses
\* a backoff or brings one back.
THEOREM BackoffIsKept == JournalSpec => []BackoffSurvives
<1>1. JournalInv => BackoffSurvives
    BY DEF JournalInv, Aside
<1> QED BY <1>1, JournalInvariance, PTL

----------------------------------------------------------------------------
(* What is unsaved is shown.                                               *)

Open == phase \in {"up", "closing"}

\* A goroutine that is still to save the journal that was promised.
Pends(f) ==
    \/ flush[f].todo = <<"current", "journal", "slots">>
    \/ /\ flush[f].todo = <<"journal", "slots">>
       /\ flush[f].copy # NoCopy => ~(flush[f].copy.revision < promised.journal)

\* A goroutine that is still to save the slots that were promised, or to
\* report that it could not.
Watches(f) ==
    \/ flush[f].todo \in {<<"slots">>, <<"journal", "slots">>, <<"current", "journal", "slots">>,
                          <<"report">>}
    \/ /\ flush[f].todo = <<"save">>
       /\ flush[f].copy # NoCopy => ~(flush[f].copy.revision < promised.slots)

JournalOwed == journal.saved < promised.journal
SlotsOwed == slots.saved < promised.slots

\* Whatever is owed has an error, or somebody on his way; and whoever writes
\* an old copy of the journal, which clears the error, has a successor.
Shown ==
    Open =>
        /\ JournalOwed => error # "none" \/ \E f \in Goroutines : Pends(f)
        /\ \A g \in Goroutines :
              Writing(g, "journal") /\ flush[g].copy.revision < promised.journal
              => \E f \in Goroutines : Pends(f)
        /\ SlotsOwed => error # "none" \/ \E f \in Goroutines : Watches(f)

\* Where a goroutine is says what it is still to do.
LEMMA WayAhead ==
    ASSUME NEW t \in Ways, t # <<>>
    PROVE  /\ Head(t) = "journal" => t = <<"journal", "slots">> /\ Tail(t) = <<"slots">>
           /\ Head(t) = "slots" => t = <<"slots">> /\ Tail(t) = <<>>
           /\ Head(t) = "save" => t = <<"save">> /\ Tail(t) = <<>>
           /\ Head(t) = "report" => t = <<"report">> /\ Tail(t) = <<>>
           /\ Head(t) = "current" => /\ t = <<"current", "journal", "slots">>
                                     /\ Tail(t) = <<"journal", "slots">>
<1>1. CASE t = <<"slots">>
    BY <1>1
<1>2. CASE t = <<"journal", "slots">>
    BY <1>2
<1>3. CASE t = <<"current", "journal", "slots">>
    BY <1>3
<1>4. CASE t = <<"save">>
    BY <1>4
<1>5. CASE t = <<"report">>
    BY <1>5
<1> QED BY <1>1, <1>2, <1>3, <1>4, <1>5 DEF Ways

\* Different ways are different sequences.
LEMMA WaysDiffer ==
    /\ <<>> # <<"journal", "slots">> /\ <<>> # <<"current", "journal", "slots">>
    /\ <<"slots">> # <<"journal", "slots">> /\ <<"slots">> # <<"current", "journal", "slots">>
    /\ <<"save">> # <<"journal", "slots">> /\ <<"save">> # <<"current", "journal", "slots">>
    /\ <<"report">> # <<"journal", "slots">> /\ <<"report">> # <<"current", "journal", "slots">>
    /\ <<"journal", "slots">> # <<"current", "journal", "slots">>
    /\ <<"save">> # <<"slots">> /\ <<"save">> # <<"report">>
  OBVIOUS

\* Whoever begins a flush will see to everything.
LEMMA FlushShows ==
    ASSUME NEW f \in Goroutines, flush'[f] = Queue(Flush) \/ flush'[f] = Queue(SaveAndFlush)
    PROVE  Shown'
<1>1. /\ Flush = <<"journal", "slots">> /\ SaveAndFlush = <<"current", "journal", "slots">>
      /\ \A t : Queue(t).todo = t /\ Queue(t).copy = NoCopy
    BY Prefixed DEF Flush, SaveAndFlush, Queue
<1>2. Pends(f)' /\ Watches(f)'
    BY <1>1 DEF Pends, Watches
<1> QED BY <1>2 DEF Shown

\* What leaves the files and the goroutines leaves the promise.
LEMMA IdleShows ==
    ASSUME Shown, Open' => Open, UNCHANGED <<error, flush, promised>>,
           journal'.saved = journal.saved, slots'.saved = slots.saved
    PROVE  Shown'
  BY DEF Shown, Pends, Watches, JournalOwed, SlotsOwed, Writing, At

\* Where a goroutine is while the plugin is open.
LEMMA OpenWay ==
    ASSUME JournalInv, Open, NEW f \in Goroutines, flush[f].todo # <<>>
    PROVE  /\ flush[f].todo \in Ways
           /\ \A t : flush' = [flush EXCEPT ![f] = Queue(t)] =>
                 /\ flush'[f].todo = t /\ flush'[f].copy = NoCopy
                 /\ \A g \in Goroutines \ {f} : flush'[g] = flush[g]
  BY DEF Open, JournalInv, OnTheWay, OnItsWay, FlushType, Queue

\* persistRuntime looks at the journal.
LEMMA CopyJournalShows ==
    ASSUME JournalInv, Promises, Shown, NEW f \in Goroutines, CopyJournal(f)
    PROVE  Shown'
<1> SUFFICES ASSUME Open PROVE Shown'
    BY DEF Shown, Open, CopyJournal, Saves, lifecycle
<1> USE DEF CopyJournal, Saves, lifecycle, backoff
<1>1. flush[f].todo # <<>> /\ Head(flush[f].todo) = "journal"
    BY DEF At
<1>2. flush[f].todo = <<"journal", "slots">> /\ Tail(flush[f].todo) = <<"slots">>
    BY <1>1, OpenWay, WayAhead
<1>3. CASE Clean(journal)
    <2>1. /\ flush'[f].todo = <<"slots">> /\ flush'[f].copy = NoCopy
          /\ \A g \in Goroutines \ {f} : flush'[g] = flush[g]
        BY <1>1, <1>2, <1>3, OpenWay DEF Passes, Goes
    <2>2. \A g \in Goroutines : ~Writing(g, "journal")'
        BY <2>1 DEF Writing, At
    <2>3. Watches(f)'
        BY <2>1 DEF Watches
    <2>4. ~JournalOwed'
        BY <1>3 DEF JournalOwed, Clean, Promises, JournalInv, Aside, Revisions
    <2> QED BY <2>2, <2>3, <2>4 DEF Shown
<1>4. CASE ~Clean(journal)
    <2>1. flush'[f].todo = <<"journal", "slots">> /\ flush'[f].copy.revision = journal.revision
        BY <1>2, <1>4 DEF Copies, JournalInv, OnTheWay, FlushType
    <2>2. ~(flush'[f].copy.revision < promised'.journal)
        BY <2>1 DEF Promises, JournalInv, Aside, Revisions
    <2>3. Pends(f)' /\ Watches(f)'
        BY <2>1, <2>2 DEF Pends, Watches
    <2> QED BY <2>3 DEF Shown
<1> QED BY <1>3, <1>4

\* The journal's file is replaced, or not.
LEMMA WriteJournalShows ==
    ASSUME JournalInv, Shown, NEW f \in Goroutines, WriteJournal(f)
    PROVE  Shown'
<1> SUFFICES ASSUME Open PROVE Shown'
    BY DEF Shown, Open, WriteJournal, Saves, lifecycle
<1> USE DEF WriteJournal, Saves, lifecycle, backoff, RevisionOf
<1>1. flush[f].todo # <<>> /\ Head(flush[f].todo) = "journal" /\ flush[f].copy # NoCopy
      /\ Writing(f, "journal")
    BY DEF Writing, At
<1>2. flush[f].todo = <<"journal", "slots">> /\ Tail(flush[f].todo) = <<"slots">>
    BY <1>1, OpenWay, WayAhead
<1>3. /\ flush'[f].todo = <<"slots">> /\ flush'[f].copy = NoCopy
      /\ \A g \in Goroutines \ {f} : flush'[g] = flush[g]
    BY <1>1, <1>2, OpenWay DEF Passes, Goes
<1>4. Watches(f)'
    BY <1>3 DEF Watches
<1>5. \A g \in Goroutines : ~Writing(g, "journal")'
    <2>1. \A g \in Goroutines \ {f} : ~Writing(g, "journal")
        BY <1>1 DEF JournalInv, OnTheWay
    <2> QED BY <1>3, <2>1 DEF Writing, At
<1>6. JournalOwed' => error' # "none" \/ \E g \in Goroutines : Pends(g)'
    <2> SUFFICES ASSUME JournalOwed', error' = "none"
                 PROVE  \E g \in Goroutines : Pends(g)'
        OBVIOUS
    <2>1. journal' = [journal EXCEPT !.saved = flush[f].copy.revision]
        OBVIOUS
    <2>2. flush[f].copy.revision < promised.journal
        BY <2>1 DEF JournalOwed, JournalInv, Aside, Revisions
    <2>3. PICK g \in Goroutines : Pends(g)
        BY <1>1, <2>2 DEF Shown
    <2>4. g # f
        BY <1>1, <1>2, <2>2, <2>3, WaysDiffer DEF Pends
    <2> QED BY <1>3, <2>2, <2>3, <2>4 DEF Pends
<1> QED BY <1>4, <1>5, <1>6 DEF Shown

\* What a goroutine at the slots does to the promise about the journal:
\* nothing, as long as it leaves the journal and still does what it had to.
LEMMA OthersPend ==
    ASSUME Shown, Open, NEW f \in Goroutines, Pends(f) => Pends(f)',
           ~Writing(f, "journal"), ~Writing(f, "journal")',
           \A g \in Goroutines \ {f} : flush'[g] = flush[g],
           UNCHANGED <<journal, promised>>, error' = "none" => error = "none"
    PROVE  /\ JournalOwed' => error' # "none" \/ \E g \in Goroutines : Pends(g)'
           /\ \A g \in Goroutines :
                 (Writing(g, "journal") /\ flush[g].copy.revision < promised.journal)'
                 => \E h \in Goroutines : Pends(h)'
<1>1. \A g \in Goroutines : Pends(g) => Pends(g)'
    BY DEF Pends
<1>2. ASSUME NEW g \in Goroutines, Writing(g, "journal")'
      PROVE  Writing(g, "journal") /\ flush'[g] = flush[g]
    BY <1>2 DEF Writing, At
<1> QED BY <1>1, <1>2 DEF Shown, JournalOwed

\* flushPersistence looks at the slots.
LEMMA CheckSlotsShows ==
    ASSUME JournalInv, Promises, Shown, NEW f \in Goroutines, CheckSlots(f)
    PROVE  Shown'
<1> SUFFICES ASSUME Open PROVE Shown'
    BY DEF Shown, Open, CheckSlots, Saves, lifecycle
<1> USE DEF CheckSlots, Saves, lifecycle, backoff
<1>1. flush[f].todo # <<>> /\ Head(flush[f].todo) = "slots"
    BY DEF At
<1>2. flush[f].todo = <<"slots">> /\ Tail(flush[f].todo) = <<>>
    BY <1>1, OpenWay, WayAhead
<1>3. <<"save">> \o <<>> = <<"save">>
    OBVIOUS
<1>4. /\ flush'[f].copy = NoCopy /\ \A g \in Goroutines \ {f} : flush'[g] = flush[g]
      /\ ~Clean(slots) => flush'[f].todo = <<"save">>
    BY <1>1, <1>2, <1>3, OpenWay DEF Passes, Goes
<1>5. ~Pends(f) /\ ~Writing(f, "journal") /\ ~Writing(f, "journal")'
    BY <1>1, <1>2, <1>4, WaysDiffer DEF Pends, Writing, At
<1>6. SlotsOwed' => Watches(f)'
    <2>1. Clean(slots) => ~SlotsOwed'
        BY DEF SlotsOwed, Clean, Promises, JournalInv, Aside, Revisions
    <2> QED BY <1>4, <2>1 DEF Watches
<1> QED BY <1>4, <1>5, <1>6, OthersPend DEF Shown

\* persistCurrent copies the slots.
LEMMA CopySlotsShows ==
    ASSUME JournalInv, Promises, Shown, NEW f \in Goroutines, CopySlots(f)
    PROVE  Shown'
<1> SUFFICES ASSUME Open PROVE Shown'
    BY DEF Shown, Open, CopySlots, Saves, lifecycle
<1> USE DEF CopySlots, Saves, lifecycle, backoff
<1>1. flush[f].todo # <<>> /\ Head(flush[f].todo) \in {"save", "current"}
    BY DEF At
<1>2. flush[f].todo \in {<<"save">>, <<"current", "journal", "slots">>}
    BY <1>1, OpenWay, WayAhead
<1>3. /\ flush'[f].todo = flush[f].todo /\ flush'[f].copy.revision = slots.revision
      /\ \A g \in Goroutines \ {f} : flush'[g] = flush[g]
    BY DEF Copies, JournalInv, OnTheWay, FlushType
<1>4. ~(flush'[f].copy.revision < promised'.slots)
    BY <1>3 DEF Promises, JournalInv, Aside, Revisions
<1>5. /\ Pends(f) => Pends(f)'
      /\ ~Writing(f, "journal") /\ ~Writing(f, "journal")' /\ Watches(f)'
    BY <1>1, <1>2, <1>3, <1>4, WaysDiffer DEF Pends, Watches, Writing, At
<1> QED BY <1>3, <1>5, OthersPend DEF Shown

\* The slots' file is replaced, or not.
LEMMA WriteSlotsShows ==
    ASSUME JournalInv, Promises, Shown, NEW f \in Goroutines, WriteSlots(f)
    PROVE  Shown'
<1> SUFFICES ASSUME Open PROVE Shown'
    BY DEF Shown, Open, WriteSlots, Saves, lifecycle
<1> USE DEF WriteSlots, Saves, lifecycle, backoff
<1>1. /\ flush[f].todo # <<>> /\ Head(flush[f].todo) \in {"save", "current"}
      /\ flush[f].copy # NoCopy /\ Saving(f)
    BY DEF Saving, Writing, At
<1>2. ~Writing(f, "journal")
    BY <1>1 DEF Writing, At
<1>3. CASE Head(flush[f].todo) = "current"
    <2>1. flush[f].todo = <<"current", "journal", "slots">>
          /\ Tail(flush[f].todo) = <<"journal", "slots">>
        BY <1>1, <1>3, OpenWay, WayAhead
    <2>2. /\ flush'[f].todo = <<"journal", "slots">> /\ flush'[f].copy = NoCopy
          /\ \A g \in Goroutines \ {f} : flush'[g] = flush[g]
        BY <1>1, <1>3, <2>1, OpenWay DEF Passes, Goes, AfterFailure
    <2>3. Pends(f)' /\ Watches(f)' /\ ~Writing(f, "journal")'
        BY <2>2 DEF Pends, Watches, Writing
    <2> QED BY <1>2, <2>2, <2>3, OthersPend DEF Shown
<1>4. CASE Head(flush[f].todo) = "save"
    <2>1. flush[f].todo = <<"save">> /\ Tail(flush[f].todo) = <<>>
        BY <1>1, <1>4, OpenWay, WayAhead
    <2>2. <<"report">> \o <<>> = <<"report">>
        OBVIOUS
    <2>3. /\ flush'[f].todo \in {<<>>, <<"report">>} /\ flush'[f].copy = NoCopy
          /\ \A g \in Goroutines \ {f} : flush'[g] = flush[g]
          /\ \/ slots' = [slots EXCEPT !.saved = flush[f].copy.revision]
             \/ flush'[f].todo = <<"report">> /\ UNCHANGED slots
        BY <1>1, <1>4, <2>1, <2>2, OpenWay DEF Passes, Goes, AfterFailure
    <2>4. ~Pends(f) /\ ~Writing(f, "journal")'
        BY <2>1, <2>3, WaysDiffer DEF Pends, Writing
    <2>5. SlotsOwed' => error' # "none" \/ \E g \in Goroutines : Watches(g)'
        <3>1. CASE flush'[f].todo = <<"report">>
            BY <3>1 DEF Watches
        <3>2. CASE slots' = [slots EXCEPT !.saved = flush[f].copy.revision]
            <4> SUFFICES ASSUME SlotsOwed', error = "none"
                         PROVE  \E g \in Goroutines : Watches(g)'
                OBVIOUS
            <4>1. flush[f].copy.revision < promised.slots
                BY <3>2 DEF SlotsOwed, JournalInv, Aside, Revisions
            <4>2. slots.saved <= flush[f].copy.revision
                BY <1>1 DEF JournalInv, OnTheWay, SlotsCopied
            <4>3. /\ flush[f].copy.revision \in Nat /\ slots.saved \in Nat
                  /\ promised.slots \in Nat
                BY <1>1 DEF JournalInv, OnTheWay, Aside, FlushType, Revisions, Copy, Promises
            <4>4. SlotsOwed
                BY <4>1, <4>2, <4>3 DEF SlotsOwed
            <4>5. PICK g \in Goroutines : Watches(g)
                BY <4>4 DEF Shown
            <4>6. g # f
                BY <1>1, <2>1, <4>1, <4>5, WaysDiffer DEF Watches
            <4> QED BY <2>3, <4>1, <4>5, <4>6 DEF Watches
        <3> QED BY <2>3, <3>1, <3>2
    <2> QED BY <1>2, <2>3, <2>4, <2>5, OthersPend DEF Shown
<1> QED BY <1>1, <1>3, <1>4

\* A failed save of the slots is reported.
LEMMA ReportErrorShows ==
    ASSUME JournalInv, Shown, NEW f \in Goroutines, ReportError(f)
    PROVE  Shown'
<1> SUFFICES ASSUME Open PROVE Shown'
    BY DEF Shown, Open, ReportError, Saves, lifecycle
<1> USE DEF ReportError, Saves, lifecycle, backoff
<1>1. flush[f].todo # <<>> /\ Head(flush[f].todo) = "report"
    BY DEF At
<1>2. flush[f].todo = <<"report">> /\ Tail(flush[f].todo) = <<>>
    BY <1>1, OpenWay, WayAhead
<1>3. flush'[f].copy = NoCopy /\ \A g \in Goroutines \ {f} : flush'[g] = flush[g]
    BY <1>1, OpenWay DEF Passes, Goes
<1>4. ~Pends(f) /\ ~Writing(f, "journal") /\ ~Writing(f, "journal")'
    BY <1>1, <1>2, <1>3, WaysDiffer DEF Pends, Writing, At
<1> QED BY <1>3, <1>4, OthersPend DEF Shown

\* Every step keeps the promise.
LEMMA ShownStep == JournalInv /\ Promises /\ Shown /\ [JournalNext]_journalVars => Shown'
<1> SUFFICES ASSUME JournalInv, Promises, Shown, [JournalNext]_journalVars PROVE Shown'
    OBVIOUS
<1>0. ASSUME NEW f \in Goroutines, NEW t, flush' = [flush EXCEPT ![f] = Queue(t)]
      PROVE  flush'[f] = Queue(t)
    BY <1>0 DEF JournalInv, OnTheWay, FlushType
<1>1. ASSUME NEW f \in Hooks, NEW limited, NEW outcome, Completion(f, limited, outcome)
      PROVE  Shown'
    BY <1>0, <1>1, FlushShows DEF Completion, Begins, Goes, Goroutines
<1>2. ASSUME NEW f \in Hooks \cup Background, Promotion(f) \/ (f \in Hooks /\ Dropped(f))
      PROVE  Shown'
    BY <1>0, <1>2, FlushShows DEF Promotion, Dropped, Begins, Goes, Goroutines
<1>3. ASSUME NEW f \in Background, NEW k, NEW outcome, TaskEnds(f, k, outcome)
      PROVE  Shown'
    BY <1>0, <1>3, FlushShows DEF TaskEnds, Begins, Goes, Goroutines
<1>4. ASSUME NEW f \in Hooks \cup Background, Wake(f) PROVE Shown'
    BY <1>0, <1>4, FlushShows DEF Wake, Begins, Goes, Goroutines
<1>5. ASSUME NEW f \in Background, NEW dropped, Install(f, dropped) PROVE Shown'
    BY <1>0, <1>5, FlushShows DEF Install, Begins, Goes, Goroutines
<1>6. CASE \/ \E k \in Keys : Report(k)
           \/ PromotionInPassing \/ Joining \/ PoolFails \/ Close
           \/ UNCHANGED journalVars
    <2>1. Counted => journal'.saved = journal.saved
        BY DEF Counted, JournalInv, Aside, Revisions
    <2>2. Touched(TRUE) => slots'.saved = slots.saved
        BY DEF Touched, JournalInv, Aside, Revisions
    <2> QED BY <1>6, <2>1, <2>2, IdleShows
            DEF Report, PromotionInPassing, Promoted, Joining, PoolFails, Close, journalVars,
                Changeable, lifecycle, Open
<1>7. CASE Closed \/ Stop
    BY <1>7 DEF Closed, Stop, Shown, Open
<1>8. CASE \E f \in Goroutines : FlushStep(f)
    BY <1>8, CopyJournalShows, WriteJournalShows, CheckSlotsShows, CopySlotsShows,
       WriteSlotsShows, ReportErrorShows DEF FlushStep
<1> QED BY <1>1, <1>2, <1>3, <1>4, <1>5, <1>6, <1>7, <1>8 DEF JournalNext

\* Whenever no flush is under way, what was changed when one last began is
\* saved or shows as an error, however the saves of the two files, their
\* failures and promotions that nobody flushes interleave.
THEOREM UnsavedStaysShown == JournalSpec => []UnsavedIsShown
<1>1. JournalInit => Shown
    BY DEF JournalInit, Shown, Open
<1>2. JournalInv /\ Promises /\ Shown => UnsavedIsShown
    <2> SUFFICES ASSUME JournalInv, Promises, Shown, phase = "up",
                        \A f \in Goroutines : flush[f] = Resting, error = "none"
                 PROVE  journal.saved >= promised.journal /\ slots.saved >= promised.slots
        BY DEF UnsavedIsShown
    <2>1. \A f \in Goroutines : flush[f].todo = <<>>
        BY DEF Resting, Queue
    <2>2. <<>> \notin {<<"slots">>, <<"journal", "slots">>, <<"current", "journal", "slots">>,
                       <<"report">>, <<"save">>}
        OBVIOUS
    <2>3. ASSUME NEW f \in Goroutines PROVE ~Pends(f) /\ ~Watches(f)
        BY <2>1, <2>2 DEF Pends, Watches
    <2>4. ~JournalOwed /\ ~SlotsOwed
        BY <2>3 DEF Shown, Open
    <2> QED BY <2>4 DEF JournalOwed, SlotsOwed, Promises, JournalInv, Aside, Revisions
<1> QED BY <1>1, <1>2, JournalInvariance, PromisesInvariance, ShownStep, PTL DEF JournalSpec

----------------------------------------------------------------------------
(* The acquisition test.                                                   *)

\* Attempts that are recorded and about to be sent.
Pending(p) == IF at[p] = "reserved" THEN 1 ELSE 0

\* The file counts every request that was sent or will be: what a run holds in
\* memory says the same of the attempts, within both caps.
Accounted ==
    /\ run = "none" => at = AllOff
    /\ run # "none" => report.counts = Resumed.counts
    /\ \A p \in Proxies : sent[p] + Pending(p) <= Resumed.counts[p]
    /\ Attempts(Resumed) <= 2 * PerProxy
    /\ ~mixed => run # "sequential" /\ \A p \in Proxies : Resumed.counts[p] <= PerProxy

\* A rejection that is recorded or saved has stopped both workers, and what a
\* fast run knows of the credential is no less than what is saved.
Stopped ==
    run = "fast" =>
        /\ "rejected" \in {report.credential, Resumed.credential} => cancelled
        /\ Resumed.credential # "open" => report.credential # "open"

HuntInv == HuntTypeOK /\ Accounted /\ Stopped

\* What a run goes on from is a report.
LEMMA ResumedTyped == ASSUME HuntTypeOK PROVE Resumed \in Reports
  BY DEF HuntTypeOK, Resumed, Blank, Reports, Proxies

LEMMA HuntStarts == HuntInit => HuntInv
<1> SUFFICES ASSUME HuntInit PROVE HuntInv
  OBVIOUS
<1>0. Resumed = Blank
  BY DEF HuntInit, Resumed
<1>1. HuntTypeOK
  <2>1. Blank \in Reports /\ AllOff \in [Proxies -> Steps]
    BY DEF Blank, Reports, AllOff, Steps
  <2>2. runs \in 0..MaxRuns
    BY HuntAssumption DEF HuntInit
  <2> QED
    BY <2>1, <2>2 DEF HuntInit, HuntTypeOK
<1>2. Accounted
  <2>1. /\ \A p \in Proxies : Resumed.counts[p] = 0 /\ sent[p] = 0 /\ Pending(p) = 0
        /\ run = "none" /\ at = AllOff
    BY <1>0 DEF HuntInit, Blank, AllOff, Pending
  <2>2. Attempts(Resumed) = 0
    BY <2>1 DEF Attempts, Proxies
  <2> QED
    BY <2>1, <2>2, HuntAssumption DEF Accounted, HuntInit
<1>3. Stopped
  BY DEF HuntInit, Stopped
<1> QED
  BY <1>1, <1>2, <1>3 DEF HuntInv

\* Every number of attempts is a number.
LEMMA CountsAreNumbers ==
    ASSUME NEW r \in Reports
    PROVE  /\ r.counts[1] \in Nat /\ r.counts[2] \in Nat /\ Attempts(r) \in Nat
           /\ r.counts \in [Proxies -> Nat]
  BY DEF Reports, Attempts, Proxies

LEMMA StartsKeep ==
    ASSUME HuntInv, (\E e \in BOOLEAN : StartFast(e)) \/ StartSequential
    PROVE  HuntInv'
<1>1. PICK r \in Reports : r = Resumed
  BY ResumedTyped DEF HuntInv
<1>2. Attempts(r) < 2 * PerProxy /\ runs' \in 0..MaxRuns /\ run = "none"
  BY <1>1, HuntAssumption, CountsAreNumbers DEF StartFast, StartSequential, Starts, Finished, HuntInv, HuntTypeOK
<1>3. CASE \E e \in BOOLEAN : StartFast(e)
  <2>1. PICK e \in BOOLEAN : StartFast(e)
    BY <1>3
  <2>2. CASE e
    <3>1. /\ onDisk' = [r EXCEPT !.credential = "expired"]
          /\ UNCHANGED <<run, report, at, cancelled, sent, mixed>>
      BY <2>1, <2>2, <1>1 DEF StartFast
    <3>2. onDisk' \in Reports /\ Resumed' = onDisk' /\ Resumed'.counts = r.counts
      BY <3>1, HuntAssumption DEF Resumed, Reports
    <3>3. HuntTypeOK'
      BY <3>1, <3>2, <1>2 DEF HuntInv, HuntTypeOK
    <3>4. Accounted'
      BY <3>1, <3>2, <1>1, <1>2 DEF HuntInv, Accounted, Pending, Attempts
    <3>5. Stopped'
      BY <3>1, <1>2 DEF Stopped
    <3> QED
      BY <3>3, <3>4, <3>5 DEF HuntInv
  <2>3. CASE ~e
    <3>1. /\ r.credential = "open"
          /\ run' = "fast" /\ report' = r /\ onDisk' = r /\ at' = [p \in Proxies |-> "loop"]
          /\ UNCHANGED <<cancelled, sent, mixed>>
      BY <2>1, <2>3, <1>1 DEF StartFast
    <3>2. Resumed' = r
      BY <3>1, HuntAssumption DEF Resumed
    <3>3. HuntTypeOK'
      BY <3>1, <1>2 DEF HuntInv, HuntTypeOK, Steps
    <3>4. Accounted'
      BY <3>1, <3>2, <1>1, <1>2 DEF HuntInv, Accounted, Pending, Attempts, AllOff
    <3>5. Stopped'
      BY <3>1, <3>2 DEF Stopped
    <3> QED
      BY <3>3, <3>4, <3>5 DEF HuntInv
  <2> QED
    BY <2>2, <2>3
<1>4. CASE StartSequential
  <2>1. /\ run' = "sequential" /\ report' = [r EXCEPT !.credential = "open"]
        /\ at' = [AllOff EXCEPT ![Turn(r)] = "loop"] /\ mixed' = TRUE
        /\ UNCHANGED <<onDisk, cancelled, sent>>
    BY <1>1, <1>4 DEF StartSequential
  <2>2. Resumed' = r
    BY <2>1, <1>1 DEF Resumed
  <2>3. report' \in Reports /\ report'.counts = r.counts
    BY <2>1 DEF Reports
  <2>4. at' \in [Proxies -> Steps] /\ \A p \in Proxies : at'[p] # "reserved"
    BY <2>1 DEF AllOff, Steps
  <2>5. HuntTypeOK'
    BY <2>1, <2>3, <2>4, <1>2 DEF HuntInv, HuntTypeOK
  <2>6. Accounted'
    BY <2>1, <2>2, <2>3, <2>4, <1>1, <1>2 DEF HuntInv, Accounted, Pending, Attempts, AllOff
  <2>7. Stopped'
    BY <2>1 DEF Stopped
  <2> QED
    BY <2>5, <2>6, <2>7 DEF HuntInv
<1> QED
  BY <1>3, <1>4

\* The attempt is in memory and in the file, or in neither.
LEMMA ReserveKeeps ==
    ASSUME HuntInv, NEW p \in Proxies, NEW ok \in BOOLEAN, Reserve(p, ok)
    PROVE  HuntInv'
<1>1. PICK r \in Reports : r = Resumed
  BY ResumedTyped DEF HuntInv
<1>2. run # "none" /\ report \in Reports /\ report.counts = r.counts
  BY <1>1 DEF HuntInv, HuntTypeOK, Accounted, Reserve, AllOff
<1>3. CASE ~ok
  <2>1. at' = [at EXCEPT ![p] = "error"]
        /\ UNCHANGED <<run, report, onDisk, cancelled, runs, sent, mixed>>
    BY <1>3 DEF Reserve, Writes, Gets
  <2>2. Resumed' = Resumed
    BY <2>1 DEF Resumed
  <2>3. at' \in [Proxies -> Steps] /\ \A q \in Proxies : Pending(q)' <= Pending(q)
    BY <2>1 DEF HuntInv, HuntTypeOK, Steps, Pending
  <2>4. HuntTypeOK'
    BY <2>1, <2>3 DEF HuntInv, HuntTypeOK
  <2>5. Accounted'
    <3>1. \A q \in Proxies : sent[q] \in Nat /\ r.counts[q] \in Nat /\ Pending(q) \in Nat /\ Pending(q)' \in Nat
      BY <1>1 DEF HuntInv, HuntTypeOK, Reports, Pending
    <3> QED
      BY <2>1, <2>2, <2>3, <3>1, <1>1, <1>2 DEF HuntInv, Accounted
  <2>6. Stopped'
    BY <2>1, <2>2 DEF HuntInv, Stopped
  <2> QED
    BY <2>4, <2>5, <2>6 DEF HuntInv
<1>4. CASE ok
  <2>1. /\ at[p] = "loop" /\ MayReserve(p)
        /\ report' = Reserved(p) /\ onDisk' = report' /\ at' = [at EXCEPT ![p] = "reserved"]
        /\ UNCHANGED <<run, cancelled, runs, sent, mixed>>
    BY <1>4 DEF Reserve, Writes, Gets
  <2>2. /\ report' \in Reports
        /\ report'.counts = [r.counts EXCEPT ![p] = @ + 1]
        /\ report'.credential = report.credential
    BY <2>1, <1>2 DEF Reserved, Reports
  <2>3. Resumed' = report'
    BY <2>1, <2>2, HuntAssumption DEF Resumed
  <2>4. HuntTypeOK'
    BY <2>1, <2>2 DEF HuntInv, HuntTypeOK, Steps
  <2>5. Accounted'
    <3>1. r.counts \in [Proxies -> Nat] /\ sent \in [Proxies -> Nat] /\ PerProxy \in Nat
      BY CountsAreNumbers, HuntAssumption DEF HuntInv, HuntTypeOK
    <3>2. Attempts(report') = Attempts(r) + 1 /\ Attempts(r) < 2 * PerProxy /\ Attempts(r) \in Nat
      BY <2>1, <2>2, <1>2, <3>1 DEF Attempts, MayReserve, Proxies
    <3>3. ASSUME NEW q \in Proxies PROVE sent'[q] + Pending(q)' <= Resumed'.counts[q]
      BY <2>1, <2>2, <2>3, <3>1, <1>1 DEF HuntInv, HuntTypeOK, Accounted, Pending
    <3>4. ASSUME ~mixed, NEW q \in Proxies PROVE Resumed'.counts[q] <= PerProxy
      <4>1. run = "fast" /\ r.counts[q] <= PerProxy
        BY <3>4, <1>1, <1>2 DEF HuntInv, HuntTypeOK, Accounted
      <4>2. r.counts[p] < PerProxy
        BY <4>1, <2>1, <1>2 DEF MayReserve
      <4> QED
        BY <4>1, <4>2, <2>2, <2>3, <3>1
    <3> QED
      BY <2>1, <2>3, <3>1, <3>2, <3>3, <3>4, <1>2 DEF HuntInv, Accounted
  <2>6. Stopped'
    BY <2>1, <2>2, <2>3 DEF HuntInv, Stopped
  <2> QED
    BY <2>4, <2>5, <2>6 DEF HuntInv
<1> QED
  BY <1>3, <1>4

LEMMA SendKeeps ==
    ASSUME HuntInv, NEW p \in Proxies, Send(p)
    PROVE  HuntInv'
<1>1. /\ at[p] = "reserved"
      /\ UNCHANGED <<run, report, onDisk, cancelled, runs, mixed>>
      /\ \/ at' = [at EXCEPT ![p] = "unsent"] /\ sent' = sent
         \/ at' = [at EXCEPT ![p] = "waiting"] /\ sent' = [sent EXCEPT ![p] = @ + 1]
  BY DEF Send, Gets
<1>2. Resumed' = Resumed /\ Resumed \in Reports
  BY <1>1, ResumedTyped DEF Resumed, HuntInv
<1>3. HuntTypeOK'
  BY <1>1 DEF HuntInv, HuntTypeOK, Steps
<1>4. ASSUME NEW q \in Proxies PROVE sent'[q] + Pending(q)' <= Resumed'.counts[q]
  <2>1. Resumed.counts[q] \in Nat /\ sent[q] \in Nat /\ sent[q] + Pending(q) <= Resumed.counts[q]
    BY <1>2 DEF HuntInv, HuntTypeOK, Accounted, Reports
  <2>2. sent'[q] + Pending(q)' <= sent[q] + Pending(q)
    BY <1>1, <2>1 DEF HuntInv, HuntTypeOK, Pending
  <2>3. sent'[q] \in Nat /\ Pending(q) \in Nat /\ Pending(q)' \in Nat
    BY <1>3 DEF HuntTypeOK, Pending
  <2> QED
    BY <2>1, <2>2, <2>3, <1>2
<1>5. Accounted'
  BY <1>1, <1>2, <1>4 DEF HuntInv, Accounted, AllOff
<1>6. Stopped'
  BY <1>1, <1>2 DEF HuntInv, Stopped
<1> QED
  BY <1>3, <1>5, <1>6 DEF HuntInv

\* What changes nothing but the knowledge of a run, its steps, and what is
\* saved of it, keeps the counts.
LEMMA OtherStepsKeepCounts ==
    ASSUME HuntInv, run # "none",
           report' \in Reports, report'.counts = report.counts,
           onDisk' \in {onDisk, report'},
           at' \in [Proxies -> Steps], \A p \in Proxies : at'[p] = "reserved" => at[p] = "reserved",
           cancelled' \in BOOLEAN, UNCHANGED <<run, runs, sent, mixed>>
    PROVE  HuntTypeOK' /\ Accounted'
<1>1. HuntTypeOK'
  BY DEF HuntInv, HuntTypeOK
<1>2. Resumed' \in Reports /\ Resumed'.counts = Resumed.counts /\ Resumed'.counts = report'.counts
  BY <1>1, ResumedTyped, HuntAssumption DEF HuntInv, Accounted, Resumed
<1>3. ASSUME NEW q \in Proxies PROVE sent'[q] + Pending(q)' <= Resumed'.counts[q]
  <2>1. Resumed'.counts[q] \in Nat /\ sent[q] \in Nat /\ sent[q] + Pending(q) <= Resumed'.counts[q]
    BY <1>2 DEF HuntInv, HuntTypeOK, Accounted, Reports
  <2>2. Pending(q) \in Nat /\ Pending(q)' \in Nat /\ Pending(q)' <= Pending(q)
    BY DEF Pending
  <2> QED
    BY <2>1, <2>2
<1>4. Accounted'
  BY <1>2, <1>3 DEF HuntInv, Accounted, Attempts
<1> QED
  BY <1>1, <1>4

LEMMA FinishKeeps ==
    ASSUME HuntInv, NEW p \in Proxies, NEW rejected \in BOOLEAN, NEW found \in BOOLEAN,
           NEW next \in Nexts, NEW ok \in BOOLEAN, Finish(p, rejected, found, next, ok)
    PROVE  HuntInv'
<1>1. /\ run = "fast" /\ UNCHANGED <<run, runs, sent, mixed>>
      /\ report' = Recorded(rejected, found)
      /\ onDisk' = IF ok THEN report' ELSE onDisk
      /\ cancelled' = (cancelled \/ rejected \/ found)
      /\ \E s \in {"error", "off", "loop", "stopping"} : at' = [at EXCEPT ![p] = s]
  BY DEF Finish, Writes, Gets, Nexts
<1>2. /\ report' \in Reports /\ report'.counts = report.counts
      /\ report'.credential = IF rejected THEN "rejected" ELSE report.credential
  BY <1>1 DEF HuntInv, HuntTypeOK, Reports, Recorded
<1>3. at' \in [Proxies -> Steps] /\ \A q \in Proxies : at'[q] = "reserved" => at[q] = "reserved"
  BY <1>1 DEF HuntInv, HuntTypeOK, Steps
<1>4. onDisk' \in {onDisk, report'} /\ cancelled' \in BOOLEAN
  BY <1>1 DEF HuntInv, HuntTypeOK
<1>5. HuntTypeOK' /\ Accounted'
  BY <1>1, <1>2, <1>3, <1>4, OtherStepsKeepCounts
<1>6. Stopped'
  <2>1. Resumed' \in {Resumed, report'}
    BY <1>2, <1>4, HuntAssumption DEF Resumed
  <2> QED
    BY <2>1, <1>1, <1>2 DEF HuntInv, Stopped
<1> QED
  BY <1>5, <1>6 DEF HuntInv

LEMMA FinishSequentialKeeps ==
    ASSUME HuntInv, NEW found \in BOOLEAN, NEW next \in Nexts, FinishSequential(found, next)
    PROVE  HuntInv'
<1>1. /\ run = "sequential" /\ UNCHANGED <<run, cancelled, runs, sent, mixed>>
      /\ report' = Recorded(FALSE, found) /\ onDisk' = report'
      /\ at' \in {AllOff, [AllOff EXCEPT ![Turn(report)] = "loop"]}
  BY DEF FinishSequential
<1>2. report' \in Reports /\ report'.counts = report.counts
  BY <1>1 DEF HuntInv, HuntTypeOK, Reports, Recorded
<1>3. at' \in [Proxies -> Steps] /\ \A q \in Proxies : at'[q] # "reserved"
  BY <1>1 DEF AllOff, Steps
<1>4. cancelled' \in BOOLEAN
  BY <1>1 DEF HuntInv, HuntTypeOK
<1>5. HuntTypeOK' /\ Accounted'
  BY <1>1, <1>2, <1>3, <1>4, OtherStepsKeepCounts
<1> QED
  BY <1>1, <1>5 DEF HuntInv, Stopped

\* A worker that stops itself, or both.
LEMMA StoppingKeeps ==
    ASSUME HuntInv, NEW p \in Proxies,
           \/ NoticeExpired(p) \/ NoticeFound(p) \/ Fail(p) \/ Quit(p)
           \/ \E ok \in BOOLEAN : StopAll(p, ok)
    PROVE  HuntInv'
<1>1. /\ at[p] # "off" /\ UNCHANGED <<run, runs, sent, mixed>>
      /\ \E s \in {"stopping", "off", "error"} : at' = [at EXCEPT ![p] = s]
      /\ onDisk' \in {onDisk, report} /\ (onDisk' # onDisk => report' = report)
      /\ cancelled' \in {cancelled, TRUE}
  BY DEF NoticeExpired, NoticeFound, Fail, Quit, StopAll, Writes, Gets
<1>2. /\ report' \in Reports /\ report'.counts = report.counts
      /\ report'.credential \in {report.credential, "expired"}
  BY DEF NoticeExpired, NoticeFound, Fail, Quit, StopAll, HuntInv, HuntTypeOK, Reports
<1>3. at' \in [Proxies -> Steps] /\ \A q \in Proxies : at'[q] = "reserved" => at[q] = "reserved"
  BY <1>1 DEF HuntInv, HuntTypeOK, Steps
<1>4. onDisk' \in {onDisk, report'} /\ cancelled' \in BOOLEAN /\ (cancelled => cancelled')
  <2>1. cancelled \in BOOLEAN
    BY DEF HuntInv, HuntTypeOK
  <2>2. cancelled' \in BOOLEAN /\ (cancelled => cancelled')
    <3>1. CASE cancelled' = cancelled
      BY <2>1, <3>1
    <3>2. CASE cancelled' = TRUE
      BY <3>2
    <3> QED
      BY <3>1, <3>2, <1>1
  <2> QED
    BY <2>2, <1>1
<1>5. run # "none"
  BY <1>1 DEF HuntInv, Accounted, AllOff
<1>6. HuntTypeOK' /\ Accounted'
  BY <1>1, <1>2, <1>3, <1>4, <1>5, OtherStepsKeepCounts
<1>7. Stopped'
  <2>1. CASE onDisk' = onDisk
    <3>1. Resumed' = Resumed
      BY <2>1 DEF Resumed
    <3> QED
      BY <2>1, <3>1, <1>1, <1>2, <1>4 DEF HuntInv, Stopped
  <2>2. CASE onDisk' # onDisk
    <3>1. Resumed' = report /\ report' = report
      BY <2>2, <1>1, HuntAssumption DEF Resumed, HuntInv, HuntTypeOK
    <3> QED
      BY <3>1, <1>1, <1>2, <1>4 DEF HuntInv, Stopped
  <2> QED
    BY <2>1, <2>2
<1> QED
  BY <1>6, <1>7 DEF HuntInv

LEMMA EndKeeps ==
    ASSUME HuntInv, Interrupt \/ \E ok \in BOOLEAN : Wrap(ok)
    PROVE  HuntInv'
<1>1. /\ run # "none" /\ run' = "none" /\ report' = Blank /\ at' = AllOff /\ cancelled' = FALSE
      /\ onDisk' \in {onDisk, report} /\ UNCHANGED <<runs, sent, mixed>>
  BY DEF Interrupt, Wrap, Writes, Gone
<1>2. Resumed \in Reports /\ Resumed' \in {Resumed, report} /\ Resumed'.counts = Resumed.counts
  BY <1>1, ResumedTyped, HuntAssumption DEF HuntInv, HuntTypeOK, Accounted, Resumed
<1>3. HuntTypeOK'
  BY <1>1 DEF HuntInv, HuntTypeOK, Blank, Reports, AllOff, Steps, Proxies
<1>4. ASSUME NEW q \in Proxies PROVE sent'[q] + Pending(q)' <= Resumed'.counts[q]
  <2>1. Pending(q) \in {0, 1} /\ Pending(q)' = 0
    BY <1>1 DEF Pending, AllOff
  <2>2. Resumed.counts[q] \in Nat /\ sent[q] \in Nat /\ sent[q] + Pending(q) <= Resumed.counts[q]
    BY <1>2 DEF HuntInv, HuntTypeOK, Accounted, Reports
  <2> QED
    BY <2>1, <2>2, <1>1, <1>2
<1>5. Accounted'
  BY <1>1, <1>2, <1>4 DEF HuntInv, Accounted, Attempts
<1> QED
  BY <1>1, <1>3, <1>5 DEF HuntInv, Stopped

LEMMA HuntIdles == ASSUME HuntInv, UNCHANGED huntVars PROVE HuntInv'
  BY DEF huntVars, HuntInv, HuntTypeOK, Accounted, Stopped, Pending, Attempts, Resumed

LEMMA HuntStep == HuntInv /\ [HuntNext]_huntVars => HuntInv'
<1> SUFFICES ASSUME HuntInv, [HuntNext]_huntVars PROVE HuntInv'
  OBVIOUS
<1>1. CASE \E p \in Proxies, ok \in BOOLEAN : Reserve(p, ok)
  BY <1>1, ReserveKeeps
<1>2. CASE \E p \in Proxies : Send(p)
  BY <1>2, SendKeeps
<1>3. CASE \E p \in Proxies, rejected \in BOOLEAN, found \in BOOLEAN, next \in Nexts,
               ok \in BOOLEAN : Finish(p, rejected, found, next, ok)
  BY <1>3, FinishKeeps
<1>4. CASE \E found \in BOOLEAN, next \in Nexts : FinishSequential(found, next)
  BY <1>4, FinishSequentialKeeps
<1>5. CASE \E p \in Proxies : \/ NoticeExpired(p) \/ NoticeFound(p) \/ Fail(p) \/ Quit(p)
                              \/ \E ok \in BOOLEAN : StopAll(p, ok)
  BY <1>5, StoppingKeeps
<1> QED
  BY <1>1, <1>2, <1>3, <1>4, <1>5, StartsKeep, EndKeeps, HuntIdles DEF HuntNext

LEMMA HuntInvariance == HuntSpec => []HuntInv
  BY HuntStarts, HuntStep, PTL DEF HuntSpec

\* Type correctness of the report, its file and the workers, for any cap and
\* any number of runs.
THEOREM HuntTypeCorrect == HuntSpec => []HuntTypeOK
  BY HuntInvariance, PTL DEF HuntInv

\* However many runs of both kinds share a report, fail or are interrupted,
\* they send no more than the caps (CapHolds).
THEOREM CapIsKept == HuntSpec => []CapHolds
<1>1. HuntInv => CapHolds
  <2> SUFFICES ASSUME HuntInv PROVE CapHolds
    OBVIOUS
  <2>1. Resumed \in Reports /\ sent \in [Proxies -> Nat] /\ PerProxy \in Nat
    BY ResumedTyped, HuntAssumption DEF HuntInv, HuntTypeOK
  <2>2. \A p \in Proxies : sent[p] <= Resumed.counts[p]
    BY <2>1 DEF HuntInv, Accounted, Pending, Reports
  <2>3. Resumed.counts[1] + Resumed.counts[2] <= 2 * PerProxy
    BY DEF HuntInv, Accounted, Attempts
  <2> QED
    BY <2>1, <2>2, <2>3 DEF HuntInv, Accounted, CapHolds, Reports, Proxies
<1> QED
  BY <1>1, HuntInvariance, PTL

\* A rejection one worker is told stops the other, and every later fast run
\* (RejectionIsFinal).
THEOREM RejectionsAreFinal == HuntSpec => RejectionIsFinal
<1> DEFINE Final == run # "sequential" =>
              /\ sent' # sent => "rejected" \notin {report.credential, Resumed.credential}
              /\ Resumed.credential # "open" => Resumed'.credential # "open"
<1>1. HuntInv /\ [HuntNext]_huntVars => [Final]_huntVars
  <2> SUFFICES ASSUME HuntInv, HuntNext, run # "sequential" PROVE Final
    OBVIOUS
  <2>1. ASSUME sent' # sent PROVE "rejected" \notin {report.credential, Resumed.credential}
    <3>1. PICK p \in Proxies : Send(p)
      BY <2>1 DEF HuntNext, StartFast, StartSequential, Interrupt, Wrap, Gone, Reserve, StopAll,
                  Finish, FinishSequential, NoticeExpired, NoticeFound, Fail, Quit
    <3>2. at[p] = "reserved" /\ ~cancelled
      BY <3>1, <2>1 DEF Send
    <3>3. run = "fast"
      BY <3>2 DEF HuntInv, HuntTypeOK, Accounted, AllOff
    <3> QED
      BY <3>2, <3>3 DEF HuntInv, Stopped
  <2>2. ASSUME Resumed.credential # "open" PROVE Resumed'.credential # "open"
    <3>1. run = "none" => onDisk' = onDisk
      <4> SUFFICES ASSUME run = "none" PROVE onDisk' = onDisk
        OBVIOUS
      <4>1. \A p \in Proxies : at[p] = "off"
        BY DEF HuntInv, Accounted, AllOff
      <4> QED
        BY <4>1, <2>2 DEF HuntNext, StartFast, StartSequential, Interrupt, Wrap, Gone, Reserve, Send,
              StopAll, Finish, FinishSequential, NoticeExpired, NoticeFound, Fail, Quit
    <3>2. CASE run = "none"
      BY <3>1, <3>2, <2>2 DEF Resumed
    <3>3. CASE run = "fast"
      <4>1. report.credential # "open" /\ report \in Reports
        BY <3>3, <2>2 DEF HuntInv, HuntTypeOK, Stopped
      <4>2. onDisk' = onDisk \/ (onDisk' \in Reports /\ onDisk'.credential # "open")
        <5>1. \A p \in Proxies : Reserved(p) \in Reports /\ Reserved(p).credential = report.credential
          BY <4>1 DEF Reserved, Reports
        <5>2. \A rejected, found \in BOOLEAN :
                 /\ Recorded(rejected, found) \in Reports
                 /\ Recorded(rejected, found).credential # "open"
          BY <4>1 DEF Recorded, Reports
        <5> QED
          BY <3>3, <4>1, <5>1, <5>2 DEF HuntNext, StartFast, StartSequential, Starts, Interrupt, Wrap,
              Reserve, Send, StopAll, Finish, FinishSequential, NoticeExpired, NoticeFound, Fail,
              Quit, Writes
      <4> QED
        BY <4>2, <2>2, HuntAssumption DEF Resumed
    <3> QED
      BY <3>2, <3>3 DEF HuntInv, HuntTypeOK
  <2> QED
    BY <2>1, <2>2
<1>2. RejectionIsFinal <=> [][Final]_huntVars
  BY DEF RejectionIsFinal
<1> QED
  BY <1>1, <1>2, HuntInvariance, PTL DEF HuntSpec
=============================================================================
