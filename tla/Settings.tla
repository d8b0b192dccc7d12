------------------------------ MODULE Settings ------------------------------
(***************************************************************************)
(* The settings a dashboard page saves (src/selection.go 24-86, 138-251,   *)
(* src/schedule.go 18-83, src/plugin.go 465-517): a save is checked        *)
(* against the revision its page loaded, written, and only then used; a    *)
(* configuration reads both files while it keeps saves out, may fail, and  *)
(* replaces what is used; the process may stop at any time.                *)
(*                                                                         *)
(* What a setting means belongs to SlotStore (the selection) and to        *)
(* Acquisition and Scheduler (the schedule).  Paths never change.          *)
(***************************************************************************)
EXTENDS Naturals

CONSTANTS
    Values,      \* what a page may save
    Defaults,    \* what each setting may be as long as nobody saved it
    NoSetting,
    MaxSaves,    \* bound: revisions of a setting
    MaxProcesses \* bound: processes

Docs == {"selection", "schedule"}

Setting == [revision : Nat, value : Values]

ASSUME SettingsAssumption ==
    /\ Defaults \in [Docs -> (SUBSET Values) \ {{}}]
    /\ NoSetting \notin Setting
    /\ {MaxSaves, MaxProcesses} \subseteq Nat

VARIABLES
    configured, \* did the process load its configuration?
    conf,       \* how far configure has come: the file it is to read next
    processes,  \* processes started
    used,       \* state.selection and state.schedule
    file,       \* their files
    read,       \* what configure read
    saving,     \* a save that passed the check, until it is committed
    page        \* what the dashboard shows

process == <<configured, conf, processes>>
settingsVars == <<process, used, file, read, saving, page>>

NoSave == [step |-> "none", next |-> NoSetting]

Unset == [d \in Docs |-> NoSetting]

SettingsInit ==
    /\ configured = FALSE /\ conf = "none" /\ processes = 1
    /\ used = Unset /\ file = Unset /\ read = Unset /\ page = Unset
    /\ saving = [d \in Docs |-> NoSave]

----------------------------------------------------------------------------

\* Mutant: configure keeps no save out.
HeldBySave(d) == saving[d].step # "none"

\* selectionMu and scheduleMu: a save holds its own until it has answered,
\* configure takes one after the other and keeps both.
Held(d) ==
    \/ saving[d].step # "none"
    \/ conf = "join"
    \/ conf = "schedule" /\ d = "selection"

Show(d) ==
    /\ configured
    /\ page' = [page EXCEPT ![d] = used[d]]
    /\ UNCHANGED <<process, used, file, read, saving>>

\* Mutant: whoever saves last wins.
UpToDateAlways(d) == page[d] # NoSetting

UpToDate(d) == page[d] # NoSetting /\ page[d].revision = used[d].revision

\* updateSelection and updateSchedule: the check ...
Save(d, v) ==
    /\ configured /\ ~Held(d)
    /\ UpToDate(d)
    /\ used[d].revision < MaxSaves
    /\ saving' = [saving EXCEPT ![d] =
                     [step |-> "write",
                      next |-> [revision |-> used[d].revision + 1, value |-> v]]]
    /\ UNCHANGED <<process, used, file, read, page>>

\* ... the file, which persistSelection and writePrivateJSON replace or keep ...
WriteSetting(d) ==
    /\ saving[d].step = "write"
    /\ \/ /\ file' = [file EXCEPT ![d] = saving[d].next]
          /\ saving' = [saving EXCEPT ![d].step = "commit"]
       \/ /\ saving' = [saving EXCEPT ![d] = NoSave]
          /\ UNCHANGED file
    /\ UNCHANGED <<process, used, read, page>>

\* ... and what is used, which the page is answered.
CommitSetting(d) ==
    /\ saving[d].step = "commit"
    /\ used' = [used EXCEPT ![d] = saving[d].next]
    /\ page' = [page EXCEPT ![d] = saving[d].next]
    /\ saving' = [saving EXCEPT ![d] = NoSave]
    /\ UNCHANGED <<process, file, read>>

----------------------------------------------------------------------------

\* The first configuration of a process, or another one.
Configure ==
    /\ conf = "none" /\ conf' = "selection"
    /\ UNCHANGED <<configured, processes, used, file, read, saving, page>>

Following == [selection |-> "schedule", schedule |-> "join"]

\* loadSelection and loadAcquisitionSchedule, each once no save is under way;
\* a schedule that nobody saved is that of the configuration.
Load(d) ==
    /\ conf = d /\ saving[d].step = "none"
    /\ conf' = Following[d]
    /\ \E v \in Defaults[d] :
          read' = [read EXCEPT ![d] = IF file[d] # NoSetting THEN file[d]
                                      ELSE [revision |-> 0, value |-> v]]
    /\ UNCHANGED <<configured, processes, used, file, saving, page>>

\* A file cannot be read, that of the pool at last.
FailToLoad ==
    /\ conf # "none" /\ conf' = "none" /\ read' = Unset
    /\ UNCHANGED <<configured, processes, used, file, saving, page>>

\* The last section of configure.
Replace ==
    /\ conf = "join" /\ conf' = "none"
    /\ configured' = TRUE
    /\ used' = read /\ read' = Unset
    /\ UNCHANGED <<processes, file, saving, page>>

\* The process stops, and another one takes its place; pages stay open.
RestartProcess ==
    /\ processes < MaxProcesses /\ processes' = processes + 1
    /\ configured' = FALSE /\ conf' = "none"
    /\ used' = Unset /\ read' = Unset /\ saving' = [d \in Docs |-> NoSave]
    /\ UNCHANGED <<file, page>>

SettingsNext ==
    \/ \E d \in Docs :
        \/ Show(d) \/ WriteSetting(d) \/ CommitSetting(d) \/ Load(d)
        \/ \E v \in Values : Save(d, v)
    \/ Configure \/ FailToLoad \/ Replace \/ RestartProcess

SettingsSpec == SettingsInit /\ [][SettingsNext]_settingsVars

----------------------------------------------------------------------------

SettingsTypeOK ==
    /\ configured \in BOOLEAN /\ processes \in Nat
    /\ conf \in {"none", "selection", "schedule", "join"}
    /\ used \in [Docs -> Setting \cup {NoSetting}]
    /\ file \in [Docs -> Setting \cup {NoSetting}]
    /\ read \in [Docs -> Setting \cup {NoSetting}]
    /\ page \in [Docs -> Setting \cup {NoSetting}]
    /\ saving \in [Docs -> {NoSave} \cup [step : {"write", "commit"}, next : Setting]]

\* "selection_changed_reload_before_saving" (src/selection.go:170): a save
\* never replaces a saved setting that its page did not show, whatever other
\* pages, configurations and restarts did in between.
NoLostUpdate ==
    [][\A d \in Docs :
          file'[d] # file[d] /\ file[d] # NoSetting => page[d] = file[d]]_settingsVars

\* "credential/model selections persist" (README.md:78): what is used is
\* what was saved last, after a configuration, after one that failed, and
\* after a stop between the file and memory.
UsedIsSaved ==
    configured =>
        \A d \in Docs :
            saving[d].step # "commit" /\ file[d] # NoSetting => used[d] = file[d]
=============================================================================
