--------------------------- MODULE MCPrivateFiles ---------------------------
(* Settings and journal meet only in the process that both of them live in, *)
(* each is shown configurations and restarts of its own, and the report of  *)
(* the acquisition test belongs to a process of its own: a behaviour runs   *)
(* one of the three.                                                        *)
EXTENDS Settings, Journal, Hunt, TLC

CONSTANTS a, b, k1, h1, w

VARIABLE part

MCDefaults == [selection |-> {a}, schedule |-> {a, b}]

MCInit ==
    /\ SettingsInit /\ JournalInit /\ HuntInit
    /\ part \in {"settings", "journal", "hunt"}

MCNext ==
    /\ \/ part = "settings" /\ SettingsNext /\ UNCHANGED <<journalVars, huntVars>>
       \/ part = "journal" /\ JournalNext /\ UNCHANGED <<settingsVars, huntVars>>
       \/ part = "hunt" /\ HuntNext /\ UNCHANGED <<settingsVars, journalVars>>
    /\ UNCHANGED part

MCSpec == MCInit /\ [][MCNext]_<<settingsVars, journalVars, huntVars, part>>
=============================================================================
