\* The backoff outlasts the spacing, so that both delay a key.
SPECIFICATION FairSpec
CONSTANTS
    k1 = k1
    k2 = k2
    Keys = {k1, k2}
    Rank <- MCRank
    Limit = 1
    Retry = 1
    Backoff = 2
    Poll = 2
    Life = 1
    Busy = {k1}
    Selections <- MCSelections
INVARIANTS
    TypeOK
    TimerCoversDeadlines
PROPERTIES
    BackoffHonoured
    DueKeysAreTried
CHECK_DEADLOCK FALSE
