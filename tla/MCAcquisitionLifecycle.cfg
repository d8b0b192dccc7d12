\* Accounts change, configurations follow each other, and whatever began ends.
SPECIFICATION FairSpec
CONSTANTS
    k1 = k1
    k2 = k2
    a1 = a1
    i1 = i1
    j1 = j1
    t1 = t1
    t2 = t2
    t3 = t3
    Keys = {k1}
    Auths = {a1}
    AuthOf <- MCAuthOfOne
    Tasks = {t1, t2}
    NoTask = NoTask
    NoKey = NoKey
    Identities = {i1, j1}
    NoIdentity = NoIdentity
    Limits = {2}
    Continuous = TRUE
    MaxPerHour = 2
    MaxAttempts = 1
    MaxGenerations = 2
INVARIANTS
    NoWithdrawnCache
    GenerationCoherent
PROPERTIES
    StoppedTasksEnd
CHECK_DEADLOCK FALSE
