\* Three tasks on one credential, a limit that moves, an hourly budget.
SPECIFICATION Spec
CONSTANTS
    k1 = k1
    k2 = k2
    a1 = a1
    i1 = i1
    j1 = j1
    t1 = t1
    t2 = t2
    t3 = t3
    Keys = {k1, k2}
    Auths = {a1}
    AuthOf <- MCAuthOf
    Tasks = {t1, t2, t3}
    NoTask = NoTask
    NoKey = NoKey
    Identities = {i1}
    NoIdentity = NoIdentity
    Limits = {1, 3}
    Continuous = FALSE
    MaxPerHour = 2
    MaxAttempts = 1
    MaxGenerations = 1
INVARIANTS
    CapacityExact
    OnePerKey
    BudgetHolds
PROPERTIES
    WaveWithinLimit
SYMMETRY Symmetry
CHECK_DEADLOCK FALSE
