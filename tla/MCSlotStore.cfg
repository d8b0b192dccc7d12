\* Selection required (the default): one identity per key, or none.
SPECIFICATION Spec
CONSTANTS
    s1 = s1
    s2 = s2
    l1 = l1
    l2 = l2
    i1 = i1
    i2 = i2
    k1 = k1
    NoState = NoState
    Values = {s1, s2, l1, l2}
    Short = {s1, s2}
    Issued <- MCIssued
    Identities = {i1, i2}
    Keys = {k1}
    Selections <- MCSelections
    TTL = 3
    Skew = 1
    Prefer292 = TRUE
    StandbyEnabled = TRUE
    RequireModelMatch = TRUE
    MaxTime = 5
INVARIANTS
    DistinctSlots
    PreferredFirst
    OfferSettles
PROPERTIES
    NeverWorseOff
    EchoKeepsRecord
CHECK_DEADLOCK FALSE
