\* A reconfiguration that meets unsaved or changing slots.
SPECIFICATION Spec
CONSTANTS
    s1 = s1
    l1 = l1
    i1 = i1
    k1 = k1
    h1 = h1
    w = w
    NoState = NoState
    NoPairs = NoPairs
    Values = {s1, l1}
    Short = {s1}
    Issued <- MCIssued
    Identities = {i1}
    TTL = 2
    Skew = 1
    Prefer292 = TRUE
    StandbyEnabled = TRUE
    RequireModelMatch = TRUE
    Keys = {k1}
    Hooks = {h1}
    Worker = w
    HotReconfigure = TRUE
    MaxRevision = 3
    MaxStarts = 2
    MaxTime = 2
INVARIANTS
    RejectedStaysGone
CHECK_DEADLOCK FALSE
