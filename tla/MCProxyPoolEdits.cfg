\* A pool that a dashboard page edits, often stale, while results and tests come back.
SPECIFICATION Spec
CONSTANTS
    x = x
    y = y
    z = z
    t = t
    u = u
    v = v
    a1 = a1
    w1 = w1
    p1 = p1
    NoEntry = NoEntry
    NoUrl = NoUrl
    Ids = {x, y}
    Urls = {u, v}
    Auths = {a1}
    Waves = {w1}
    Pages = {p1}
    MaxEntries = 1
    MaxTests = 1
    Threshold = 2
    Cooldown = 1
    Limits = {1}
    Files <- MCFileOne
    MaxRevision = 2
    MaxUses = 2
    MaxTime = 1
INVARIANTS
    EvidenceIsOfAddress
    SettingsAreDurable
    ErrorIsHonest
    RevisionNamesSettings
    TestsAreCounted
CHECK_DEADLOCK FALSE
