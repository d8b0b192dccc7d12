\* Waves of varying width over a pool whose entries stay available.
SPECIFICATION Spec
CONSTANTS
    x = x
    y = y
    z = z
    t = t
    u = u
    v = v
    a1 = a1
    w1 = w1
    p1 = p1
    NoEntry = NoEntry
    NoUrl = NoUrl
    Ids = {x, y, z, t}
    Urls = {u}
    Auths = {a1}
    Waves = {w1}
    Pages = {p1}
    MaxEntries = 4
    MaxTests = 0
    Threshold = 1
    Cooldown = 0
    Limits = {1, 2, 3}
    Files <- MCFileFull
    MaxRevision = 0
    MaxUses = 4
    MaxTime = 0
SYMMETRY IdSymmetry
INVARIANTS
    UsesBalanced
CHECK_DEADLOCK FALSE
