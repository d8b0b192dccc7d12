\* Two requests of one key that carry, lose and replace its states.
SPECIFICATION Spec
CONSTANTS
    k1 = k1
    k2 = k2
    a1 = a1
    a2 = a2
    i1 = i1
    j1 = j1
    i2 = i2
    s1 = s1
    l1 = l1
    l2 = l2
    r1 = r1
    r2 = r2
    NoState = NoState
    NoKey = NoKey
    NoValue = NoValue
    NoIdentity = NoIdentity
    NoBinding = NoBinding
    NoCandidate = NoCandidate
    NoEvent = NoEvent
    Values = {l1, s1}
    Short = {s1}
    Issued <- MCIssuedTogether
    Identities = {i1}
    Keys = {k1}
    Auths = {a1}
    AuthOf <- MCAuthOfOne
    AccountOf <- MCAccountOfSingle
    Requests = {r1, r2}
    Transports = {}
    Modes = {"force"}
    TTL = 1
    Skew = 0
    Prefer292 = TRUE
    StandbyEnabled = TRUE
    RequireModelMatch = TRUE
    SelectionRequired = FALSE
    BlockWithoutState = FALSE
    RefreshOnErrors = FALSE
    OnMissing = FALSE
    MaxRequests = 2
    WsOverlapsRetry = FALSE
    HostOutcomes = {"succeeded", "failed"}
    MayQuiesce = FALSE
    MaxAttempts = 1
    MaxTokens = 1
    TerminalOnce = TRUE
    MaxRotations = 0
    MaxTime = 0
PROPERTIES
    OnlyOwnStateRemoved
    MismatchInvalidatesUsed
SYMMETRY Symmetry
CHECK_DEADLOCK FALSE
