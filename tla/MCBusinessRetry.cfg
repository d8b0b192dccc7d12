\* One request that the host retries, on the same credential or another.
SPECIFICATION Spec
CONSTANTS
    k1 = k1
    k2 = k2
    a1 = a1
    a2 = a2
    i1 = i1
    j1 = j1
    i2 = i2
    s1 = s1
    l1 = l1
    l2 = l2
    r1 = r1
    r2 = r2
    NoState = NoState
    NoKey = NoKey
    NoValue = NoValue
    NoIdentity = NoIdentity
    NoBinding = NoBinding
    NoCandidate = NoCandidate
    NoEvent = NoEvent
    Values = {l1, s1}
    Short = {s1}
    Issued <- MCIssuedTogether
    Identities = {i1, i2}
    Keys = {k1, k2}
    Auths = {a1, a2}
    AuthOf <- MCAuthOf
    AccountOf <- MCAccountOfTwo
    Requests = {r1}
    Transports = {"stream", "websocket"}
    Modes = {"force"}
    TTL = 1
    Skew = 0
    Prefer292 = TRUE
    StandbyEnabled = TRUE
    RequireModelMatch = TRUE
    SelectionRequired = FALSE
    BlockWithoutState = FALSE
    RefreshOnErrors = TRUE
    OnMissing = TRUE
    MaxRequests = 1
    WsOverlapsRetry = FALSE
    HostOutcomes = {"succeeded", "failed", "overload"}
    MayQuiesce = TRUE
    MaxAttempts = 2
    MaxTokens = 2
    TerminalOnce = TRUE
    MaxRotations = 0
    MaxTime = 0
INVARIANTS
    CandidateOfAttempt
PROPERTIES
    AdmissionIsEarned
CHECK_DEADLOCK FALSE
