\* One request in every mode, behind the gate, while its account and selection change.
SPECIFICATION Spec
CONSTANTS
    k1 = k1
    k2 = k2
    a1 = a1
    a2 = a2
    i1 = i1
    j1 = j1
    i2 = i2
    s1 = s1
    l1 = l1
    l2 = l2
    r1 = r1
    r2 = r2
    NoState = NoState
    NoKey = NoKey
    NoValue = NoValue
    NoIdentity = NoIdentity
    NoBinding = NoBinding
    NoCandidate = NoCandidate
    NoEvent = NoEvent
    Values = {l1, s1}
    Short = {s1}
    Issued <- MCIssuedInTurn
    Identities = {i1, j1}
    Keys = {k1}
    Auths = {a1}
    AuthOf <- MCAuthOfOne
    AccountOf <- MCAccountOfOne
    Requests = {r1}
    Transports = {}
    Modes = {"force", "observe", "replace_only", "dry_run"}
    TTL = 2
    Skew = 0
    Prefer292 = TRUE
    StandbyEnabled = TRUE
    RequireModelMatch = TRUE
    SelectionRequired = TRUE
    BlockWithoutState = TRUE
    RefreshOnErrors = TRUE
    OnMissing = TRUE
    MaxRequests = 1
    WsOverlapsRetry = FALSE
    HostOutcomes = {"succeeded", "failed", "overload"}
    MayQuiesce = TRUE
    MaxAttempts = 1
    MaxTokens = 1
    TerminalOnce = TRUE
    MaxRotations = 1
    MaxTime = 2
INVARIANTS
    NothingOutsideSelection
PROPERTIES
    HeaderIsSound
    StoreSpec
    GateHolds
CHECK_DEADLOCK FALSE
