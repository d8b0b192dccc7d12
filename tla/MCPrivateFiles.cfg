\* Two settings and two pages; one key, one hook and one background goroutine;
\* a report of four attempts and three runs.
SPECIFICATION MCSpec
CONSTANTS
    a = a
    b = b
    k1 = k1
    h1 = h1
    w = w
    NoSetting = NoSetting
    Values = {a, b}
    Defaults <- MCDefaults
    MaxSaves = 2
    MaxProcesses = 2
    NoCopy = NoCopy
    Host = Host
    Keys = {k1}
    Hooks = {h1}
    Background = {w}
    MaxChanges = 3
    MaxStarts = 2
    PerProxy = 2
    NoReport = NoReport
    MaxRuns = 3
INVARIANTS
    UsedIsSaved
    BackoffSurvives
    UnsavedIsShown
    CapHolds
PROPERTIES
    NoLostUpdate
    RejectionIsFinal
CHECK_DEADLOCK FALSE
