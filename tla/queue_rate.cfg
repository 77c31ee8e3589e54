SPECIFICATION FairSpec

CONSTANTS
    Jobs = {j1, j2}
    Servers = {s1}
    NoClaim = NoClaim
    MaxAttempts = 0
    RetryWindow = 1
    MaxPerMinute = 1
    RetryBase = 1
    RetryCap = 1
    StaleActive = 1
    Minute = 1
    SlowDelivery = TRUE
    StoreFails = FALSE
    LateCap = 2
    MaxFaults = 1
    MaxStops = 0

INVARIANTS
    RateLimit

PROPERTIES
    TerminalIsFinal
    FirstComeFirstTried
    EveryReportSettles
