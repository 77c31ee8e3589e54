SPECIFICATION Spec

CONSTANTS
    Jobs = {j1, j2}
    Servers = {s1, s2}
    NoClaim = NoClaim
    MaxAttempts = 2
    RetryWindow = 2
    MaxPerMinute = 0
    RetryBase = 1
    RetryCap = 2
    StaleActive = 1
    Minute = 0
    SlowDelivery = FALSE
    StoreFails = TRUE
    LateCap = 1
    MaxFaults = 1
    MaxStops = 1

INVARIANTS
    TypeOK
    ActiveIsHeld
    MailPerAttempt
    AttemptsWithinCap

PROPERTIES
    TerminalIsFinal
    ServiceSpec

SYMMETRY Interchangeable
