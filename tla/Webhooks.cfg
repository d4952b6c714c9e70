SPECIFICATION MCSpec
CONSTANTS
    w1 = w1
    w2 = w2
    d2 = d2
    Subs = {s1}
    Deliveries = {d1, d2}
    Dispatchers = {w1, w2}
    MaxAttempts = 2
    MinDeliveries = 1
    MaxCrashes = 1
    DecryptFails = TRUE
    DemoMode = FALSE
CHECK_DEADLOCK FALSE
INVARIANTS
    TypeOK
    LogIsHonest
    OneDispatcherIsExact
PROPERTIES
    
    TerminalIsFinal
    PendingIsResolved
