SPECIFICATION Spec
CONSTANTS
    Subs = {s1}
    Deliveries = {d1}
    w1 = w1
    w2 = w2
    d2 = d2
    Dispatchers = {w1}
    MaxAttempts = 2
    MinDeliveries = 1
    MaxCrashes = 0
    DecryptFails = FALSE
    DemoMode = FALSE
CHECK_DEADLOCK FALSE
PROPERTIES
    EnableOutlivesOldFailures
