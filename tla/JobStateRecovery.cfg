SPECIFICATION FairSpec
CONSTANTS
    Workers = {w1, w2}
    Operators = {o1}
    RepeatedThreshold = 2
    DeadThreshold = 3
    SeedsAtStartup = TRUE
    MaxFaults = 0

PROPERTIES
    RecoversOnceHealthy
