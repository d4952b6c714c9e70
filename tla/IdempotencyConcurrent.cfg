\* Two concurrent attempts with the same key and body both run the handler.
SPECIFICATION Spec
CONSTANTS
    Requests = {r1, r2}
    Keys = {k1}
    Bodies = {b1}
    TTL = 1
    MaxClock = 0
CHECK_DEADLOCK FALSE
INVARIANT
    ConcurrentRetriesRunHandlerOnce
