SPECIFICATION MCSpec
CONSTANTS
    Requests = {r1, r2, r3}
    Keys = {k1}
    Bodies = {b1, b2}
    TTL = 1
    MaxClock = 2
    u1 = u1
    u2 = u2
    p1 = p1
    p2 = p2
    q1 = q1
    q2 = q2
    Claims = {c1}
    Staff = {u1, u2}
    AuthorOf <- MCAuthorOf
    Periods = {p1, p2}
    Instants = {1, 2, 3}
    Callers = {q1, q2}
    NoPeriod = NoPeriod
SYMMETRY MCSymmetry
CHECK_DEADLOCK FALSE
INVARIANTS
    RequestsTypeOK
    CacheIsSound
    PayrollIsSound
PROPERTIES
    ImplementsReplayStore
    ClaimsAreOneWay
