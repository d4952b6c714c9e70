SPECIFICATION MCSpec
CONSTANTS
    Workers = {w1, w2}
    Operators = {o1}
    RepeatedThreshold = 2
    DeadThreshold = 3
    SeedsAtStartup = TRUE
    MaxFaults = 2
    t1 = t1
    t2 = t2
    t3 = t3
    c1 = c1
    c2 = c2
    Turns = {t1, t2, t3}
    Correlations = {c1, c2}
    CorrelationOf <- MCCorrelationOf
    MaxCalls <- MCMaxCalls
    Total <- MCTotal
    Cap = 3
    Projected = 1
    Quotas = {3}
    Refreshers = {r1}
    MaxLlmFaults = 1
    NoOne = NoOne
    u1 = u1
    u2 = u2
    u3 = u3
    g1 = g1
    g2 = g2
    g3 = g3
    Users = {u1, u2, u3}
    Grants = {g1, g2, g3}
    HolderOf <- MCHolderOf
    Requests = {q1, q2}
    Unlocked = Unlocked
    k1 = k1
    Pushes = {d1, d2}
    Tokens = {k1}
    TokenOf <- MCTokenOf
    Pushers = {p1, p2}
    MaxAttempts = 2
    MaxPushCrashes = 1
    e1 = e1
    e2 = e2
    MayDo <- MCMayDo
    Items = {1, 2}
    Takes = {s1}
    Clients = {e1, e2}
    Checkers = {b1, b2}
    Observed = {0}
    InitialStock = 1
    Tracked = {1}
    ReorderPoint = 0
    MaxStockFaults = 1
INVARIANTS
    PartsTypeOK
    CountIsExact
    LedgerIsSound
    OwnershipRemains
    OneOpenRestock
PROPERTIES
    SwitchIsEarned
    SettlesOnceHealthy
    RefreshHeals
    PostsAreOwed
    PushIsSettled
    CountsHold
    LowIsRestocked
CHECK_DEADLOCK FALSE
