SPECIFICATION MCSpec
CONSTANTS
    r1 = r1
    r2 = r2
    r3 = r3
    u1 = u1
    Requests = {r1, r2, r3}
    Users = {u1, u2}
    Sweepers = {w1, w2}
    MaxAborts = 1
    Schedules = {1}
    Days = {1, 2}
    Closable = {2}
    Bodies <- MCBodies
    Skew <- MCSkew
    Horizon = 1
    LastDay = 2
    Generators = {g1, g2}
    Managers = {m1}
    MaxMoves = 1
    MaxFailures = 1
    NoBody = NoBody
    NoSchedule = NoSchedule
CHECK_DEADLOCK FALSE
INVARIANTS
    TasksTypeOK
    CompletionIsReal
    SerialRequestsAreSound
    OccurrencesAreSingle
PROPERTIES
    TerminalIsLeftByStragglers
    PastDueIsNoticed
    QuietSchedulesStayQuiet
    OccurrencesAreMaterialised
