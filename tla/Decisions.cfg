SPECIFICATION MCSpec
CONSTANTS
    Approvals = {a1, a2}
    Denials = {d1, d2}
    Sweepers = {w1}
    Capable = {a1, d1}
    Targets = {t1, t2}
    Tools = {"broadcast", "cancel_task"}
    MaxDeaths = 1
    i1 = i1
    i2 = i2
    n1 = n1
    n2 = n2
    n3 = n3
    Addresses = {"ann"}
    Invites = {i1, i2}
    AddressOf <- MCAddressOf
    Links = {n1, n2, n3}
    LinkOf <- MCLinkOf
    Roles = {"worker"}
    Managers = {"m1", "x2"}
    Invitees = {"v1", "x2"}
    InviteSweepers = {"s1"}
    NoCaller = NoCaller
CHECK_DEADLOCK FALSE
INVARIANTS
    DecisionsTypeOK
    FiresOnceWithoutOverlap
    DecisionsAreReal
    LinksAreSingleUse
    EnrolmentIsProven
PROPERTIES
    DecisionIsFinal
    SettledIsLeftByLate
    PendingIsDecided
    LapsedAreExpired
