SPECIFICATION InviteSpec
CONSTANTS
    a1 = a1
    a2 = a2
    i1 = i1
    i2 = i2
    i3 = i3
    n1 = n1
    n2 = n2
    n3 = n3
    Addresses = {a1, a2}
    Invites = {i1, i2, i3}
    AddressOf <- MCAddressOf
    Links = {n1, n2, n3}
    LinkOf <- MCLinkOf
    Roles = {"worker"}
    Managers = {"m1"}
    Invitees = {"v1"}
    InviteSweepers = {"s1"}
    NoCaller = NoCaller
PROPERTY LapsedIsExpired
CHECK_DEADLOCK FALSE
