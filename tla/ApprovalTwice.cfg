SPECIFICATION Spec
CONSTANTS
    Approvals = {a1, a2}
    Denials = {d1}
    Sweepers = {w1}
    Capable = {a1, a2, d1}
    Targets = {t1}
    Tools = {"broadcast"}
    MaxDeaths = 1

CHECK_DEADLOCK FALSE
INVARIANTS
    ApproveFiresOnce
