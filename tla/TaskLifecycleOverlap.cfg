\* Two completions overlap.
SPECIFICATION Spec
CONSTANTS
    Requests = {r1, r2}
    Users = {u1, u2}
    Sweepers = {w1}
    MaxAborts = 0
CHECK_DEADLOCK FALSE
INVARIANT
    DisplacedIsAudited
