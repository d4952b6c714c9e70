----------------------------- MODULE MCRequests -----------------------------
(* Small instances of the replay cache and of expenses and payroll.  They  *)
(* share no state, so a behaviour moves one of them, chosen at its start,  *)
(* and leaves the other as it is.                                          *)
EXTENDS Idempotency, Payroll, TLC

CONSTANTS u1, u2, p1, p2, q1, q2

\* Requests are interchangeable, and so are keys and bodies.
MCSymmetry == Permutations(Requests) \cup Permutations(Keys) \cup Permutations(Bodies)

MCAuthorOf == [c \in Claims |-> u1]

\* The part that moves: the cache; or the money, with a second period, with a
\* second user beside the author of the claim, or with a second request.
VARIABLE moving

allVars == <<moving, vars, payVars>>

MCInit ==
    /\ moving \in {"cache", "periods", "staff", "callers"}
    /\ Init /\ PayrollInit
    /\ moving # "cache" => \A r, s \in Requests : req[r] = req[s]

\* No purchase follows every period, and what the other choices leave out: two
\* requests move a period by one instant only.
Considered ==
    /\ \A c \in Claims : claim'[c].at < 3
    /\ moving # "periods" =>
          period'[p2].state = "none" /\ (job'[q1].kind = "create" => job'[q1].period = p1)
    /\ moving # "staff" => \A p \in Periods : slip'[<<p, u2>>] = NoSlip
    /\ moving # "callers" => job'[q2] = NoJob
    /\ moving = "callers" =>
          /\ \A c \in Claims : claim'[c].at < 2
          /\ \A p \in Periods : period'[p].window.to < period'[p].window.from + 2

\* Not more than one of the requests dies, raises or passes the cache by.
Strays(r) == pc'[r] = "crashed" \/ reply'[r].kind \in {"raised", "bypass", "too_large"}
OneStrays == \A r, s \in Requests : Strays(r) /\ Strays(s) => r = s

MCNext ==
    /\ UNCHANGED moving
    /\ \/ moving = "cache" /\ Next /\ OneStrays /\ UNCHANGED payVars
       \/ moving # "cache" /\ PayrollNext /\ Considered /\ UNCHANGED vars

MCSpec == MCInit /\ [][MCNext]_allVars

-----------------------------------------------------------------------------
\* The types of the two parts.
RequestsTypeOK ==
    /\ TypeOK
    /\ PayrollTypeOK
=============================================================================
