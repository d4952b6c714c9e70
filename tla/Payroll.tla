------------------------------ MODULE Payroll -------------------------------
(***************************************************************************)
(* Expense claims (app/domain/expenses/claims.py, approval.py), pay        *)
(* periods (app/domain/payroll/periods.py), payslips (compute.py and the   *)
(* routes of app/api/v1/payroll.py) and the money that flows between them: *)
(* an approved claim is attached to a period, folded into the payslip of   *)
(* its author when the period is locked, and reimbursed when the payslip   *)
(* is paid, unless a manager has settled it by hand before.                *)
(*                                                                         *)
(* What changes a claim locks its row (SELECT ... FOR UPDATE) up to its    *)
(* commit.  Nothing else here is locked: a request on a period or a        *)
(* payslip checks what it has read, and writes in a later step.            *)
(*                                                                         *)
(* The claims modelled are in the currency of their author's payslip: a    *)
(* claim in another one is never folded, only settled by hand.             *)
(***************************************************************************)
EXTENDS Integers, FiniteSets

CONSTANTS
    Claims,     \* expense_claim rows
    Staff,      \* users with a work engagement
    AuthorOf,   \* AuthorOf[c]: the user behind the claim's engagement
    Periods,    \* pay_period rows
    Instants,   \* instants: purchases, bounds of periods
    Callers,    \* requests in progress at a time
    NoPeriod

ASSUME PayrollAssumption ==
    /\ Instants \subseteq Int /\ AuthorOf \in [Claims -> Staff]
    /\ NoPeriod \notin Periods /\ "hand" \notin Periods

VARIABLES
    claim,      \* claim[c]: its state, purchased_at and pay_period_id
    period,     \* period[p]: its state and window
    slip,       \* slip[<<p, u>>]: status, paid_at and the reimbursements of components_json
    job,        \* job[r]: what request r has read and not yet written
    \* History, read by the properties only.
    paidBy,     \* paidBy[c]: what has paid claim c: periods' payslips, or a manager by hand
    strayed,    \* claims on a payslip whose period was moved away from them
    overlapped  \* something was written beside an open request

payVars == <<claim, period, slip, job, paidBy, strayed, overlapped>>

Slips == Periods \X Staff
Windows == {w \in [from : Instants, to : Instants] : w.from < w.to}
Holds(w, t) == w.from <= t /\ t < w.to
Overlap(v, w) == v.from < w.to /\ w.from < v.to

NoClaim == [state |-> "none", at |-> 0, pin |-> NoPeriod]
NoSpan == [state |-> "none", window |-> [from |-> 0, to |-> 0]]
NoSlip == [status |-> "none", paidAt |-> FALSE, lists |-> {}]
NoJob == [kind |-> "none"]

Lives(p) == period[p].state \in {"open", "locked", "paid"}
SlipsOf(p) == {s \in Slips : s[1] = p /\ slip[s].status # "none"}
IsPaid(s) == slip[s].status = "paid" /\ slip[s].paidAt

PayrollInit ==
    /\ claim = [c \in Claims |-> NoClaim]
    /\ period = [p \in Periods |-> NoSpan]
    /\ slip = [s \in Slips |-> NoSlip]
    /\ job = [r \in Callers |-> NoJob]
    /\ paidBy = [c \in Claims |-> {}]
    /\ strayed = {}
    /\ overlapped = FALSE

\* The database is written by the requests of R, and not by those beside them.
Writes(R) == overlapped' = (overlapped \/ \E q \in Callers \ R : job[q] # NoJob)
Ends(r) == job' = [job EXCEPT ![r] = NoJob]

-----------------------------------------------------------------------------
(* Claims, each request in one step: its row is locked.                    *)

\* The row is read without FOR UPDATE.
NeverLocked(c) == TRUE

Unlocked(c) == \A r \in Callers : job[r].kind = "approve" => job[r].claim # c

Changes(c, from, to) ==
    /\ Unlocked(c)
    /\ claim[c].state = from
    /\ claim' = [claim EXCEPT ![c].state = to]
    /\ Writes({})
    /\ UNCHANGED <<period, slip, job, strayed>>

CreateClaim(c, t) ==
    /\ claim[c].state = "none"
    /\ claim' = [claim EXCEPT ![c] = [state |-> "draft", at |-> t, pin |-> NoPeriod]]
    /\ Writes({})
    /\ UNCHANGED <<period, slip, job, paidBy, strayed>>

UpdateClaim(c, t) ==
    /\ Unlocked(c)
    /\ claim[c].state = "draft"
    /\ claim' = [claim EXCEPT ![c].at = t]
    /\ Writes({})
    /\ UNCHANGED <<period, slip, job, paidBy, strayed>>

SubmitClaim(c) == Changes(c, "draft", "submitted") /\ UNCHANGED paidBy

\* A draft is soft-deleted, a submitted claim becomes a rejected one.
CancelClaim(c) ==
    /\ \/ Changes(c, "draft", "deleted")
       \/ Changes(c, "submitted", "rejected")
    /\ UNCHANGED paidBy

RejectClaim(c) == Changes(c, "submitted", "rejected") /\ UNCHANGED paidBy

\* mark_reimbursed: the manager has handed the money out.
MarkReimbursed(c) ==
    /\ Changes(c, "approved", "reimbursed")
    /\ paidBy' = [paidBy EXCEPT ![c] = @ \cup {"hand"}]

\* The earliest of the periods of S, if there is one; their ids break a tie.
Earliest(S) ==
    IF S = {} THEN {NoPeriod}
    ELSE {p \in S : \A q \in S : period[p].window.from <= period[q].window.from}

\* resolve_reimbursement_pay_period: the period of the purchase if it is open,
\* otherwise the next open one.
NextOpen(t) == Earliest({p \in Periods : period[p].state = "open" /\ t <= period[p].window.from})

Resolve(t) ==
    UNION {CASE p = NoPeriod             -> NextOpen(t)
             [] period[p].state = "open" -> {p}
             [] OTHER                    -> NextOpen(period[p].window.to) :
           p \in Earliest({q \in Periods : Lives(q) /\ Holds(period[q].window, t)})}

\* approve_claim with its edits: the claim is locked, the periods are read.
Approve(r, c, t) ==
    /\ job[r] = NoJob
    /\ Unlocked(c)
    /\ claim[c].state = "submitted"
    /\ \E pin \in Resolve(t) :
          job' = [job EXCEPT ![r] = [kind |-> "approve", claim |-> c, at |-> t, pin |-> pin]]
    /\ UNCHANGED <<claim, period, slip, paidBy, strayed, overlapped>>

\* The foreign key refuses a period that has been deleted since.
Approved(r) ==
    LET j == job[r] IN
    /\ j.kind = "approve"
    /\ j.pin # NoPeriod => Lives(j.pin)
    /\ claim' = [claim EXCEPT ![j.claim] = [state |-> "approved", at |-> j.at, pin |-> j.pin]]
    /\ Writes({r})
    /\ Ends(r)
    /\ UNCHANGED <<period, slip, paidBy, strayed>>

-----------------------------------------------------------------------------
(* Pay periods: a check in one step, the write in another.                 *)

Opens(r, j) ==
    /\ job[r] = NoJob
    /\ job' = [job EXCEPT ![r] = j]
    /\ UNCHANGED <<claim, period, slip, paidBy, strayed, overlapped>>

PeriodJob(kind, p, w) == [kind |-> kind, period |-> p, window |-> w]
Free(w, p) == \A q \in Periods \ {p} : Lives(q) => ~Overlap(period[q].window, w)
\* UNIQUE (workspace_id, starts_at, ends_at).
Unique(w, p) == \A q \in Periods \ {p} : Lives(q) => period[q].window # w

CreatePeriod(r, p, w) ==
    /\ period[p].state = "none"
    /\ \A q \in Callers : job[q].kind = "create" => job[q].period # p
    /\ Free(w, p)
    /\ Opens(r, PeriodJob("create", p, w))

Created(r) ==
    LET j == job[r] IN
    /\ j.kind = "create"
    /\ Unique(j.window, j.period)
    /\ period' = [period EXCEPT ![j.period] = [state |-> "open", window |-> j.window]]
    /\ Writes({r})
    /\ Ends(r)
    /\ UNCHANGED <<claim, slip, paidBy, strayed>>

UpdatePeriod(r, p, w) ==
    /\ period[p].state = "open"
    /\ Free(w, p)
    /\ Opens(r, PeriodJob("update", p, w))

\* The bounds are the only columns written.
Updated(r) ==
    LET j == job[r]
        left == {c \in Claims : /\ claim[c].pin = NoPeriod /\ ~Holds(j.window, claim[c].at)
                                /\ \E s \in SlipsOf(j.period) : c \in slip[s].lists}
    IN
    /\ j.kind = "update"
    /\ Lives(j.period)
    /\ Unique(j.window, j.period)
    /\ period' = [period EXCEPT ![j.period].window = j.window]
    /\ strayed' = strayed \cup left
    /\ Writes({r})
    /\ Ends(r)
    /\ UNCHANGED <<claim, slip, paidBy>>

DeletePeriod(r, p) ==
    /\ period[p].state = "open"
    /\ Opens(r, PeriodJob("delete", p, period[p].window))

\* Payslips go with their period; a claim attached to it restricts.
Deleted(r) ==
    LET j == job[r] IN
    /\ j.kind = "delete"
    /\ Lives(j.period)
    /\ \A c \in Claims : claim[c].pin # j.period
    /\ period' = [period EXCEPT ![j.period].state = "deleted"]
    /\ slip' = [s \in Slips |-> IF s[1] = j.period THEN NoSlip ELSE slip[s]]
    /\ Writes({r})
    /\ Ends(r)
    /\ UNCHANGED <<claim, paidBy, strayed>>

LockPeriod(r, p) ==
    /\ period[p].state = "open"
    /\ Opens(r, PeriodJob("lock", p, period[p].window))

\* The claims that compute_payslip folds, and that paying the payslip settles.
Reimbursable(p, u, w) ==
    {c \in Claims : /\ AuthorOf[c] = u /\ claim[c].state = "approved"
                    /\ \/ claim[c].pin = p
                       \/ claim[c].pin = NoPeriod /\ Holds(w, claim[c].at)}

\* payslip_recompute upserts a draft for each user of W, those with bookings in
\* the period; it refuses to touch a period with a paid payslip.  The window is
\* that of the row as it was loaded.
Locked(r, W) ==
    LET j == job[r] IN
    /\ j.kind = "lock"
    /\ Lives(j.period)
    /\ \A s \in SlipsOf(j.period) : slip[s].status # "paid" /\ ~slip[s].paidAt
    /\ period' = [period EXCEPT ![j.period].state = "locked"]
    /\ slip' = [s \in Slips |->
                  IF s[1] = j.period /\ s[2] \in W
                    THEN [status |-> "draft", paidAt |-> FALSE,
                          lists |-> Reimbursable(j.period, s[2], j.window)]
                    ELSE slip[s]]
    /\ Writes({r})
    /\ Ends(r)
    /\ UNCHANGED <<claim, paidBy, strayed>>

ReopenPeriod(r, p) ==
    /\ period[p].state = "locked"
    /\ \A s \in SlipsOf(p) : ~IsPaid(s)
    /\ Opens(r, PeriodJob("reopen", p, period[p].window))

\* All its payslips become drafts again, the voided ones too.
Reopened(r) ==
    LET j == job[r] IN
    /\ j.kind = "reopen"
    /\ Lives(j.period)
    /\ period' = [period EXCEPT ![j.period].state = "open"]
    /\ slip' = [s \in Slips |->
                  IF s \in SlipsOf(j.period)
                    THEN [slip[s] EXCEPT !.status = "draft", !.paidAt = FALSE] ELSE slip[s]]
    /\ Writes({r})
    /\ Ends(r)
    /\ UNCHANGED <<claim, paidBy, strayed>>

-----------------------------------------------------------------------------
(* Payslips.  Their routes do not look at the state of the period.         *)

IssuePayslip(r, s) ==
    /\ slip[s].status = "draft"
    /\ Opens(r, [kind |-> "issued", slip |-> s])

VoidPayslip(r, s) ==
    /\ slip[s].status \in {"draft", "issued"}
    /\ Opens(r, [kind |-> "voided", slip |-> s])

\* set_payslip_state selects the payslip again and sets both columns on the row
\* as it is now: paid_at becomes NULL, whatever has been written meanwhile.
StatusSet(r) ==
    LET j == job[r] IN
    /\ j.kind \in {"issued", "voided"}
    /\ slip[j.slip].status # "none"
    /\ slip' = [slip EXCEPT ![j.slip] =
                  [status |-> j.kind, paidAt |-> FALSE, lists |-> @.lists]]
    /\ Writes({r})
    /\ Ends(r)
    /\ UNCHANGED <<claim, period, paidBy, strayed>>

\* mark_payslip_paid_route loads the payslip and its period, ...
PayPayslip(r, s) ==
    /\ slip[s].status = "issued"
    /\ Opens(r, [kind |-> "pay", slip |-> s, lists |-> slip[s].lists, period |-> period[s[1]]])

\* What a manager has settled meanwhile stays on the payslip.
KeepEverything(lists) == lists

\* reconcile_reimbursements_before_paid.
StillOwed(lists) == {c \in lists : claim[c].state = "approved"}

\* ... drops the claims that are no longer approved from its copy, and finds
\* out whether this payslip is the last one of a locked period, ...
Reconcile(r) ==
    LET j == job[r]
        kept == StillOwed(j.lists)
    IN
    /\ j.kind = "pay"
    /\ job' = [job EXCEPT ![r] =
                 [kind |-> "settle", slip |-> j.slip, window |-> j.period.window, lists |-> kept,
                  rewrites |-> kept # j.lists,
                  last |-> /\ j.period.state = "locked"
                           /\ \A s \in SlipsOf(j.slip[1]) \ {j.slip} : IsPaid(s)]]
    /\ UNCHANGED <<claim, period, slip, paidBy, strayed, overlapped>>

\* ... and commits the payment: the components if they have changed, the
\* claims of the payslip that are still to be reimbursed, the period if it is
\* the last payslip.  What is paid out is the net of the copy.
PayslipPaid(r) ==
    LET j == job[r]
        p == j.slip[1]
        settled == j.lists \cap Reimbursable(p, j.slip[2], j.window)
    IN
    /\ j.kind = "settle"
    /\ slip[j.slip].status # "none"
    /\ slip' = [slip EXCEPT ![j.slip] =
                  [status |-> "paid", paidAt |-> TRUE,
                   lists |-> IF j.rewrites THEN j.lists ELSE @.lists]]
    /\ claim' = [c \in Claims |->
                   IF c \in settled THEN [claim[c] EXCEPT !.state = "reimbursed"] ELSE claim[c]]
    /\ period' = IF j.last THEN [period EXCEPT ![p].state = "paid"] ELSE period
    /\ paidBy' = [c \in Claims |-> IF c \in j.lists THEN paidBy[c] \cup {p} ELSE paidBy[c]]
    /\ Writes({r})
    /\ Ends(r)
    /\ UNCHANGED strayed

\* A request fails, is a deadlock's victim or dies with its process.
Abandon(r) ==
    /\ job[r] # NoJob
    /\ Ends(r)
    /\ UNCHANGED <<claim, period, slip, paidBy, strayed, overlapped>>

-----------------------------------------------------------------------------

ClaimStep(c) ==
    \/ \E t \in Instants : CreateClaim(c, t) \/ UpdateClaim(c, t)
    \/ SubmitClaim(c)
    \/ CancelClaim(c)
    \/ RejectClaim(c)
    \/ MarkReimbursed(c)

Read(r) ==
    \/ \E c \in Claims, t \in Instants : Approve(r, c, t)
    \/ \E p \in Periods, w \in Windows : CreatePeriod(r, p, w) \/ UpdatePeriod(r, p, w)
    \/ \E p \in Periods : DeletePeriod(r, p) \/ LockPeriod(r, p) \/ ReopenPeriod(r, p)
    \/ \E s \in Slips : IssuePayslip(r, s) \/ VoidPayslip(r, s) \/ PayPayslip(r, s)

Write(r) ==
    \/ Approved(r)
    \/ Created(r)
    \/ Updated(r)
    \/ Deleted(r)
    \/ \E W \in SUBSET Staff : Locked(r, W)
    \/ Reopened(r)
    \/ StatusSet(r)
    \/ Reconcile(r)
    \/ PayslipPaid(r)
    \/ Abandon(r)

PayrollNext ==
    \/ \E c \in Claims : ClaimStep(c)
    \/ \E r \in Callers : Read(r) \/ Write(r)

PayrollSpec == PayrollInit /\ [][PayrollNext]_payVars

-----------------------------------------------------------------------------
(* Properties.                                                             *)

ClaimStates == {"none", "draft", "submitted", "approved", "rejected", "reimbursed", "deleted"}
SlipStates == {"none", "draft", "issued", "paid", "voided"}
Spans == [from : Int, to : Int]
Jobs ==
    {NoJob}
        \cup [kind : {"approve"}, claim : Claims, at : Instants, pin : Periods \cup {NoPeriod}]
        \cup [kind : {"create", "update", "delete", "lock", "reopen"}, period : Periods, window : Spans]
        \cup [kind : {"issued", "voided"}, slip : Slips]
        \cup [kind : {"pay"}, slip : Slips, lists : SUBSET Claims,
              period : [state : {"none", "open", "locked", "paid", "deleted"}, window : Spans]]
        \cup [kind : {"settle"}, slip : Slips, window : Spans, lists : SUBSET Claims,
              rewrites : BOOLEAN, last : BOOLEAN]

PayrollTypeOK ==
    /\ claim \in [Claims -> [state : ClaimStates, at : Int, pin : Periods \cup {NoPeriod}]]
    /\ period \in [Periods -> [state : {"none", "open", "locked", "paid", "deleted"}, window : Spans]]
    /\ slip \in [Slips -> [status : SlipStates, paidAt : BOOLEAN, lists : SUBSET Claims]]
    /\ job \in [Callers -> Jobs]
    /\ paidBy \in [Claims -> SUBSET (Periods \cup {"hand"})]
    /\ strayed \in SUBSET Claims
    /\ overlapped \in BOOLEAN

\* The state machine of approval.py and claims.py, whatever requests overlap: a
\* decision is taken once and stays, a claim is attached to a period by its
\* approval only, and nothing but an approved claim is ever reimbursed.
ClaimsAreOneWay ==
    [][\A c \in Claims :
          /\ claim'[c].state # claim[c].state =>
                <<claim[c].state, claim'[c].state>> \in
                    {<<"none", "draft">>, <<"draft", "submitted">>, <<"draft", "deleted">>,
                     <<"submitted", "rejected">>, <<"submitted", "approved">>,
                     <<"approved", "reimbursed">>}
          /\ \/ claim'[c].pin # claim[c].pin
             \/ claim[c].state # "draft" /\ claim'[c].at # claim[c].at
             => <<claim[c].state, claim'[c].state>> \in {<<"none", "draft">>, <<"submitted", "approved">>}]_payVars

\* Whatever overlaps, a claim is closed as reimbursed only by something that pays
\* it: a payslip never closes a claim that its net does not contain.
ClosedIsPaid ==
    \A c \in Claims : claim[c].state = "reimbursed" => paidBy[c] # {}

\* Requests that do not overlap keep the books: a claim that has been paid is
\* closed, and was paid once, by hand or by one payslip, which lists it for as
\* long as it exists.  Claims whose period was moved away from them are excepted.
BooksBalance ==
    ~overlapped =>
        \A c \in Claims \ strayed :
            /\ paidBy[c] # {} => claim[c].state = "reimbursed"
            /\ \A a, b \in paidBy[c] : a = b
            /\ \A p \in paidBy[c] : \A s \in SlipsOf(p) :
                  s[2] = AuthorOf[c] => IsPaid(s) /\ c \in slip[s].lists

\* They also keep a period and its payslips together: a paid period has paid
\* payslips only, a locked one has one that is not paid yet or none at all.
PeriodsFollowSlips ==
    ~overlapped =>
        \A p \in Periods :
            /\ period[p].state = "paid" => \A s \in SlipsOf(p) : IsPaid(s)
            /\ period[p].state = "locked" /\ SlipsOf(p) # {} => \E s \in SlipsOf(p) : ~IsPaid(s)

PayrollIsSound == ClosedIsPaid /\ BooksBalance /\ PeriodsFollowSlips
=============================================================================
