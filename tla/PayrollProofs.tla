--------------------------- MODULE PayrollProofs ----------------------------
(***************************************************************************)
(* Proofs about Payroll, for any claims, users, periods, instants and      *)
(* number of overlapping requests: the states of a claim, that a closed    *)
(* claim has been paid, and the books of requests that do not overlap.     *)
(***************************************************************************)
EXTENDS MCRequests, IdempotencyProofs

-----------------------------------------------------------------------------
(* The inductive invariant.                                                *)

\* A request that approves a claim holds its row.
ApprovalsHoldClaims ==
    \A r \in Callers : job[r].kind = "approve" =>
        /\ claim[job[r].claim].state = "submitted"
        /\ \A q \in Callers : job[q].kind = "approve" /\ job[q].claim = job[r].claim => q = r

\* Only approved claims are folded, and they stay approved until they are closed.
WasApproved(c) == claim[c].state \in {"approved", "reimbursed"}
FoldedWereApproved ==
    /\ \A s \in Slips : \A c \in slip[s].lists : WasApproved(c)
    /\ \A r \in Callers : job[r].kind \in {"pay", "settle"} => \A c \in job[r].lists : WasApproved(c)

\* Payslips go with their period, which existed when one of them was paid.
SlipsHavePeriods ==
    /\ \A s \in Slips : slip[s].status # "none" => Lives(s[1])
    /\ \A c \in Claims : \A p \in paidBy[c] : p # "hand" => period[p].state # "none"

\* What a request has read still stands, as long as nothing overlaps.
Fresh(j) ==
    /\ j.kind = "create" => period[j.period].state = "none"
    /\ j.kind \in {"update", "delete"} => period[j.period].state = "open"
    /\ j.kind = "lock" => period[j.period].state = "open" /\ j.window = period[j.period].window
    /\ j.kind = "reopen" =>
          period[j.period].state = "locked" /\ \A s \in SlipsOf(j.period) : ~IsPaid(s)
    /\ j.kind \in {"issued", "voided"} => slip[j.slip].status \in {"draft", "issued"}
    /\ j.kind = "pay" =>
          /\ slip[j.slip].status = "issued"
          /\ j.lists = slip[j.slip].lists
          /\ j.period = period[j.slip[1]]
    /\ j.kind = "settle" =>
          /\ slip[j.slip].status = "issued"
          /\ j.lists = StillOwed(slip[j.slip].lists)
          /\ ~j.rewrites => j.lists = slip[j.slip].lists
          /\ j.window = period[j.slip[1]].window
          /\ j.last <=> /\ period[j.slip[1]].state = "locked"
                        /\ \A s \in SlipsOf(j.slip[1]) \ {j.slip} : IsPaid(s)
JobsAreFresh == ~overlapped => \A r \in Callers : Fresh(job[r])

\* The payslip that lists an approved claim will settle it, unless the claim has
\* strayed.
Settles(s, c) ==
    /\ AuthorOf[c] = s[2]
    /\ \/ claim[c].pin = s[1]
       \/ claim[c].pin = NoPeriod /\ Holds(period[s[1]].window, claim[c].at)
ListedAreSettled ==
    ~overlapped =>
        \A s \in Slips : slip[s].status # "none" =>
            \A c \in slip[s].lists \ strayed : claim[c].state = "approved" => Settles(s, c)

\* The payslip that has paid a claim stays, paid, as long as its period lives.
PaidOnce ==
    ~overlapped =>
        \A c \in Claims \ strayed :
            /\ paidBy[c] # {} => claim[c].state = "reimbursed"
            /\ \A a, b \in paidBy[c] : a = b
            /\ \A p \in paidBy[c] : p # "hand" /\ Lives(p) =>
                  IsPaid(<<p, AuthorOf[c]>>) /\ c \in slip[<<p, AuthorOf[c]>>].lists

PayrollIInv ==
    /\ PayrollTypeOK
    /\ ApprovalsHoldClaims
    /\ FoldedWereApproved
    /\ SlipsHavePeriods
    /\ JobsAreFresh
    /\ ListedAreSettled
    /\ PaidOnce
    /\ ClosedIsPaid
    /\ PeriodsFollowSlips

-----------------------------------------------------------------------------
(* What a request in progress holds, and what a step does to the tables.   *)

LEMMA JobFields ==
    ASSUME PayrollTypeOK, NEW r \in Callers
    PROVE  /\ job[r].kind = "approve" =>
                 job[r].claim \in Claims /\ job[r].at \in Instants /\ job[r].pin \in Periods \cup {NoPeriod}
           /\ job[r].kind \in {"create", "update", "delete", "lock", "reopen"} =>
                 job[r].period \in Periods /\ job[r].window \in Spans
           /\ job[r].kind \in {"issued", "voided", "pay", "settle"} => job[r].slip \in Slips
           /\ job[r].kind \in {"pay", "settle"} => job[r].lists \in SUBSET Claims
           /\ job[r].kind = "pay" =>
                 job[r].period \in [state : {"none", "open", "locked", "paid", "deleted"}, window : Spans]
           /\ job[r].kind = "settle" =>
                 job[r].window \in Spans /\ job[r].rewrites \in BOOLEAN /\ job[r].last \in BOOLEAN
           /\ job[r] # NoJob => job[r].kind # "none"
<1>1. job[r] \in Jobs
  BY DEF PayrollTypeOK
<1> QED
  BY <1>1 DEF Jobs, NoJob

\* The rows of a claim's own steps.
ClaimRow == [state : ClaimStates, at : Int, pin : Periods \cup {NoPeriod}]

LEMMA ClaimEffect ==
    ASSUME PayrollTypeOK, NEW c \in Claims, ClaimStep(c)
    PROVE  /\ claim' = [claim EXCEPT ![c] = claim'[c]] /\ claim'[c] \in ClaimRow
           /\ Writes({})
           /\ UNCHANGED <<period, slip, job, strayed>>
<1> USE PayrollAssumption DEF PayrollTypeOK, ClaimRow, ClaimStates
<1>1. ASSUME NEW t \in Instants, CreateClaim(c, t)
      PROVE  claim' = [claim EXCEPT ![c] = claim'[c]] /\ claim'[c] \in ClaimRow
  <2>1. claim'[c] = [state |-> "draft", at |-> t, pin |-> NoPeriod]
    BY <1>1 DEF CreateClaim
  <2>2. claim' = [claim EXCEPT ![c] = claim'[c]]
    BY <1>1, <2>1 DEF CreateClaim
  <2>3. [state |-> "draft", at |-> t, pin |-> NoPeriod] \in ClaimRow
    OBVIOUS
  <2> QED
    BY <2>1, <2>2, <2>3
<1>2. ASSUME NEW t \in Instants, UpdateClaim(c, t)
      PROVE  claim' = [claim EXCEPT ![c] = claim'[c]] /\ claim'[c] \in ClaimRow
  <2>1. claim'[c] = [claim[c] EXCEPT !.at = t]
    BY <1>2 DEF UpdateClaim
  <2>2. claim' = [claim EXCEPT ![c] = claim'[c]]
    BY <1>2, <2>1 DEF UpdateClaim
  <2> QED
    BY <2>1, <2>2
<1>3. ASSUME NEW from, NEW to \in ClaimStates, Changes(c, from, to)
      PROVE  claim' = [claim EXCEPT ![c] = claim'[c]] /\ claim'[c] \in ClaimRow
  <2>1. claim'[c] = [claim[c] EXCEPT !.state = to]
    BY <1>3 DEF Changes
  <2>2. claim' = [claim EXCEPT ![c] = claim'[c]]
    BY <1>3, <2>1 DEF Changes
  <2>3. claim[c] \in ClaimRow
    OBVIOUS
  <2> QED
    BY <2>1, <2>2, <2>3
<1>4. claim' = [claim EXCEPT ![c] = claim'[c]] /\ claim'[c] \in ClaimRow
  BY <1>1, <1>2, <1>3 DEF ClaimStep, SubmitClaim, CancelClaim, RejectClaim, MarkReimbursed
<1>5. Writes({}) /\ UNCHANGED <<period, slip, job, strayed>>
  BY DEF ClaimStep, CreateClaim, UpdateClaim, SubmitClaim, CancelClaim, RejectClaim,
         MarkReimbursed, Changes
<1> QED
  BY <1>4, <1>5

LEMMA PayrollTypeStep == PayrollTypeOK /\ [PayrollNext]_payVars => PayrollTypeOK'
<1> SUFFICES ASSUME PayrollTypeOK, [PayrollNext]_payVars PROVE PayrollTypeOK'
  OBVIOUS
<1> USE PayrollAssumption DEF PayrollTypeOK
<1>1. ASSUME NEW c \in Claims, ClaimStep(c) PROVE PayrollTypeOK'
  <2>1. claim' \in [Claims -> ClaimRow]
    BY <1>1, ClaimEffect DEF ClaimRow
  <2>2. paidBy' = paidBy \/ paidBy' = [paidBy EXCEPT ![c] = @ \cup {"hand"}]
    BY <1>1 DEF ClaimStep, CreateClaim, UpdateClaim, SubmitClaim, CancelClaim, RejectClaim,
                MarkReimbursed
  <2>3. paidBy' \in [Claims -> SUBSET (Periods \cup {"hand"})]
    BY <2>2
  <2>4. overlapped' \in BOOLEAN
    BY <1>1, ClaimEffect DEF Writes
  <2> QED
    BY <1>1, <2>1, <2>3, <2>4, ClaimEffect DEF ClaimRow
<1>2. ASSUME NEW r \in Callers, Read(r) PROVE PayrollTypeOK'
  <2>1. \E j \in Jobs : job' = [job EXCEPT ![r] = j]
    <3>1. ASSUME NEW c \in Claims, NEW t \in Instants, Approve(r, c, t)
          PROVE  \E j \in Jobs : job' = [job EXCEPT ![r] = j]
      <4>1. Resolve(t) \subseteq Periods \cup {NoPeriod}
        BY DEF Resolve, NextOpen, Earliest
      <4> QED
        BY <3>1, <4>1 DEF Approve, Jobs
    <3>2. ASSUME NEW p \in Periods, NEW w \in Windows, CreatePeriod(r, p, w) \/ UpdatePeriod(r, p, w)
          PROVE  \E j \in Jobs : job' = [job EXCEPT ![r] = j]
      BY <3>2 DEF CreatePeriod, UpdatePeriod, Opens, PeriodJob, Jobs, Windows, Spans
    <3>3. ASSUME NEW p \in Periods, DeletePeriod(r, p) \/ LockPeriod(r, p) \/ ReopenPeriod(r, p)
          PROVE  \E j \in Jobs : job' = [job EXCEPT ![r] = j]
      BY <3>3 DEF DeletePeriod, LockPeriod, ReopenPeriod, Opens, PeriodJob, Jobs
    <3>4. ASSUME NEW s \in Slips, IssuePayslip(r, s) \/ VoidPayslip(r, s) \/ PayPayslip(r, s)
          PROVE  \E j \in Jobs : job' = [job EXCEPT ![r] = j]
      BY <3>4 DEF IssuePayslip, VoidPayslip, PayPayslip, Opens, Jobs, Slips
    <3> QED
      BY <1>2, <3>1, <3>2, <3>3, <3>4 DEF Read
  <2>2. UNCHANGED <<claim, period, slip, paidBy, strayed, overlapped>>
    BY <1>2 DEF Read, Approve, CreatePeriod, UpdatePeriod, DeletePeriod, LockPeriod, ReopenPeriod,
                IssuePayslip, VoidPayslip, PayPayslip, Opens
  <2> QED
    BY <2>1, <2>2
<1>3. ASSUME NEW r \in Callers, Write(r) PROVE PayrollTypeOK'
  <2> DEFINE j == job[r]
             JobsOK == job' \in [Callers -> Jobs]
             HistoryOK == /\ paidBy' \in [Claims -> SUBSET (Periods \cup {"hand"})]
                          /\ strayed' \in SUBSET Claims /\ overlapped' \in BOOLEAN
  <2>0. \A p \in Periods : \A st \in {"open", "paid"} :
           [period EXCEPT ![p].state = st] \in
               [Periods -> [state : {"none", "open", "locked", "paid", "deleted"}, window : Spans]]
    OBVIOUS
  <2>1. Ends(r) => JobsOK
    BY DEF Ends, Jobs
  <2>2. Writes({r}) => overlapped' \in BOOLEAN
    BY DEF Writes
  <2>3. CASE Approved(r)
    <3>1. [state |-> "approved", at |-> j.at, pin |-> j.pin] \in ClaimRow /\ j.claim \in Claims
      BY <2>3, JobFields DEF Approved, ClaimRow, ClaimStates
    <3> QED
      BY <2>1, <2>2, <2>3, <3>1 DEF Approved, ClaimRow
  <2>4. CASE Created(r)
    BY <2>1, <2>2, <2>4, JobFields DEF Created
  <2>5. CASE Updated(r)
    BY <2>1, <2>2, <2>5, JobFields DEF Updated
  <2>6. CASE Deleted(r)
    <3>1. NoSlip \in [status : SlipStates, paidAt : BOOLEAN, lists : SUBSET Claims]
      BY DEF NoSlip, SlipStates
    <3> QED
      BY <2>1, <2>2, <2>6, <3>1, JobFields DEF Deleted
  <2>7. ASSUME NEW W \in SUBSET Staff, Locked(r, W) PROVE PayrollTypeOK'
    BY <2>1, <2>2, <2>7, JobFields DEF Locked, SlipStates, Reimbursable
  <2>8. CASE Reopened(r)
    <3>1. \A s \in Slips : [slip[s] EXCEPT !.status = "draft", !.paidAt = FALSE] \in
                               [status : SlipStates, paidAt : BOOLEAN, lists : SUBSET Claims]
      BY ZenonT(40) DEF SlipStates
    <3>2. slip' \in [Slips -> [status : SlipStates, paidAt : BOOLEAN, lists : SUBSET Claims]]
      BY <2>8, <3>1 DEF Reopened
    <3>3. period' \in [Periods -> [state : {"none", "open", "locked", "paid", "deleted"}, window : Spans]]
      BY <2>0, <2>8, JobFields DEF Reopened
    <3> QED
      BY <2>1, <2>2, <2>8, <3>2, <3>3 DEF Reopened
  <2>9. CASE StatusSet(r)
    <3>1. j.slip \in Slips /\ j.kind \in SlipStates
      BY <2>9, JobFields DEF StatusSet, SlipStates
    <3>2. slip' \in [Slips -> [status : SlipStates, paidAt : BOOLEAN, lists : SUBSET Claims]]
      BY <2>9, <3>1 DEF StatusSet
    <3> QED
      BY <2>1, <2>2, <2>9, <3>2 DEF StatusSet
  <2>10. CASE Reconcile(r)
    BY <2>10, JobFields DEF Reconcile, Jobs, StillOwed
  <2>11. CASE PayslipPaid(r)
    <3>1. j.slip \in Slips /\ j.slip[1] \in Periods /\ j.lists \in SUBSET Claims
      BY <2>11, JobFields DEF PayslipPaid, Slips
    <3>2. slip' \in [Slips -> [status : SlipStates, paidAt : BOOLEAN, lists : SUBSET Claims]]
      BY <2>11, <3>1 DEF PayslipPaid, SlipStates
    <3>3. \A c \in Claims : [claim[c] EXCEPT !.state = "reimbursed"] \in ClaimRow
      BY DEF ClaimRow, ClaimStates
    <3>4. claim' \in [Claims -> ClaimRow]
      BY <2>11, <3>3 DEF PayslipPaid, ClaimRow
    <3>5. period' \in [Periods -> [state : {"none", "open", "locked", "paid", "deleted"}, window : Spans]]
      BY <2>0, <2>11, <3>1 DEF PayslipPaid
    <3>6. paidBy' \in [Claims -> SUBSET (Periods \cup {"hand"})]
      BY <2>11, <3>1 DEF PayslipPaid
    <3> QED
      BY <2>1, <2>2, <2>11, <3>2, <3>4, <3>5, <3>6 DEF PayslipPaid, ClaimRow
  <2>12. CASE Abandon(r)
    BY <2>1, <2>12 DEF Abandon
  <2> QED
    BY <1>3, <2>3, <2>4, <2>5, <2>6, <2>7, <2>8, <2>9, <2>10, <2>11, <2>12 DEF Write
<1>4. CASE UNCHANGED payVars
  BY <1>4 DEF payVars
<1> QED
  BY <1>1, <1>2, <1>3, <1>4 DEF PayrollNext

-----------------------------------------------------------------------------
(* The steps of a claim.                                                   *)

\* A read, a reconciliation or an abandoned request changes no table.
TablesStay == UNCHANGED <<claim, period, slip, paidBy, strayed, overlapped>>

LEMMA ReadEffect ==
    ASSUME NEW r \in Callers, Read(r)
    PROVE  TablesStay
BY DEF TablesStay, Read, Approve, CreatePeriod, UpdatePeriod, DeletePeriod, LockPeriod,
       ReopenPeriod, IssuePayslip, VoidPayslip, PayPayslip, Opens

LEMMA PaidClaims ==
    ASSUME PayrollTypeOK, NEW r \in Callers, PayslipPaid(r), NEW c \in Claims, claim'[c] # claim[c]
    PROVE  /\ c \in job[r].lists
           /\ c \in Reimbursable(job[r].slip[1], job[r].slip[2], job[r].window)
           /\ claim[c].state = "approved" /\ claim'[c].state = "reimbursed"
           /\ claim'[c].at = claim[c].at /\ claim'[c].pin = claim[c].pin
<1>1. claim[c] \in [state : ClaimStates, at : Int, pin : Periods \cup {NoPeriod}]
  BY DEF PayrollTypeOK
<1>2. claim'[c] = [claim[c] EXCEPT !.state = "reimbursed"] /\ c \in job[r].lists
        /\ c \in Reimbursable(job[r].slip[1], job[r].slip[2], job[r].window)
  BY DEF PayslipPaid
<1> QED
  BY <1>1, <1>2 DEF Reimbursable

LEMMA ApprovalsStep ==
    ASSUME PayrollTypeOK, ApprovalsHoldClaims, [PayrollNext]_payVars
    PROVE  ApprovalsHoldClaims'
<1> USE DEF ApprovalsHoldClaims
<1>1. ASSUME NEW c \in Claims, ClaimStep(c) PROVE ApprovalsHoldClaims'
  <2>1. \A r \in Callers : job[r].kind = "approve" => job[r].claim # c
    BY <1>1 DEF ClaimStep, CreateClaim, UpdateClaim, SubmitClaim, CancelClaim, RejectClaim,
                MarkReimbursed, Changes, Unlocked
  <2>2. \A r \in Callers : job[r].kind = "approve" => claim'[job[r].claim] = claim[job[r].claim]
    BY <1>1, <2>1, ClaimEffect, JobFields DEF PayrollTypeOK
  <2> QED
    BY <1>1, <2>2, ClaimEffect
<1>2. ASSUME NEW r \in Callers, Read(r) PROVE ApprovalsHoldClaims'
  <2>1. ASSUME NEW c \in Claims, NEW t \in Instants, Approve(r, c, t) PROVE ApprovalsHoldClaims'
    BY <2>1 DEF Approve, Unlocked, PayrollTypeOK
  <2>2. ASSUME NEW j, j.kind # "approve", job' = [job EXCEPT ![r] = j], claim' = claim
        PROVE  ApprovalsHoldClaims'
    BY <2>2 DEF PayrollTypeOK
  <2> QED
    BY <1>2, <2>1, <2>2, ReadEffect DEF Read, TablesStay, CreatePeriod, UpdatePeriod, DeletePeriod,
         LockPeriod, ReopenPeriod, IssuePayslip, VoidPayslip, PayPayslip, Opens, PeriodJob
<1>3. ASSUME NEW r \in Callers, Write(r) PROVE ApprovalsHoldClaims'
  <2>1. ASSUME NEW j, j.kind # "approve", job' = [job EXCEPT ![r] = j], claim' = claim
        PROVE  ApprovalsHoldClaims'
    BY <2>1 DEF PayrollTypeOK
  <2>2. CASE Approved(r)
    BY <2>2, JobFields DEF Approved, Ends, NoJob, PayrollTypeOK
  <2>3. CASE PayslipPaid(r)
    <3>1. \A q \in Callers : job[q].kind = "approve" => claim'[job[q].claim] = claim[job[q].claim]
      BY <2>3, PaidClaims, JobFields
    <3>2. job' = [job EXCEPT ![r] = NoJob]
      BY <2>3 DEF PayslipPaid, Ends
    <3> QED
      BY <3>1, <3>2 DEF NoJob, PayrollTypeOK
  <2> QED
    BY <1>3, <2>1, <2>2, <2>3 DEF Write, Created, Updated, Deleted, Locked, Reopened, StatusSet,
         Reconcile, Abandon, Ends, NoJob
<1>4. CASE UNCHANGED payVars
  BY <1>4 DEF payVars
<1> QED
  BY <1>1, <1>2, <1>3, <1>4 DEF PayrollNext

\* The step form of ClaimsAreOneWay.
MovesForward(c) ==
    /\ claim'[c].state # claim[c].state =>
          <<claim[c].state, claim'[c].state>> \in
              {<<"none", "draft">>, <<"draft", "submitted">>, <<"draft", "deleted">>,
               <<"submitted", "rejected">>, <<"submitted", "approved">>,
               <<"approved", "reimbursed">>}
    /\ \/ claim'[c].pin # claim[c].pin
       \/ claim[c].state # "draft" /\ claim'[c].at # claim[c].at
       => <<claim[c].state, claim'[c].state>> \in {<<"none", "draft">>, <<"submitted", "approved">>}

LEMMA ForwardStep ==
    ASSUME PayrollTypeOK, ApprovalsHoldClaims, [PayrollNext]_payVars, NEW c \in Claims
    PROVE  MovesForward(c)
<1> USE DEF MovesForward
<1>1. ASSUME claim'[c] = claim[c] PROVE MovesForward(c)
  BY <1>1
<1>2. ASSUME NEW d \in Claims, ClaimStep(d) PROVE MovesForward(c)
  <2>1. CASE d # c
    BY <1>1, <1>2, <2>1, ClaimEffect DEF PayrollTypeOK
  <2>2. CASE d = c
    BY <1>2, <2>2 DEF ClaimStep, CreateClaim, UpdateClaim, SubmitClaim, CancelClaim, RejectClaim,
                MarkReimbursed, Changes, PayrollTypeOK
  <2> QED
    BY <2>1, <2>2
<1>3. ASSUME NEW r \in Callers, Write(r) PROVE MovesForward(c)
  <2>1. CASE Approved(r)
    BY <2>1, JobFields DEF Approved, ApprovalsHoldClaims, PayrollTypeOK
  <2>2. CASE PayslipPaid(r)
    BY <2>2, PaidClaims DEF PayrollTypeOK
  <2> QED
    BY <1>1, <1>3, <2>1, <2>2 DEF Write, Created, Updated, Deleted, Locked, Reopened, StatusSet,
         Reconcile, Abandon
<1>4. ASSUME NEW r \in Callers, Read(r) PROVE MovesForward(c)
  BY <1>1, <1>4, ReadEffect DEF TablesStay
<1> QED
  BY <1>1, <1>2, <1>3, <1>4 DEF PayrollNext, payVars

LEMMA FoldedStep ==
    ASSUME PayrollTypeOK, ApprovalsHoldClaims, FoldedWereApproved, [PayrollNext]_payVars
    PROVE  FoldedWereApproved'
<1>1. \A c \in Claims : WasApproved(c) => WasApproved(c)'
  BY ForwardStep DEF MovesForward, WasApproved, PayrollTypeOK
<1>2. ASSUME \A s \in Slips : \A c \in slip'[s].lists : WasApproved(c),
             \A r \in Callers : job'[r].kind \in {"pay", "settle"} =>
                 \A c \in job'[r].lists : WasApproved(c)
      PROVE  FoldedWereApproved'
  <2>1. PayrollTypeOK'
    BY PayrollTypeStep
  <2>2. \A s \in Slips : slip'[s].lists \subseteq Claims
    BY <2>1 DEF PayrollTypeOK
  <2>3. \A r \in Callers : job'[r].kind \in {"pay", "settle"} => job'[r].lists \subseteq Claims
    <3> TAKE r \in Callers
    <3>1. job'[r] \in Jobs
      BY <2>1 DEF PayrollTypeOK, Jobs
    <3> QED
      BY <3>1 DEF Jobs, NoJob
  <2> QED
    BY <1>1, <1>2, <2>2, <2>3 DEF FoldedWereApproved
<1> USE DEF FoldedWereApproved
<1>3. ASSUME NEW r \in Callers, NEW j, job' = [job EXCEPT ![r] = j],
             j.kind \in {"pay", "settle"} => \A c \in j.lists : WasApproved(c)
      PROVE  \A q \in Callers : job'[q].kind \in {"pay", "settle"} =>
                 \A c \in job'[q].lists : WasApproved(c)
  BY <1>3 DEF PayrollTypeOK
<1>4. ASSUME NEW r \in Callers, Ends(r)
      PROVE  \A q \in Callers : job'[q].kind \in {"pay", "settle"} =>
                 \A c \in job'[q].lists : WasApproved(c)
  BY <1>3, <1>4 DEF Ends, NoJob
<1>5. ASSUME NEW c \in Claims, ClaimStep(c) PROVE FoldedWereApproved'
  BY <1>2, <1>5, ClaimEffect
<1>6. ASSUME NEW r \in Callers, Read(r) PROVE FoldedWereApproved'
  <2>1. ASSUME NEW s \in Slips, PayPayslip(r, s) PROVE FoldedWereApproved'
    BY <1>2, <1>3, <1>6, <2>1, ReadEffect DEF PayPayslip, Opens, TablesStay
  <2>2. ASSUME NEW j, j.kind \notin {"pay", "settle"}, job' = [job EXCEPT ![r] = j]
        PROVE  FoldedWereApproved'
    BY <1>2, <1>3, <1>6, <2>2, ReadEffect DEF TablesStay
  <2> QED
    BY <1>6, <2>1, <2>2 DEF Read, Approve, CreatePeriod, UpdatePeriod, DeletePeriod, LockPeriod,
         ReopenPeriod, IssuePayslip, VoidPayslip, Opens, PeriodJob
<1>7. ASSUME NEW r \in Callers, Write(r) PROVE FoldedWereApproved'
  <2>1. ASSUME slip' = slip, Ends(r) PROVE FoldedWereApproved'
    BY <1>2, <1>4, <2>1
  <2>2. CASE Deleted(r)
    BY <1>2, <1>4, <2>2 DEF Deleted, NoSlip
  <2>3. ASSUME NEW W \in SUBSET Staff, Locked(r, W) PROVE FoldedWereApproved'
    BY <1>2, <1>4, <2>3 DEF Locked, Reimbursable, WasApproved
  <2>4. CASE Reopened(r)
    BY ZenonT(40), <1>2, <1>4, <2>4 DEF Reopened, PayrollTypeOK
  <2>5. CASE StatusSet(r)
    BY <1>2, <1>4, <2>5 DEF StatusSet, PayrollTypeOK
  <2>6. CASE Reconcile(r)
    BY <1>2, <1>3, <2>6, JobFields DEF Reconcile, StillOwed
  <2>7. CASE PayslipPaid(r)
    BY <1>2, <1>4, <2>7 DEF PayslipPaid, PayrollTypeOK
  <2> QED
    BY <1>7, <2>1, <2>2, <2>3, <2>4, <2>5, <2>6, <2>7 DEF Write, Approved, Created, Updated, Abandon
<1>8. CASE UNCHANGED payVars
  BY <1>2, <1>8 DEF payVars
<1> QED
  BY <1>5, <1>6, <1>7, <1>8 DEF PayrollNext

LEMMA SlipsStep ==
    ASSUME PayrollTypeOK, SlipsHavePeriods, [PayrollNext]_payVars
    PROVE  SlipsHavePeriods'
<1> USE DEF SlipsHavePeriods, Lives
<1>1. ASSUME UNCHANGED <<period, slip, paidBy>> PROVE SlipsHavePeriods'
  BY <1>1
<1>2. ASSUME NEW c \in Claims, ClaimStep(c) PROVE SlipsHavePeriods'
  <2>1. paidBy' = paidBy \/ paidBy' = [paidBy EXCEPT ![c] = @ \cup {"hand"}]
    BY <1>2 DEF ClaimStep, CreateClaim, UpdateClaim, SubmitClaim, CancelClaim, RejectClaim,
                MarkReimbursed
  <2> QED
    BY <1>2, <2>1, ClaimEffect DEF PayrollTypeOK
<1>3. ASSUME NEW r \in Callers, Write(r) PROVE SlipsHavePeriods'
  <2>1. CASE Created(r)
    BY <2>1, JobFields DEF Created, PayrollTypeOK, Slips
  <2>2. CASE Updated(r)
    BY <2>2, JobFields DEF Updated, PayrollTypeOK, Slips
  <2>3. CASE Deleted(r)
    BY <2>3, JobFields DEF Deleted, PayrollTypeOK, Slips, NoSlip
  <2>4. ASSUME NEW W \in SUBSET Staff, Locked(r, W) PROVE SlipsHavePeriods'
    BY <2>4, JobFields DEF Locked, PayrollTypeOK, Slips
  <2>5. CASE Reopened(r)
    BY <2>5, JobFields DEF Reopened, PayrollTypeOK, Slips, SlipsOf
  <2>6. CASE StatusSet(r)
    BY <2>6, JobFields DEF StatusSet, PayrollTypeOK, Slips
  <2>7. CASE PayslipPaid(r)
    <3>1. job[r].slip \in Slips /\ job[r].slip[1] \in Periods
      BY <2>7, JobFields DEF PayslipPaid, Slips
    <3>2. period[job[r].slip[1]].state \in {"open", "locked", "paid"}
      BY <2>7, <3>1 DEF PayslipPaid
    <3>3. \A p \in Periods : \/ period'[p].state = period[p].state
                             \/ p = job[r].slip[1] /\ period'[p].state = "paid"
      BY <2>7, <3>1 DEF PayslipPaid, PayrollTypeOK
    <3>4. \A s \in Slips : slip'[s].status # "none" => slip[s].status # "none"
      BY <2>7 DEF PayslipPaid, PayrollTypeOK
    <3>5. \A c \in Claims : paidBy'[c] \subseteq paidBy[c] \cup {job[r].slip[1]}
      BY <2>7 DEF PayslipPaid
    <3>6. \A c \in Claims : paidBy[c] \subseteq Periods \cup {"hand"}
      BY DEF PayrollTypeOK
    <3>7. \A s \in Slips : slip'[s].status # "none" => period'[s[1]].state \in {"open", "locked", "paid"}
      BY <3>2, <3>3, <3>4 DEF Slips
    <3> QED
      BY <3>1, <3>2, <3>3, <3>5, <3>6, <3>7
  <2> QED
    BY <1>1, <1>3, <2>1, <2>2, <2>3, <2>4, <2>5, <2>6, <2>7 DEF Write, Approved, Reconcile, Abandon
<1>4. ASSUME NEW r \in Callers, Read(r) PROVE SlipsHavePeriods'
  BY <1>1, <1>4, ReadEffect DEF TablesStay
<1> QED
  BY <1>1, <1>2, <1>3, <1>4 DEF PayrollNext, payVars

\* What an approval has set stays.
LEMMA FoldedStay ==
    ASSUME PayrollTypeOK, ApprovalsHoldClaims, [PayrollNext]_payVars, NEW c \in Claims, WasApproved(c)
    PROVE  /\ claim'[c].pin = claim[c].pin /\ claim'[c].at = claim[c].at
           /\ claim'[c].state = "approved" => claim[c].state = "approved"
           /\ claim[c].state = "reimbursed" => claim'[c].state = "reimbursed"
BY ForwardStep DEF MovesForward, WasApproved

LEMMA ClosedStep ==
    ASSUME PayrollTypeOK, ClosedIsPaid, [PayrollNext]_payVars
    PROVE  ClosedIsPaid'
<1> USE DEF ClosedIsPaid
<1>1. ASSUME UNCHANGED <<claim, paidBy>> PROVE ClosedIsPaid'
  BY <1>1
<1>2. ASSUME NEW c \in Claims, ClaimStep(c) PROVE ClosedIsPaid'
  <2>1. CASE MarkReimbursed(c)
    BY <2>1 DEF MarkReimbursed, Changes, PayrollTypeOK
  <2>2. ASSUME paidBy' = paidBy, claim'[c].state # "reimbursed" PROVE ClosedIsPaid'
    BY <1>2, <2>2, ClaimEffect DEF PayrollTypeOK
  <2> QED
    BY <1>2, <2>1, <2>2 DEF ClaimStep, CreateClaim, UpdateClaim, SubmitClaim, CancelClaim,
         RejectClaim, Changes, PayrollTypeOK
<1>3. ASSUME NEW r \in Callers, Write(r) PROVE ClosedIsPaid'
  <2>1. CASE Approved(r)
    BY <2>1, JobFields DEF Approved, PayrollTypeOK
  <2>2. CASE PayslipPaid(r)
    <3> TAKE c \in Claims
    <3>1. paidBy'[c] = IF c \in job[r].lists THEN paidBy[c] \cup {job[r].slip[1]} ELSE paidBy[c]
      BY <2>2 DEF PayslipPaid
    <3> QED
      BY <2>2, <3>1, PaidClaims
  <2> QED
    BY <1>1, <1>3, <2>1, <2>2 DEF Write, Created, Updated, Deleted, Locked, Reopened, StatusSet,
         Reconcile, Abandon
<1>4. ASSUME NEW r \in Callers, Read(r) PROVE ClosedIsPaid'
  BY <1>1, <1>4, ReadEffect DEF TablesStay
<1> QED
  BY <1>1, <1>2, <1>3, <1>4 DEF PayrollNext, payVars

-----------------------------------------------------------------------------
(* Requests that do not overlap.                                           *)

LEMMA SerialWrite ==
    ASSUME NEW R, Writes(R), ~overlapped'
    PROVE  ~overlapped /\ \A q \in Callers \ R : job[q] = NoJob
BY DEF Writes

\* The request of a serial write is fresh, and so is every request after it.
LEMMA FreshStep ==
    ASSUME PayrollTypeOK, JobsAreFresh, [PayrollNext]_payVars
    PROVE  JobsAreFresh'
<1> SUFFICES ASSUME ~overlapped' PROVE \A q \in Callers : Fresh(job[q])'
  BY DEF JobsAreFresh
<1>1. Fresh(NoJob)'
  BY DEF Fresh, NoJob
<1>2. ASSUME NEW c \in Claims, ClaimStep(c) PROVE \A q \in Callers : Fresh(job[q])'
  <2>1. Writes({}) /\ job' = job
    BY <1>2, ClaimEffect
  <2> QED
    BY <1>1, <2>1, SerialWrite
<1>3. ASSUME NEW r \in Callers, Writes({r}), Ends(r) PROVE \A q \in Callers : Fresh(job[q])'
  BY <1>1, <1>3, SerialWrite DEF Ends, PayrollTypeOK
<1>4. ASSUME NEW r \in Callers, TablesStay, NEW j, Fresh(j), job' = [job EXCEPT ![r] = j]
      PROVE  \A q \in Callers : Fresh(job[q])'
  <2>1. ~overlapped
    BY <1>4 DEF TablesStay
  <2>2. \A q \in Callers : Fresh(job'[q])
    BY <1>4, <2>1 DEF JobsAreFresh, PayrollTypeOK
  <2> QED
    BY <1>4, <2>2 DEF TablesStay, Fresh, SlipsOf, IsPaid, StillOwed
<1>5. ASSUME NEW r \in Callers, Read(r) PROVE \A q \in Callers : Fresh(job[q])'
  <2>1. TablesStay
    BY <1>5, ReadEffect
  <2>2. ASSUME NEW c \in Claims, NEW t \in Instants, Approve(r, c, t)
        PROVE  \E j : Fresh(j) /\ job' = [job EXCEPT ![r] = j]
    <3>1. PICK pin : job' = [job EXCEPT ![r] = [kind |-> "approve", claim |-> c, at |-> t, pin |-> pin]]
      BY <2>2 DEF Approve
    <3>2. Fresh([kind |-> "approve", claim |-> c, at |-> t, pin |-> pin])
      BY DEF Fresh
    <3> QED
      BY <3>1, <3>2
  <2>3. ASSUME NEW p \in Periods, NEW w, CreatePeriod(r, p, w) \/ UpdatePeriod(r, p, w)
        PROVE  \E j : Fresh(j) /\ job' = [job EXCEPT ![r] = j]
    <3>1. Fresh(PeriodJob("create", p, w)) \/ Fresh(PeriodJob("update", p, w))
      BY <2>3 DEF CreatePeriod, UpdatePeriod, Fresh, PeriodJob
    <3> QED
      BY <2>3, <3>1 DEF CreatePeriod, UpdatePeriod, Opens, Fresh, PeriodJob
  <2>4. ASSUME NEW p \in Periods, DeletePeriod(r, p) \/ LockPeriod(r, p) \/ ReopenPeriod(r, p)
        PROVE  \E j : Fresh(j) /\ job' = [job EXCEPT ![r] = j]
    BY <2>4 DEF DeletePeriod, LockPeriod, ReopenPeriod, Opens, Fresh, PeriodJob
  <2>5. ASSUME NEW s \in Slips, IssuePayslip(r, s) \/ VoidPayslip(r, s) \/ PayPayslip(r, s)
        PROVE  \E j : Fresh(j) /\ job' = [job EXCEPT ![r] = j]
    BY <2>5 DEF IssuePayslip, VoidPayslip, PayPayslip, Opens, Fresh
  <2> QED
    BY <1>4, <1>5, <2>1, <2>2, <2>3, <2>4, <2>5 DEF Read
<1>6. ASSUME NEW r \in Callers, Write(r) PROVE \A q \in Callers : Fresh(job[q])'
  <2>1. CASE Reconcile(r)
    <3> DEFINE j == job[r]
               k == [kind |-> "settle", slip |-> j.slip, window |-> j.period.window,
                     lists |-> StillOwed(j.lists), rewrites |-> StillOwed(j.lists) # j.lists,
                     last |-> /\ j.period.state = "locked"
                              /\ \A s \in SlipsOf(j.slip[1]) \ {j.slip} : IsPaid(s)]
    <3>1. TablesStay /\ job' = [job EXCEPT ![r] = k] /\ j.kind = "pay"
      BY <2>1 DEF Reconcile, TablesStay
    <3>2. Fresh(j)
      BY <3>1 DEF TablesStay, JobsAreFresh
    <3>3. Fresh(k)
      BY <3>1, <3>2 DEF Fresh
    <3> QED
      BY <1>4, <3>1, <3>3
  <2>2. CASE Abandon(r)
    <3>1. TablesStay /\ job' = [job EXCEPT ![r] = NoJob] /\ Fresh(NoJob)
      BY <2>2 DEF Abandon, Ends, TablesStay, Fresh, NoJob
    <3> QED
      BY <1>4, <3>1
  <2> QED
    BY <1>3, <1>6, <2>1, <2>2 DEF Write, Approved, Created, Updated, Deleted, Locked, Reopened,
         StatusSet, PayslipPaid
<1>7. CASE UNCHANGED payVars
  BY <1>7 DEF payVars, JobsAreFresh, Fresh, SlipsOf, IsPaid, StillOwed
<1> QED
  BY <1>2, <1>5, <1>6, <1>7 DEF PayrollNext

LEMMA ListedStep ==
    ASSUME PayrollTypeOK, ApprovalsHoldClaims, FoldedWereApproved, SlipsHavePeriods, JobsAreFresh,
           ListedAreSettled, [PayrollNext]_payVars
    PROVE  ListedAreSettled'
<1> SUFFICES ASSUME ~overlapped', NEW s \in Slips, slip'[s].status # "none",
                    NEW c \in slip'[s].lists \ strayed', claim'[c].state = "approved"
             PROVE  Settles(s, c)'
  BY DEF ListedAreSettled
<1>0. c \in Claims /\ c \notin strayed /\ s[1] \in Periods
  <2>1. PayrollTypeOK'
    BY PayrollTypeStep
  <2>2. strayed \subseteq strayed'
    BY ZenonT(40) DEF PayrollNext, payVars, ClaimStep, Read, Write, CreateClaim, UpdateClaim, SubmitClaim,
           CancelClaim, RejectClaim, MarkReimbursed, Changes, Approve, CreatePeriod, UpdatePeriod,
           DeletePeriod, LockPeriod, ReopenPeriod, IssuePayslip, VoidPayslip, PayPayslip, Opens,
           Approved, Created, Updated, Deleted, Locked, Reopened, StatusSet, Reconcile, PayslipPaid,
           Abandon
  <2> QED
    BY <2>1, <2>2 DEF PayrollTypeOK, Slips
<1>1. ASSUME ~overlapped, slip[s].status # "none", c \in slip[s].lists,
             period'[s[1]].window = period[s[1]].window
      PROVE  Settles(s, c)'
  <2>1. WasApproved(c)
    BY <1>1 DEF FoldedWereApproved
  <2>2. /\ claim'[c].pin = claim[c].pin /\ claim'[c].at = claim[c].at
        /\ claim[c].state = "approved"
    BY <1>0, <2>1, FoldedStay
  <2>3. Settles(s, c)
    BY <1>0, <1>1, <2>2 DEF ListedAreSettled
  <2> QED
    BY <1>1, <2>2, <2>3 DEF Settles
<1>2. ASSUME NEW d \in Claims, ClaimStep(d) PROVE Settles(s, c)'
  BY <1>1, <1>2, ClaimEffect, SerialWrite
<1>3. ASSUME NEW r \in Callers, Read(r) PROVE Settles(s, c)'
  BY <1>1, <1>3, ReadEffect DEF TablesStay
<1>4. ASSUME NEW r \in Callers, Write(r) PROVE Settles(s, c)'
  <2> DEFINE j == job[r]
  <2>1. ASSUME Writes({r}) PROVE ~overlapped /\ Fresh(j)
    BY <2>1, SerialWrite DEF JobsAreFresh
  <2>2. CASE Approved(r)
    BY <1>1, <2>1, <2>2 DEF Approved
  <2>3. CASE Created(r)
    <3>1. ~overlapped /\ j.period \in Periods /\ period[j.period].state = "none"
      BY <2>1, <2>3, JobFields DEF Created, Fresh
    <3>2. slip' = slip /\ s[1] # j.period
      BY <2>3, <3>1 DEF Created, SlipsHavePeriods, Lives
    <3> QED
      BY <1>0, <1>1, <2>3, <3>1, <3>2 DEF Created, PayrollTypeOK
  <2>4. CASE Updated(r)
    <3>1. ~overlapped /\ j.period \in Periods /\ slip' = slip /\ claim' = claim
      BY <2>1, <2>4, JobFields DEF Updated
    <3>2. CASE s[1] # j.period
      BY <1>0, <1>1, <2>4, <3>1, <3>2 DEF Updated, PayrollTypeOK
    <3>3. CASE s[1] = j.period
      <4>1. period'[s[1]].window = j.window
        BY <2>4, <3>1, <3>3 DEF Updated, PayrollTypeOK
      <4>2. Settles(s, c)
        BY <1>0, <3>1 DEF ListedAreSettled
      <4>3. claim[c].pin = NoPeriod => Holds(j.window, claim[c].at)
        BY <1>0, <2>4, <3>1, <3>3 DEF Updated, SlipsOf
      <4> QED
        BY <3>1, <4>1, <4>2, <4>3 DEF Settles
    <3> QED
      BY <3>2, <3>3
  <2>5. CASE Deleted(r)
    <3>1. j.period \in Periods /\ s[1] # j.period /\ slip'[s] = slip[s]
      BY <2>5, JobFields DEF Deleted, NoSlip
    <3> QED
      BY <1>0, <1>1, <2>1, <2>5, <3>1 DEF Deleted, PayrollTypeOK
  <2>6. ASSUME NEW W \in SUBSET Staff, Locked(r, W) PROVE Settles(s, c)'
    <3>1. /\ ~overlapped /\ j.period \in Periods /\ claim' = claim
          /\ j.window = period[j.period].window
      BY <2>1, <2>6, JobFields DEF Locked, Fresh
    <3>2. \A p \in Periods : period'[p].window = period[p].window
      BY <2>6, <3>1 DEF Locked, PayrollTypeOK
    <3>3. CASE s[1] = j.period /\ s[2] \in W
      <4>1. c \in Reimbursable(j.period, s[2], j.window)
        BY <2>6, <3>3 DEF Locked
      <4> QED
        BY <1>0, <3>1, <3>2, <3>3, <4>1 DEF Reimbursable, Settles
    <3>4. CASE ~(s[1] = j.period /\ s[2] \in W)
      <4>1. slip'[s] = slip[s]
        BY <2>6, <3>4 DEF Locked
      <4> QED
        BY <1>0, <1>1, <3>1, <3>2, <4>1
    <3> QED
      BY <3>3, <3>4
  <2>7. CASE Reopened(r)
    <3>1. ~overlapped /\ j.period \in Periods
      BY <2>1, <2>7, JobFields DEF Reopened
    <3>2. slip[s].status # "none" /\ slip'[s].lists = slip[s].lists
      BY ZenonT(40), <2>7 DEF Reopened, SlipsOf, PayrollTypeOK
    <3>3. period' = [period EXCEPT ![j.period].state = "open"]
      BY <2>7 DEF Reopened
    <3>4. period'[s[1]].window = period[s[1]].window
      BY <1>0, <3>1, <3>3 DEF PayrollTypeOK
    <3> QED
      BY <1>1, <3>1, <3>2, <3>4
  <2>8. CASE StatusSet(r)
    <3>1. slip[s].status # "none" /\ slip'[s].lists = slip[s].lists
      BY <2>8 DEF StatusSet, PayrollTypeOK
    <3> QED
      BY <1>0, <1>1, <2>1, <2>8, <3>1 DEF StatusSet
  <2>9. CASE PayslipPaid(r)
    <3>1. ~overlapped /\ j.slip \in Slips /\ j.slip[1] \in Periods /\ Fresh(j)
      BY <2>1, <2>9, JobFields DEF PayslipPaid, Slips
    <3>2. slip[s].status # "none" /\ slip'[s].lists \subseteq slip[s].lists
      BY <2>9, <3>1 DEF PayslipPaid, PayrollTypeOK, Fresh, StillOwed
    <3>3. period'[s[1]].window = period[s[1]].window
      BY <1>0, <2>9, <3>1 DEF PayslipPaid, PayrollTypeOK
    <3> QED
      BY <1>1, <3>1, <3>2, <3>3
  <2>10. ASSUME TablesStay PROVE Settles(s, c)'
    BY <1>1, <2>10 DEF TablesStay
  <2> QED
    BY <1>4, <2>2, <2>3, <2>4, <2>5, <2>6, <2>7, <2>8, <2>9, <2>10
    DEF Write, Reconcile, Abandon, TablesStay
<1>5. CASE UNCHANGED payVars
  BY <1>1, <1>5 DEF payVars
<1> QED
  BY <1>2, <1>3, <1>4, <1>5 DEF PayrollNext

\* PaidOnce for one claim.
Paid(c) ==
    /\ paidBy[c] # {} => claim[c].state = "reimbursed"
    /\ \A a, b \in paidBy[c] : a = b
    /\ \A p \in paidBy[c] : p # "hand" /\ Lives(p) =>
          IsPaid(<<p, AuthorOf[c]>>) /\ c \in slip[<<p, AuthorOf[c]>>].lists

LEMMA PaidOnceStep ==
    ASSUME PayrollTypeOK, ApprovalsHoldClaims, SlipsHavePeriods, JobsAreFresh, ListedAreSettled,
           PaidOnce, [PayrollNext]_payVars
    PROVE  PaidOnce'
<1> SUFFICES ASSUME ~overlapped', NEW c \in Claims, c \notin strayed' PROVE Paid(c)'
  BY DEF PaidOnce, Paid
<1> USE PayrollAssumption
<1>0. paidBy[c] \subseteq Periods \cup {"hand"} /\ AuthorOf[c] \in Staff /\ "hand" \notin Periods
  BY DEF PayrollTypeOK
<1>1. ASSUME ~overlapped, c \notin strayed PROVE Paid(c)
  BY <1>1 DEF PaidOnce, Paid
\* Nothing that has paid the claim changes.
<1>2. ASSUME Paid(c), paidBy' = paidBy,
             \A p \in paidBy[c] \ {"hand"} : Lives(p)' =>
                 Lives(p) /\ slip'[<<p, AuthorOf[c]>>] = slip[<<p, AuthorOf[c]>>]
      PROVE  Paid(c)'
  <2>1. paidBy[c] # {} => claim'[c].state = "reimbursed"
    BY <1>2, FoldedStay DEF Paid, WasApproved
  <2> QED
    BY <1>2, <2>1 DEF Paid, IsPaid
<1>3. ASSUME NEW d \in Claims, ClaimStep(d) PROVE Paid(c)'
  <2>1. ~overlapped /\ strayed' = strayed /\ period' = period /\ slip' = slip
    BY <1>3, ClaimEffect, SerialWrite
  <2>2. Paid(c)
    BY <1>1, <2>1
  <2>3. CASE MarkReimbursed(d) /\ d = c
    <3>1. paidBy[c] = {} /\ paidBy'[c] = {"hand"} /\ claim'[c].state = "reimbursed"
      BY <2>2, <2>3 DEF MarkReimbursed, Changes, Paid, PayrollTypeOK
    <3> QED
      BY <3>1 DEF Paid
  <2>4. CASE MarkReimbursed(d) /\ d # c
    <3>1. paidBy'[c] = paidBy[c] /\ claim'[c] = claim[c]
      BY <2>4 DEF MarkReimbursed, Changes, PayrollTypeOK
    <3> QED
      BY <2>1, <2>2, <3>1 DEF Paid, Lives, IsPaid
  <2>5. CASE paidBy' = paidBy
    BY <1>2, <2>1, <2>2, <2>5 DEF Lives
  <2> QED
    BY <1>3, <2>3, <2>4, <2>5 DEF ClaimStep, CreateClaim, UpdateClaim, SubmitClaim, CancelClaim,
         RejectClaim
<1>4. ASSUME TablesStay PROVE Paid(c)'
  BY <1>1, <1>2, <1>4 DEF TablesStay, Lives
<1>5. ASSUME NEW r \in Callers, Write(r) PROVE Paid(c)'
  <2> DEFINE j == job[r]
  <2>1. ASSUME Writes({r}), strayed \subseteq strayed' PROVE ~overlapped /\ Fresh(j) /\ Paid(c)
    BY <1>1, <2>1, SerialWrite DEF JobsAreFresh
  <2>2. CASE Approved(r)
    BY <1>2, <2>1, <2>2 DEF Approved, Lives
  <2>3. CASE Created(r)
    <3>1. j.period \in Periods /\ period[j.period].state = "none" /\ Paid(c)
      BY <2>1, <2>3, JobFields DEF Created, Fresh
    <3>2. j.period \notin paidBy[c]
      BY <1>0, <3>1 DEF SlipsHavePeriods
    <3> QED
      BY <1>0, <1>2, <2>3, <3>1, <3>2 DEF Created, Lives, PayrollTypeOK
  <2>4. CASE Updated(r)
    <3>1. j.period \in Periods /\ Paid(c)
      BY <2>1, <2>4, JobFields DEF Updated
    <3> QED
      BY <1>0, <1>2, <2>4, <3>1 DEF Updated, Lives, PayrollTypeOK
  <2>5. CASE Deleted(r)
    <3>1. j.period \in Periods /\ Paid(c)
      BY <2>1, <2>5, JobFields DEF Deleted
    <3>2. period'[j.period].state \notin {"open", "locked", "paid"}
      BY <2>5, <3>1 DEF Deleted, PayrollTypeOK
    <3>3. \A p \in Periods \ {j.period} : period'[p] = period[p]
      BY <2>5, <3>1 DEF Deleted, PayrollTypeOK
    <3>4. \A p \in Periods \ {j.period} : slip'[<<p, AuthorOf[c]>>] = slip[<<p, AuthorOf[c]>>]
      BY <1>0, <2>5 DEF Deleted, Slips
    <3>5. paidBy' = paidBy
      BY <2>5 DEF Deleted
    <3> QED
      BY <1>0, <1>2, <3>1, <3>2, <3>3, <3>4, <3>5 DEF Lives
  <2>6. ASSUME NEW p \in Periods, Lives(p), Paid(c), p \in paidBy[c]
        PROVE  <<p, AuthorOf[c]>> \in SlipsOf(p) /\ IsPaid(<<p, AuthorOf[c]>>)
    BY <1>0, <2>6 DEF Paid, IsPaid, SlipsOf, Slips
  <2>7. ASSUME NEW W \in SUBSET Staff, Locked(r, W) PROVE Paid(c)'
    <3>1. j.period \in Periods /\ Paid(c) /\ Lives(j.period)
      BY <2>1, <2>7, JobFields DEF Locked
    <3>2. j.period \notin paidBy[c]
      BY <2>6, <2>7, <3>1 DEF Locked, IsPaid
    <3>3. \A p \in Periods \ {j.period} : period'[p] = period[p]
      BY <2>7, <3>1 DEF Locked, PayrollTypeOK
    <3>4. \A p \in Periods \ {j.period} : slip'[<<p, AuthorOf[c]>>] = slip[<<p, AuthorOf[c]>>]
      BY <1>0, <2>7 DEF Locked, Slips
    <3> QED
      BY <1>0, <1>2, <2>7, <3>1, <3>2, <3>3, <3>4 DEF Locked, Lives
  <2>8. CASE Reopened(r)
    <3>1. j.period \in Periods /\ Paid(c) /\ Lives(j.period) /\ Fresh(j)
      BY <2>1, <2>8, JobFields DEF Reopened
    <3>2. j.period \notin paidBy[c]
      BY <2>6, <2>8, <3>1 DEF Reopened, Fresh
    <3>3. \A p \in Periods \ {j.period} : period'[p] = period[p]
      BY <2>8, <3>1 DEF Reopened, PayrollTypeOK
    <3>4. \A p \in Periods \ {j.period} : slip'[<<p, AuthorOf[c]>>] = slip[<<p, AuthorOf[c]>>]
      BY <1>0, <2>8 DEF Reopened, Slips, SlipsOf
    <3> QED
      BY <1>0, <1>2, <2>8, <3>1, <3>2, <3>3, <3>4 DEF Reopened, Lives
  <2>9. CASE StatusSet(r)
    <3>1. j.slip \in Slips /\ Paid(c) /\ slip[j.slip].status \in {"draft", "issued"}
      BY <2>1, <2>9, JobFields DEF StatusSet, Fresh
    <3>2. ASSUME NEW p \in paidBy[c] \ {"hand"}, Lives(p)
          PROVE  slip'[<<p, AuthorOf[c]>>] = slip[<<p, AuthorOf[c]>>]
      <4>1. IsPaid(<<p, AuthorOf[c]>>) /\ <<p, AuthorOf[c]>> \in Slips
        BY <1>0, <2>6, <3>1, <3>2 DEF Slips
      <4> QED
        BY <2>9, <3>1, <4>1 DEF StatusSet, IsPaid, PayrollTypeOK
    <3> QED
      BY <1>2, <2>9, <3>1, <3>2 DEF StatusSet, Lives
  <2>10. CASE PayslipPaid(r)
    <3> DEFINE p == j.slip[1]
    <3>1. j.slip \in Slips /\ p \in Periods /\ Fresh(j) /\ ~overlapped /\ Paid(c) /\ strayed' = strayed
      BY <2>1, <2>10, JobFields DEF PayslipPaid, Slips
    <3>2. /\ slip[j.slip].status = "issued" /\ j.lists = StillOwed(slip[j.slip].lists)
          /\ j.window = period[p].window /\ (~j.rewrites => j.lists = slip[j.slip].lists)
      BY <2>10, <3>1 DEF PayslipPaid, Fresh
    <3>3. CASE c \in j.lists
      <4>1. c \in slip[j.slip].lists /\ claim[c].state = "approved"
        BY <3>2, <3>3 DEF StillOwed
      <4>2. Settles(j.slip, c)
        BY <3>1, <3>2, <4>1 DEF ListedAreSettled
      <4>3. c \in Reimbursable(p, j.slip[2], j.window)
        BY <3>2, <4>1, <4>2 DEF Settles, Reimbursable
      <4>4. claim'[c].state = "reimbursed"
        BY <2>10, <3>3, <4>3 DEF PayslipPaid, PayrollTypeOK
      <4>5. paidBy[c] = {} /\ paidBy'[c] = {p}
        BY <2>10, <3>1, <3>3, <4>1 DEF PayslipPaid, Paid
      <4>6. j.slip = <<p, AuthorOf[c]>>
        BY <3>1, <4>2 DEF Settles, Slips
      <4>7. slip'[j.slip].status = "paid" /\ slip'[j.slip].paidAt /\ c \in slip'[j.slip].lists
        BY <2>10, <3>1, <3>3, <4>1 DEF PayslipPaid, PayrollTypeOK
      <4> QED
        BY <4>4, <4>5, <4>6, <4>7 DEF Paid, IsPaid
    <3>4. CASE c \notin j.lists
      <4>1. paidBy'[c] = paidBy[c] /\ claim'[c] = claim[c]
        BY <2>10, <3>4 DEF PayslipPaid
      <4>2. \A q \in Periods : Lives(q)' => Lives(q)
        BY <2>10, <3>1, <3>2 DEF PayslipPaid, Lives, PayrollTypeOK, SlipsHavePeriods
      <4>3. ASSUME NEW q \in paidBy[c], q # "hand", Lives(q)
            PROVE  IsPaid(<<q, AuthorOf[c]>>)' /\ c \in slip'[<<q, AuthorOf[c]>>].lists
        <5>1. IsPaid(<<q, AuthorOf[c]>>) /\ <<q, AuthorOf[c]>> \in Slips
                /\ c \in slip[<<q, AuthorOf[c]>>].lists
          BY <1>0, <3>1, <4>3 DEF Paid, Slips
        <5>2. slip'[<<q, AuthorOf[c]>>] = slip[<<q, AuthorOf[c]>>]
          BY <2>10, <3>2, <5>1 DEF PayslipPaid, IsPaid, PayrollTypeOK
        <5> QED
          BY <5>1, <5>2 DEF IsPaid
      <4> QED
        BY <1>0, <3>1, <4>1, <4>2, <4>3 DEF Paid
    <3> QED
      BY <3>3, <3>4
  <2> QED
    BY <1>4, <1>5, <2>2, <2>3, <2>4, <2>5, <2>7, <2>8, <2>9, <2>10
    DEF Write, Reconcile, Abandon, TablesStay
<1>6. ASSUME NEW r \in Callers, Read(r) PROVE Paid(c)'
  BY <1>4, <1>6, ReadEffect
<1> QED
  BY <1>3, <1>4, <1>5, <1>6 DEF PayrollNext, payVars, TablesStay

LEMMA PeriodsStep ==
    ASSUME PayrollTypeOK, JobsAreFresh, PeriodsFollowSlips, [PayrollNext]_payVars
    PROVE  PeriodsFollowSlips'
<1> DEFINE Follows(p) ==
              /\ period[p].state = "paid" => \A s \in SlipsOf(p) : IsPaid(s)
              /\ period[p].state = "locked" /\ SlipsOf(p) # {} => \E s \in SlipsOf(p) : ~IsPaid(s)
           Shows(p) == \A s \in Slips : s[1] = p => slip'[s] = slip[s]
<1> SUFFICES ASSUME ~overlapped', NEW p \in Periods PROVE Follows(p)'
  BY DEF PeriodsFollowSlips
<1>1. ASSUME ~overlapped, period'[p].state = period[p].state, Shows(p) PROVE Follows(p)'
  <2>1. Follows(p)
    BY <1>1 DEF PeriodsFollowSlips
  <2> QED
    BY <1>1, <2>1 DEF SlipsOf, IsPaid
<1>2. ASSUME NEW c \in Claims, ClaimStep(c) PROVE Follows(p)'
  BY <1>1, <1>2, ClaimEffect, SerialWrite
<1>3. ASSUME TablesStay PROVE Follows(p)'
  BY <1>1, <1>3 DEF TablesStay
<1>4. ASSUME NEW r \in Callers, Write(r) PROVE Follows(p)'
  <2> DEFINE j == job[r]
  <2>1. ASSUME Writes({r}) PROVE ~overlapped /\ Fresh(j) /\ Follows(p)
    BY <2>1, SerialWrite DEF JobsAreFresh, PeriodsFollowSlips
  <2>2. CASE Approved(r)
    BY <1>1, <2>1, <2>2 DEF Approved
  <2>3. CASE Created(r)
    <3>1. j.period \in Periods /\ ~overlapped /\ slip' = slip
      BY <2>1, <2>3, JobFields DEF Created
    <3>2. p = j.period => period'[p].state = "open"
      BY <2>3, <3>1 DEF Created, PayrollTypeOK
    <3>3. p # j.period => period'[p] = period[p]
      BY <2>3, <3>1 DEF Created, PayrollTypeOK
    <3> QED
      BY <1>1, <3>1, <3>2, <3>3
  <2>4. CASE Updated(r)
    <3>1. j.period \in Periods /\ ~overlapped /\ slip' = slip
      BY <2>1, <2>4, JobFields DEF Updated
    <3>2. period'[p].state = period[p].state
      BY <2>4, <3>1 DEF Updated, PayrollTypeOK
    <3> QED
      BY <1>1, <3>1, <3>2
  <2>5. CASE Deleted(r)
    <3>1. j.period \in Periods /\ ~overlapped
      BY <2>1, <2>5, JobFields DEF Deleted
    <3>2. p = j.period => period'[p].state = "deleted"
      BY <2>5, <3>1 DEF Deleted, PayrollTypeOK
    <3>3. p # j.period => period'[p] = period[p] /\ Shows(p)
      BY <2>5, <3>1 DEF Deleted, PayrollTypeOK
    <3> QED
      BY <1>1, <3>1, <3>2, <3>3
  <2>6. ASSUME NEW W \in SUBSET Staff, Locked(r, W) PROVE Follows(p)'
    <3>1. j.period \in Periods /\ ~overlapped
      BY <2>1, <2>6, JobFields DEF Locked
    <3>2. CASE p # j.period
      BY <1>1, <2>6, <3>1, <3>2 DEF Locked, PayrollTypeOK
    <3>3. CASE p = j.period
      <4>1. period'[p].state = "locked"
        BY <2>6, <3>1, <3>3 DEF Locked, PayrollTypeOK
      <4>2. \A s \in Slips : s[1] = p /\ slip'[s].status # "none" => slip'[s].status # "paid"
        BY <2>6, <3>3 DEF Locked, SlipsOf
      <4> QED
        BY <4>1, <4>2 DEF SlipsOf, IsPaid
    <3> QED
      BY <3>2, <3>3
  <2>7. CASE Reopened(r)
    <3>1. j.period \in Periods /\ ~overlapped
      BY <2>1, <2>7, JobFields DEF Reopened
    <3>2. period' = [period EXCEPT ![j.period].state = "open"]
      BY <2>7 DEF Reopened
    <3>3. p = j.period => period'[p].state = "open"
      BY <3>1, <3>2 DEF PayrollTypeOK
    <3>4. p # j.period => period'[p] = period[p] /\ Shows(p)
      BY <2>7, <3>1, <3>2 DEF Reopened, PayrollTypeOK, SlipsOf
    <3> QED
      BY <1>1, <3>1, <3>3, <3>4
  <2>8. CASE StatusSet(r)
    <3>1. /\ j.slip \in Slips /\ ~overlapped /\ Follows(p) /\ period' = period
          /\ slip[j.slip].status \in {"draft", "issued"} /\ j.kind \in {"issued", "voided"}
      BY <2>1, <2>8, JobFields DEF StatusSet, Fresh
    <3>2. CASE p # j.slip[1]
      BY <1>1, <2>8, <3>1, <3>2 DEF StatusSet, PayrollTypeOK
    <3>3. CASE p = j.slip[1]
      <4>1. PICK s \in Slips : s = j.slip
        BY <3>1
      <4>2. s \in SlipsOf(p) /\ ~IsPaid(s)
        BY <3>1, <3>3, <4>1 DEF SlipsOf, IsPaid
      <4>3. slip'[s].status \in {"issued", "voided"}
        BY <2>8, <3>1, <4>1 DEF StatusSet, PayrollTypeOK
      <4>4. s \in SlipsOf(p)' /\ ~IsPaid(s)'
        BY <3>3, <4>1, <4>3 DEF SlipsOf, IsPaid
      <4> QED
        BY <3>1, <4>2, <4>4
    <3> QED
      BY <3>2, <3>3
  <2>9. CASE PayslipPaid(r)
    <3>1. j.slip \in Slips /\ ~overlapped /\ Follows(p) /\ j.slip[1] \in Periods /\ Fresh(j)
      BY <2>1, <2>9, JobFields DEF PayslipPaid, Slips
    <3>2. /\ slip[j.slip].status = "issued"
          /\ j.last <=> /\ period[j.slip[1]].state = "locked"
                        /\ \A s \in SlipsOf(j.slip[1]) \ {j.slip} : IsPaid(s)
      BY <2>9, <3>1 DEF PayslipPaid, Fresh
    <3>3. CASE p # j.slip[1]
      BY <1>1, <2>9, <3>1, <3>3 DEF PayslipPaid, PayrollTypeOK
    <3>4. CASE p = j.slip[1]
      <4>1. j.slip \in SlipsOf(p) /\ ~IsPaid(j.slip)
        BY <3>1, <3>2, <3>4 DEF SlipsOf, IsPaid
      <4>2. \A s \in Slips : s # j.slip => slip'[s] = slip[s]
        BY <2>9 DEF PayslipPaid, PayrollTypeOK
      <4>3. slip'[j.slip].status = "paid" /\ slip'[j.slip].paidAt
        BY <2>9, <3>1 DEF PayslipPaid, PayrollTypeOK
      <4>4. SlipsOf(p)' = SlipsOf(p)
        BY <3>2, <4>2, <4>3 DEF SlipsOf
      <4>5. CASE j.last
        <5>1. period'[p].state = "paid"
          BY <2>9, <3>1, <3>4, <4>5 DEF PayslipPaid, PayrollTypeOK
        <5>2. \A s \in SlipsOf(p) : IsPaid(s)'
          BY <3>2, <3>4, <4>2, <4>3, <4>5 DEF IsPaid, SlipsOf
        <5> QED
          BY <4>4, <5>1, <5>2
      <4>6. CASE ~j.last
        <5>1. period'[p].state = period[p].state /\ period[p].state # "paid"
          BY <2>9, <3>1, <4>1, <4>6 DEF PayslipPaid
        <5>2. ASSUME period[p].state = "locked"
              PROVE  \E s \in SlipsOf(p) \ {j.slip} : ~IsPaid(s)'
          <6>1. PICK s \in SlipsOf(p) \ {j.slip} : ~IsPaid(s)
            BY <3>2, <3>4, <4>6, <5>2
          <6> QED
            BY <4>2, <6>1 DEF IsPaid, SlipsOf
        <5> QED
          BY <4>4, <5>1, <5>2
      <4> QED
        BY <4>5, <4>6
    <3> QED
      BY <3>3, <3>4
  <2> QED
    BY <1>3, <1>4, <2>2, <2>3, <2>4, <2>5, <2>6, <2>7, <2>8, <2>9
    DEF Write, Reconcile, Abandon, TablesStay
<1>5. ASSUME NEW r \in Callers, Read(r) PROVE Follows(p)'
  BY <1>3, <1>5, ReadEffect
<1> QED
  BY <1>2, <1>3, <1>4, <1>5 DEF PayrollNext, payVars, TablesStay

-----------------------------------------------------------------------------
(* The theorems.                                                           *)

LEMMA PayrollInitIInv == PayrollInit => PayrollIInv
<1> SUFFICES ASSUME PayrollInit PROVE PayrollIInv
  OBVIOUS
<1> USE PayrollAssumption DEF PayrollInit
<1>1. PayrollTypeOK
  <2>1. NoClaim \in ClaimRow /\ NoSlip \in [status : SlipStates, paidAt : BOOLEAN, lists : SUBSET Claims]
    BY DEF NoClaim, NoSlip, ClaimRow, ClaimStates, SlipStates
  <2>2. NoSpan \in [state : {"none", "open", "locked", "paid", "deleted"}, window : Spans]
    BY DEF NoSpan, Spans
  <2>3. NoJob \in Jobs
    BY DEF Jobs
  <2> QED
    BY <2>1, <2>2, <2>3 DEF PayrollTypeOK, ClaimRow
<1>2. ApprovalsHoldClaims /\ JobsAreFresh
  BY DEF ApprovalsHoldClaims, JobsAreFresh, Fresh, NoJob
<1>3. FoldedWereApproved /\ SlipsHavePeriods /\ ListedAreSettled
  BY DEF FoldedWereApproved, SlipsHavePeriods, ListedAreSettled, NoSlip, NoJob
<1>4. PaidOnce /\ ClosedIsPaid /\ PeriodsFollowSlips
  BY DEF PaidOnce, ClosedIsPaid, PeriodsFollowSlips, NoClaim, NoSpan
<1> QED
  BY <1>1, <1>2, <1>3, <1>4 DEF PayrollIInv

LEMMA PayrollNextIInv == PayrollIInv /\ [PayrollNext]_payVars => PayrollIInv'
BY PayrollTypeStep, ApprovalsStep, FoldedStep, SlipsStep, FreshStep, ListedStep, PaidOnceStep, ClosedStep,
   PeriodsStep DEF PayrollIInv

\* The invariant holds in every behaviour, for any number of requests, claims,
\* periods and users.
THEOREM PayrollInvariance == PayrollSpec => []PayrollIInv
BY PayrollInitIInv, PayrollNextIInv, PTL DEF PayrollSpec

\* Every variable has its type.
THEOREM PayrollTypeCorrect == PayrollSpec => []PayrollTypeOK
<1>1. PayrollIInv => PayrollTypeOK
  BY DEF PayrollIInv
<1> QED
  BY <1>1, PayrollInvariance, PTL

\* A claim moves along the state machine of approval.py, and keeps what its
\* approval has set, however requests overlap.
THEOREM OneWayClaims == PayrollSpec => ClaimsAreOneWay
<1>1. PayrollIInv /\ [PayrollNext]_payVars => [\A c \in Claims : MovesForward(c)]_payVars
  BY ForwardStep DEF PayrollIInv
<1>2. PayrollSpec => [][\A c \in Claims : MovesForward(c)]_payVars
  BY <1>1, PayrollInvariance, PTL DEF PayrollSpec
<1> QED
  BY <1>2 DEF MovesForward, ClaimsAreOneWay

LEMMA IInvIsSound == PayrollIInv => PayrollIsSound
<1> SUFFICES ASSUME PayrollIInv, ~overlapped, NEW c \in Claims, c \notin strayed,
                    NEW p \in paidBy[c], NEW s \in SlipsOf(p), s[2] = AuthorOf[c]
             PROVE  IsPaid(s) /\ c \in slip[s].lists
  BY DEF PayrollIInv, PayrollIsSound, BooksBalance, PaidOnce
<1>1. s = <<p, AuthorOf[c]>> /\ p \in Periods /\ Lives(p)
  BY DEF SlipsOf, Slips, PayrollIInv, SlipsHavePeriods
<1> QED
  BY <1>1, PayrollAssumption DEF PayrollIInv, PaidOnce

\* A closed claim has been paid, and requests that do not overlap pay it once,
\* close it when they pay it, and close a period when its last payslip is paid.
THEOREM SoundPayroll == PayrollSpec => []PayrollIsSound
BY IInvIsSound, PayrollInvariance, PTL

-----------------------------------------------------------------------------
(* Payroll beside the replay cache, as MCRequests composes them.           *)

\* A behaviour of both is one of either, and keeps the types of both.
THEOREM RequestsKeepTypes == MCSpec => []RequestsTypeOK
<1>1. MCInit => Init /\ PayrollInit
  BY DEF MCInit
<1>2. [MCNext]_allVars => [Next]_vars /\ [PayrollNext]_payVars
  BY DEF MCNext, allVars
<1>3. MCSpec => Spec /\ PayrollSpec
  BY <1>1, <1>2, PTL DEF MCSpec, Spec, PayrollSpec
<1>. QED
  BY <1>3, TypeCorrect, PayrollTypeCorrect, PTL DEF RequestsTypeOK
=============================================================================
