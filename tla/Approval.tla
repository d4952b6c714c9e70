------------------------------ MODULE Approval ------------------------------
(***************************************************************************)
(* The approval of one agent action (app/domain/agent/approval.py): the    *)
(* approval_request row, the decisions on it over HTTP                     *)
(* (app/api/v1/approvals.py), the replay of the recorded tool call         *)
(* (InProcessApprovalDispatcher) and the TTL sweep of the worker.          *)
(*                                                                         *)
(* A decision loads the row in the unit of work that it commits at its end;*)
(* an approval replays the tool call in between, in a unit of work of the  *)
(* dispatcher's own, which commits first.  No lock is held and no UPDATE   *)
(* is conditional, so decisions and sweeps interleave and any of them may  *)
(* fail or die halfway.                                                    *)
(*                                                                         *)
(* The mapper writes the columns that a decision changed.  Every decision  *)
(* loaded a pending row, so its status is always among them; the sweep     *)
(* does not touch decided_by, and only an approval touches result_json.    *)
(*                                                                         *)
(* The capability for the underlying action is checked by a denial, and by *)
(* the domain operation that cancels a task when it is replayed; the       *)
(* replayed broadcast has no check of its own.                             *)
(***************************************************************************)
EXTENDS Naturals

CONSTANTS
    Approvals,   \* POST .../approve calls, each made at most once
    Denials,     \* POST .../reject calls, each made at most once
    Sweepers,    \* worker processes that run sweep_expired_approvals
    Capable,     \* calls whose caller may perform the underlying action
    Targets,     \* what the tool call acts on: recipients, or the one task
    Tools,       \* the tool calls that may be recorded
    MaxDeaths    \* bound on the sweeps that fail

Calls == Approvals \cup Denials
Actors == Calls \cup Sweepers
Nobody == "nobody"

ASSUME CapableAssumption == Capable \subseteq Calls
ASSUME ToolAssumption == Tools \subseteq {"broadcast", "cancel_task"}
ASSUME ActorsAssumption ==
    /\ Nobody \notin Actors
    /\ Approvals \cap Denials = {} /\ Calls \cap Sweepers = {}
ASSUME DeathsAssumption == MaxDeaths \in Nat

Decided == {"approved", "rejected", "timed_out"}
Results == {"none", "sent", "failed"}

VARIABLES
    row,        \* status, recorded tool call, decided_by and result_json; "absent" before it is minted
    expired,    \* whether expires_at has passed
    pc,         \* pc[c]: where a call or a sweeper is
    seen,       \* seen[c]: targets that c's replay found acted on already
    result,     \* result[c]: the ToolResult of c's replay
    effects,    \* effects[t]: how often the tool acted on t
    deaths,     \* failed sweeps so far
    \* History, read by the properties only.
    overlapped, \* whether two replays were open at the same time
    racing      \* calls and sweeps past their load at the first decision

vars == <<row, expired, pc, seen, result, effects, deaths, overlapped, racing>>

Init ==
    /\ \E tool \in Tools : row = [status |-> "absent", tool |-> tool, by |-> Nobody, result |-> "none"]
    /\ expired = FALSE
    /\ pc = [c \in Actors |-> "idle"]
    /\ seen = [c \in Approvals |-> {}]
    /\ result = [c \in Approvals |-> "none"]
    /\ effects = [t \in Targets |-> 0]
    /\ deaths = 0
    /\ overlapped = FALSE
    /\ racing = {}

Goto(c, label) == pc' = [pc EXCEPT ![c] = label]

\* _write_pending_approval: the middleware queues the delegated call.
Mint ==
    /\ row.status = "absent"
    /\ row' = [row EXCEPT !.status = "pending"]
    /\ UNCHANGED <<expired, pc, seen, result, effects, deaths, overlapped, racing>>

Expire ==
    /\ row.status # "absent" /\ ~expired
    /\ expired' = TRUE
    /\ UNCHANGED <<row, pc, seen, result, effects, deaths, overlapped, racing>>

\* A commit of actor c; the first decision is remembered with those in flight.
Commit(c, decision) ==
    /\ row' = decision
    /\ racing' = IF row.status = "pending"
                   THEN {a \in Actors : pc[a] \notin {"idle", "done"}} ELSE racing

-----------------------------------------------------------------------------
(* approve and deny.                                                       *)

\* The status of the loaded row is not looked at.
LoadUnchecked(c) ==
    /\ pc[c] = "idle" /\ row.status # "absent"
    /\ Goto(c, IF c \in Approvals THEN "replay" ELSE "check")
    /\ UNCHANGED <<row, expired, seen, result, effects, deaths, overlapped, racing>>

\* _authorize_row_access and _load_pending: not minted is 404, decided is 409.
Load(c) ==
    /\ pc[c] = "idle"
    /\ Goto(c, IF row.status # "pending" THEN "done"
               ELSE IF c \in Approvals THEN "replay" ELSE "check")
    /\ UNCHANGED <<row, expired, seen, result, effects, deaths, overlapped, racing>>

\* Whether the domain operation that is replayed lets c's caller through.
Permitted(c) == row.tool = "cancel_task" => c \in Capable

\* The dispatcher does not look for notifications of the same broadcast_id.
ReplayReadNothing(c) ==
    /\ pc[c] = "replay" /\ Permitted(c)
    /\ overlapped' = (overlapped \/ \E d \in Approvals : pc[d] = "act")
    /\ Goto(c, "act")
    /\ UNCHANGED <<row, expired, seen, result, effects, deaths, racing>>

\* The replay opens its unit of work and reads what the tool did before: the
\* notifications with the same broadcast_id, or the task's state.
ReplayRead(c) ==
    /\ pc[c] = "replay" /\ Permitted(c)
    /\ seen' = [seen EXCEPT ![c] = {t \in Targets : effects[t] > 0}]
    /\ overlapped' = (overlapped \/ \E d \in Approvals : pc[d] = "act")
    /\ Goto(c, "act")
    /\ UNCHANGED <<row, expired, result, effects, deaths, racing>>

\* It commits: the recipients not yet notified, or the task unless cancelled
\* (then InvalidStateTransition, a 409 result).
ReplayCommit(c) ==
    /\ pc[c] = "act"
    /\ effects' = [t \in Targets |-> IF t \in seen[c] THEN effects[t] ELSE effects[t] + 1]
    /\ result' = [result EXCEPT ![c] =
          IF row.tool = "cancel_task" /\ seen[c] = Targets THEN "failed" ELSE "sent"]
    /\ Goto(c, "decide")
    /\ UNCHANGED <<row, expired, seen, deaths, overlapped, racing>>

\* The tool call fails on its own account (404, 409, 422): a result like any
\* other.  A task that is gone is noticed before the capability is checked.
ReplayFails(c) ==
    /\ pc[c] = "replay"
    /\ result' = [result EXCEPT ![c] = "failed"]
    /\ Goto(c, "decide")
    /\ UNCHANGED <<row, expired, seen, effects, deaths, overlapped, racing>>

\* The result is 401 or 403, or the capability check of deny fails: 403 to the
\* caller, and the row stays pending.
Forbidden(c) ==
    /\ \/ pc[c] = "replay" /\ ~Permitted(c)
       \/ pc[c] = "check" /\ c \notin Capable
    /\ Goto(c, "done")
    /\ UNCHANGED <<row, expired, seen, result, effects, deaths, overlapped, racing>>

\* The result is the one that the card was proposed with.
ApproveCommitOptimistic(c) ==
    /\ pc[c] = "decide"
    /\ Commit(c, [row EXCEPT !.status = "approved", !.by = c, !.result = "sent"])
    /\ Goto(c, "done")
    /\ UNCHANGED <<expired, seen, result, effects, deaths, overlapped>>

\* _apply_approved_decision and the commit of the request's unit of work.
ApproveCommit(c) ==
    /\ pc[c] = "decide"
    /\ Commit(c, [row EXCEPT !.status = "approved", !.by = c, !.result = result[c]])
    /\ Goto(c, "done")
    /\ UNCHANGED <<expired, seen, result, effects, deaths, overlapped>>

\* The capability check is left to the route, which has none.
DenyCommitUnchecked(c) ==
    /\ pc[c] = "check"
    /\ Commit(c, [row EXCEPT !.status = "rejected", !.by = c])
    /\ Goto(c, "done")
    /\ UNCHANGED <<expired, seen, result, effects, deaths, overlapped>>

DenyCommit(c) ==
    /\ pc[c] = "check" /\ c \in Capable
    /\ Commit(c, [row EXCEPT !.status = "rejected", !.by = c])
    /\ Goto(c, "done")
    /\ UNCHANGED <<expired, seen, result, effects, deaths, overlapped>>

\* The dispatcher or a subscriber raises, or the process dies: whatever unit of
\* work is open is rolled back, what the replay committed stays.
Abort(c) ==
    /\ pc[c] \in {"replay", "act", "check", "decide"}
    /\ Goto(c, "done")
    /\ UNCHANGED <<row, expired, seen, result, effects, deaths, overlapped, racing>>

-----------------------------------------------------------------------------
(* sweep_expired_approvals.                                                *)

\* expires_at is compared the other way round.
SweepSelectFresh(s) ==
    /\ pc[s] = "idle"
    /\ row.status = "pending" /\ ~expired
    /\ Goto(s, "sweep")
    /\ UNCHANGED <<row, expired, seen, result, effects, deaths, overlapped, racing>>

SweepSelect(s) ==
    /\ pc[s] = "idle"
    /\ row.status = "pending" /\ expired
    /\ Goto(s, "sweep")
    /\ UNCHANGED <<row, expired, seen, result, effects, deaths, overlapped, racing>>

\* The sweep signs its decisions.
SweepCommitSigned(s) ==
    /\ pc[s] = "sweep"
    /\ Commit(s, [row EXCEPT !.status = "timed_out", !.by = s])
    /\ Goto(s, "idle")
    /\ UNCHANGED <<expired, seen, result, effects, deaths, overlapped>>

\* The guard on row.status reads the object just selected, so it always holds.
SweepCommit(s) ==
    /\ pc[s] = "sweep"
    /\ Commit(s, [row EXCEPT !.status = "timed_out"])
    /\ Goto(s, "idle")
    /\ UNCHANGED <<expired, seen, result, effects, deaths, overlapped>>

\* A subscriber or a notification raises, or the process dies.
SweepAbort(s) ==
    /\ pc[s] = "sweep" /\ deaths < MaxDeaths
    /\ deaths' = deaths + 1
    /\ Goto(s, "idle")
    /\ UNCHANGED <<row, expired, seen, result, effects, overlapped, racing>>

-----------------------------------------------------------------------------

Approve(c) ==
    \/ ReplayRead(c)
    \/ ReplayCommit(c)
    \/ ReplayFails(c)
    \/ ApproveCommit(c)

Sweep(s) == SweepSelect(s) \/ SweepCommit(s)

Next ==
    \/ Mint
    \/ Expire
    \/ \E c \in Calls : Load(c) \/ Forbidden(c) \/ Abort(c)
    \/ \E c \in Approvals : Approve(c)
    \/ \E c \in Denials : DenyCommit(c)
    \/ \E s \in Sweepers : Sweep(s) \/ SweepAbort(s)

Spec == Init /\ [][Next]_vars

\* The scheduler keeps firing the sweep; no call need ever be made or end.
FairSpec == Spec /\ WF_vars(Expire) /\ \A s \in Sweepers : WF_vars(Sweep(s))

-----------------------------------------------------------------------------
(* Properties.                                                             *)

TypeOK ==
    /\ row \in [status : {"absent", "pending"} \cup Decided, tool : Tools,
                by : Calls \cup {Nobody}, result : Results]
    /\ expired \in BOOLEAN
    /\ pc \in [Actors -> {"idle", "replay", "act", "check", "decide", "sweep", "done"}]
    /\ seen \in [Approvals -> SUBSET Targets]
    /\ result \in [Approvals -> Results]
    /\ effects \in [Targets -> Nat]
    /\ deaths \in Nat
    /\ overlapped \in BOOLEAN
    /\ racing \in SUBSET Actors

\* As long as no two replays are open at once, the tool acts on each target at
\* most once, however often approvals fail after their replay and are retried.
FiresOnceWithoutOverlap == ~overlapped => \A t \in Targets : effects[t] <= 1

\* A row that shows a result shows a real one: an approval is never committed
\* ahead of its replay, and "sent" means that every target was acted on, also
\* when another decision or the sweep wrote over the row.
ResultsAreReal ==
    /\ row.status = "approved" => row.result # "none"
    /\ row.result = "sent" => \A t \in Targets : effects[t] > 0

\* The decision on the cancellation of a task is signed by someone who may cancel
\* it, unless what was replayed for them failed: also when approvals, denials and
\* the sweep write over each other, each leaving some columns to the other.
SignedByTheCapable ==
    row.tool = "cancel_task" /\ row.by \notin Capable \cup {Nobody} => row.result = "failed"

\* What a decided row says happened, did: its result and its signature, which
\* different decisions may have written.
DecisionsAreReal == ResultsAreReal /\ SignedByTheCapable

\* A decision is final for every call and sweep that comes later: only those
\* already past their load when it was committed can write over it.
DecisionIsFinal ==
    [][row.status \in Decided /\ row' # row =>
          \E c \in racing : pc[c] # "done" /\ pc'[c] # pc[c]]_vars

\* A queued action is eventually decided, if by nobody else then by the sweep
\* after its TTL, however many approvals and sweeps fail before that.
PendingIsDecided == row.status = "pending" ~> row.status \in Decided

\* approve's documentation: "Approve never executes a tool call twice"; the
\* route's: "The side effect itself is single-fire".
ApproveFiresOnce == \A t \in Targets : effects[t] <= 1
=============================================================================
