--------------------------- MODULE TaskLifecycle ---------------------------
(***************************************************************************)
(* The life of one task (app/domain/tasks/completion.py): its occurrence   *)
(* row, its required checklist item, what completions append, the requests *)
(* that move it and the sweep that flips it to overdue                     *)
(* (app/worker/tasks/overdue.py).                                          *)
(*                                                                         *)
(* A request loads the row without a lock, decides on the loaded copy, and *)
(* writes and commits later.  The mapper writes the columns whose value    *)
(* differs from the copy, so that overlapping requests overwrite each other*)
(* column by column.  The sweep's UPDATE is conditional on the state.      *)
(*                                                                         *)
(* A request that is refused changes nothing and is no step of its own:    *)
(* permissions, the photo policy and the skip setting only refuse.  The    *)
(* checklist is required and stands for its required items as one.         *)
(***************************************************************************)
EXTENDS Naturals

CONSTANTS
    Requests,   \* requests on the task, each of one operation, made at most once
    Users,      \* who completes it
    Sweepers,   \* worker processes that run detect_overdue
    MaxAborts   \* bound on the sweeps that fail

\* The value of completed_at and completed_by_user_id that is NULL.
Null == "null"

ASSUME NullAssumption == Null \notin Requests \cup Users
ASSUME ActorsAssumption == Requests \cap Sweepers = {}
ASSUME AbortsAssumption == MaxAborts \in Nat

Terminal == {"completed", "skipped", "cancelled"}
Flippable == {"scheduled", "pending", "in_progress"}
States == Terminal \cup Flippable \cup {"overdue"}

\* completed_at is the completion's identity: the request that made it.
Rows == [state : States, at : Requests \cup {Null}, by : Users \cup {Null},
         marked : BOOLEAN]    \* whether overdue_since is set

VARIABLES
    row,         \* the occurrence row
    ticked,      \* the required checklist item's checked column
    pastDue,     \* whether ends_at plus the grace period is past
    pc,          \* pc[a]: where request or sweep a is
    copy,        \* copy[r]: the row as request r loaded it
    completions, \* what completions have appended: a tombstone with the checklist's
                 \* snapshot, an audit row, stock movements, a review request
    superseded,  \* the complete_superseded audit rows: the displaced completion
    aborts,      \* failed sweeps so far
    \* History, read by the properties only.
    parallel,    \* whether two requests were ever in flight at once
    crossed,     \* whether the sweep ever flipped the row under a request
    stale        \* requests in flight when the row last became terminal

vars == <<row, ticked, pastDue, pc, copy, completions, superseded, aborts,
          parallel, crossed, stale>>

Actors == Requests \cup Sweepers
InFlight(r) == pc[r] \in {"loaded", "sawTicked", "sawUnticked"}

\* A task as it was created, its checklist ticked since then or not.
Init ==
    /\ row \in [state : {"scheduled", "pending"}, at : {Null}, by : {Null}, marked : {FALSE}]
    /\ ticked \in BOOLEAN
    /\ pastDue = FALSE
    /\ pc = [a \in Actors |-> "idle"]
    /\ copy = [r \in Requests |-> row]
    /\ completions = {}
    /\ superseded = {}
    /\ aborts = 0
    /\ parallel = FALSE
    /\ crossed = FALSE
    /\ stale = {}

Goto(a, label) == pc' = [pc EXCEPT ![a] = label]

-----------------------------------------------------------------------------
(* Requests.                                                               *)

\* _load_task: a plain SELECT.
Load(r) ==
    /\ pc[r] = "idle"
    /\ copy' = [copy EXCEPT ![r] = row]
    /\ parallel' = (parallel \/ \E q \in Requests : InFlight(q))
    /\ Goto(r, "loaded")
    /\ UNCHANGED <<row, ticked, pastDue, completions, superseded, aborts, crossed, stale>>

\* The checklist gate of complete, or the route that ticks, reads the item.
ReadItem(r) ==
    /\ pc[r] = "loaded"
    /\ Goto(r, IF ticked THEN "sawTicked" ELSE "sawUnticked")
    /\ UNCHANGED <<row, ticked, pastDue, copy, completions, superseded, aborts,
                   parallel, crossed, stale>>

\* The flush writes the columns in which the new row differs from the copy.
Merged(old, new) ==
    [state  |-> IF new.state # old.state THEN new.state ELSE row.state,
     at     |-> IF new.at # old.at THEN new.at ELSE row.at,
     by     |-> IF new.by # old.by THEN new.by ELSE row.by,
     marked |-> IF new.marked # old.marked THEN new.marked ELSE row.marked]

\* Request r writes the row and commits.
Commit(r, new) ==
    /\ row' = Merged(copy[r], new)
    /\ stale' = IF row'.state \in Terminal /\ row.state \notin Terminal
                  THEN {q \in Requests \ {r} : InFlight(q)} ELSE stale
    /\ Goto(r, "done")
    /\ UNCHANGED <<ticked, copy, aborts, parallel, crossed>>

\* _ALLOWED_EDGES.
AllowedEdges ==
    [scheduled   |-> {"pending", "in_progress"} \cup Terminal,
     pending     |-> {"in_progress"} \cup Terminal,
     in_progress |-> Terminal,
     overdue     |-> {"pending", "in_progress"} \cup Terminal,
     completed   |-> {}, skipped |-> {}, cancelled |-> {}]

Allowed(r, target) == target \in AllowedEdges[copy[r].state]

\* overdue_since is left to the sweep.
StartKeepingMark(r) ==
    /\ InFlight(r) /\ Allowed(r, "in_progress")
    /\ Commit(r, [copy[r] EXCEPT !.state = "in_progress"])
    /\ UNCHANGED <<pastDue, completions, superseded>>

Start(r) ==
    /\ InFlight(r) /\ Allowed(r, "in_progress")
    /\ Commit(r, [copy[r] EXCEPT !.state = "in_progress", !.marked = FALSE])
    /\ UNCHANGED <<pastDue, completions, superseded>>

\* The first completer keeps the credit.
CompleteKeepingCredit(r, u) ==
    /\ pc[r] = "sawTicked"
    /\ copy[r].state = "completed" \/ Allowed(r, "completed")
    /\ Commit(r, [state |-> "completed", at |-> r, marked |-> FALSE,
                  by |-> IF copy[r].by = Null THEN u ELSE copy[r].by])
    /\ completions' = completions \cup {[at |-> r, by |-> u, ticked |-> ticked]}
    /\ superseded' = IF copy[r].state = "completed"
                       THEN superseded \cup {[at |-> copy[r].at, by |-> copy[r].by]}
                       ELSE superseded
    /\ UNCHANGED pastDue

\* completed_by_user_id is filled in with the row's id.
CompleteByItself(r, u) ==
    /\ pc[r] = "sawTicked"
    /\ copy[r].state = "completed" \/ Allowed(r, "completed")
    /\ Commit(r, [state |-> "completed", at |-> r, by |-> r, marked |-> FALSE])
    /\ completions' = completions \cup {[at |-> r, by |-> u, ticked |-> ticked]}
    /\ UNCHANGED <<superseded, pastDue>>

\* The audit row of a second completion names the superseding one.
CompleteAuditingItself(r, u) ==
    /\ pc[r] = "sawTicked"
    /\ copy[r].state = "completed" \/ Allowed(r, "completed")
    /\ Commit(r, [state |-> "completed", at |-> r, by |-> u, marked |-> FALSE])
    /\ completions' = completions \cup {[at |-> r, by |-> u, ticked |-> ticked]}
    /\ superseded' = IF copy[r].state = "completed"
                       THEN superseded \cup {[at |-> r, by |-> u]} ELSE superseded
    /\ UNCHANGED pastDue

\* complete, by user u; a completed copy is completed again, and the audit names
\* the completion that the copy shows as displaced.  The snapshot of the
\* checklist is read after the row was flushed.
Complete(r, u) ==
    /\ pc[r] = "sawTicked"
    /\ copy[r].state = "completed" \/ Allowed(r, "completed")
    /\ Commit(r, [state |-> "completed", at |-> r, by |-> u, marked |-> FALSE])
    /\ completions' = completions \cup {[at |-> r, by |-> u, ticked |-> ticked]}
    /\ superseded' = IF copy[r].state = "completed"
                       THEN superseded \cup {[at |-> copy[r].at, by |-> copy[r].by]}
                       ELSE superseded
    /\ UNCHANGED pastDue

\* skip and cancel.
Close(r, target) ==
    /\ InFlight(r) /\ Allowed(r, target)
    /\ Commit(r, [copy[r] EXCEPT !.state = target, !.marked = FALSE])
    /\ UNCHANGED <<pastDue, completions, superseded>>

\* delete of the task's schedule: _cancel_scheduled_tasks selects scheduled rows
\* and leaves overdue_since alone.
DeleteSchedule(r) ==
    /\ InFlight(r) /\ copy[r].state = "scheduled"
    /\ Commit(r, [copy[r] EXCEPT !.state = "cancelled"])
    /\ UNCHANGED <<pastDue, completions, superseded>>

\* update_task moves the task: into the future, or to where it has begun and may
\* be over.  Only scheduled and pending follow the start.
Reschedule(r, begun, over) ==
    /\ InFlight(r)
    /\ over => begun
    /\ Commit(r, IF copy[r].state \in {"scheduled", "pending"}
                   THEN [copy[r] EXCEPT !.state = IF begun THEN "pending" ELSE "scheduled"]
                   ELSE copy[r])
    /\ pastDue' = over
    /\ UNCHANGED <<completions, superseded>>

\* patch_task_checklist_item: refused when the loaded task is terminal.
Tick(r) ==
    /\ pc[r] = "sawUnticked" /\ copy[r].state \notin Terminal
    /\ ticked' = TRUE
    /\ Goto(r, "done")
    /\ UNCHANGED <<row, pastDue, copy, completions, superseded, aborts, parallel,
                   crossed, stale>>

Untick(r) ==
    /\ pc[r] = "sawTicked" /\ copy[r].state \notin Terminal
    /\ ticked' = FALSE
    /\ Goto(r, "done")
    /\ UNCHANGED <<row, pastDue, copy, completions, superseded, aborts, parallel,
                   crossed, stale>>

\* The request is refused, a subscriber raises, or the process dies.
Abort(r) ==
    /\ InFlight(r)
    /\ Goto(r, "done")
    /\ UNCHANGED <<row, ticked, pastDue, copy, completions, superseded, aborts,
                   parallel, crossed, stale>>

-----------------------------------------------------------------------------
(* detect_overdue, and time.                                               *)

\* A task that somebody is working on is left alone.
SweepSelectIdle(s) ==
    /\ pc[s] = "idle"
    /\ pastDue /\ row.state \in Flippable \ {"in_progress"}
    /\ Goto(s, "selected")
    /\ UNCHANGED <<row, ticked, pastDue, copy, completions, superseded, aborts,
                   parallel, crossed, stale>>

SweepSelect(s) ==
    /\ pc[s] = "idle"
    /\ pastDue /\ row.state \in Flippable
    /\ Goto(s, "selected")
    /\ UNCHANGED <<row, ticked, pastDue, copy, completions, superseded, aborts,
                   parallel, crossed, stale>>

\* The UPDATE has no condition on the state.
SweepFlipAny(s) ==
    /\ pc[s] = "selected"
    /\ row' = [row EXCEPT !.state = "overdue", !.marked = TRUE]
    /\ crossed' = (crossed \/ \E r \in Requests : InFlight(r))
    /\ Goto(s, "idle")
    /\ UNCHANGED <<ticked, pastDue, copy, completions, superseded, aborts, parallel, stale>>

\* _flip_task_overdue: the conditional UPDATE, and the commit of the tick.
SweepFlip(s) ==
    /\ pc[s] = "selected" /\ row.state \in Flippable
    /\ row' = [row EXCEPT !.state = "overdue", !.marked = TRUE]
    /\ crossed' = (crossed \/ \E r \in Requests : InFlight(r))
    /\ Goto(s, "idle")
    /\ UNCHANGED <<ticked, pastDue, copy, completions, superseded, aborts, parallel, stale>>

\* It matches no row: skipped_manual_transition.
SweepSkip(s) ==
    /\ pc[s] = "selected" /\ row.state \notin Flippable
    /\ Goto(s, "idle")
    /\ UNCHANGED <<row, ticked, pastDue, copy, completions, superseded, aborts,
                   parallel, crossed, stale>>

\* A subscriber or a notification raises: the workspace's savepoint is rolled
\* back.  Or the process dies.
SweepAbort(s) ==
    /\ pc[s] = "selected" /\ aborts < MaxAborts
    /\ aborts' = aborts + 1
    /\ Goto(s, "idle")
    /\ UNCHANGED <<row, ticked, pastDue, copy, completions, superseded, parallel,
                   crossed, stale>>

BecomePastDue ==
    /\ ~pastDue /\ pastDue' = TRUE
    /\ UNCHANGED <<row, ticked, pc, copy, completions, superseded, aborts, parallel,
                   crossed, stale>>

-----------------------------------------------------------------------------

Request(r) ==
    \/ Load(r)
    \/ ReadItem(r)
    \/ Start(r)
    \/ \E u \in Users : Complete(r, u)
    \/ \E target \in {"skipped", "cancelled"} : Close(r, target)
    \/ DeleteSchedule(r)
    \/ \E begun, over \in BOOLEAN : Reschedule(r, begun, over)
    \/ Tick(r)
    \/ Untick(r)
    \/ Abort(r)

Sweep(s) == SweepSelect(s) \/ SweepFlip(s) \/ SweepSkip(s)

Next ==
    \/ \E r \in Requests : Request(r)
    \/ \E s \in Sweepers : Sweep(s) \/ SweepAbort(s)
    \/ BecomePastDue

Spec == Init /\ [][Next]_vars

\* The scheduler keeps firing the sweep; no request need ever be made or end.
FairSpec == Spec /\ \A s \in Sweepers : WF_vars(Sweep(s))

-----------------------------------------------------------------------------
(* Properties.                                                             *)

TypeOK ==
    /\ row \in Rows
    /\ ticked \in BOOLEAN
    /\ pastDue \in BOOLEAN
    /\ pc \in [Actors -> {"idle", "loaded", "sawTicked", "sawUnticked", "selected", "done"}]
    /\ copy \in [Requests -> Rows]
    /\ completions \in SUBSET [at : Requests, by : Users, ticked : BOOLEAN]
    /\ superseded \in SUBSET [at : Requests, by : Users]
    /\ aborts \in Nat
    /\ parallel \in BOOLEAN
    /\ crossed \in BOOLEAN
    /\ stale \in SUBSET Requests

\* A terminal state is left only by a request that was in flight when the task
\* became terminal: by no later request, and never by the sweep.
TerminalIsLeftByStragglers ==
    [][row.state \in Terminal /\ row'.state # row.state =>
          \E r \in stale : InFlight(r) /\ pc'[r] = "done"]_vars

\* As long as no two requests overlap, an overdue task has its overdue_since;
\* and unless a flip fell into a request either, no other task has one.
OverdueIsMarked ==
    ~parallel =>
        /\ row.state = "overdue" => row.marked
        /\ row.marked /\ ~crossed => row.state = "overdue"

\* The row of a completed task shows a completion that happened: a user who
\* completed it and a time at which it was completed, though perhaps of two
\* completions when requests overlap; of one when they do not.
CompletionIsReal ==
    row.state = "completed" =>
        /\ \E c \in completions : c.at = row.at
        /\ \E c \in completions : c.by = row.by
        /\ ~parallel => \E c \in completions : c.at = row.at /\ c.by = row.by

\* Without overlapping requests no completion is silently lost: each is the one
\* that the row shows or is named by a complete_superseded audit row.
SerialCompletionsAreKept ==
    ~parallel =>
        \A c \in completions :
            \/ c.at = row.at /\ c.by = row.by
            \/ [at |-> c.at, by |-> c.by] \in superseded

\* Without overlapping requests a completed task has its checklist ticked, and
\* every completion's snapshot says so: the item is locked by the terminal state.
CompletedIsTicked ==
    ~parallel =>
        /\ row.state = "completed" => ticked
        /\ \A c \in completions : c.ticked

\* What requests that do not overlap can rely on.
SerialRequestsAreSound == OverdueIsMarked /\ SerialCompletionsAreKept /\ CompletedIsTicked

\* A task left past its end is eventually flipped, moved or dealt with.
PastDueIsNoticed ==
    pastDue /\ row.state \in Flippable ~> ~pastDue \/ row.state \notin Flippable

\* The module's documentation of overlapping completions: "the displaced
\* completion is never silently lost", complete_superseded names it.
DisplacedIsAudited ==
    \A c \in completions :
        c.at = row.at \/ [at |-> c.at, by |-> c.by] \in superseded
=============================================================================
