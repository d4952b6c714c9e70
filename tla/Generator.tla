----------------------------- MODULE Generator ------------------------------
(***************************************************************************)
(* Recurring schedules (app/domain/tasks/schedules.py), the hourly tick    *)
(* that turns their occurrences into tasks (app/worker/tasks/generator.py),*)
(* the closures of their property and the PATCH that moves a task          *)
(* (app/domain/tasks/oneoff.py).                                           *)
(*                                                                         *)
(* A tick is one transaction: it loads the schedules without a lock,       *)
(* expands them one by one, inserts what it finds missing and commits at   *)
(* the end, while managers pause, edit and delete the schedules.  Two      *)
(* workers' ticks overlap; a partial UNIQUE index on the schedule and the  *)
(* local time of a task keeps them apart.  A local time is a day here, and *)
(* all schedules are of one property.  What happens to a task that was     *)
(* started or closed, and to the copies that requests hold of it, is in    *)
(* TaskLifecycle.                                                          *)
(***************************************************************************)
EXTENDS Integers

CONSTANTS
    Schedules,    \* their ids, ordered as ULIDs are
    Days,         \* the local days of tasks
    Closable,     \* those of them that a closure may cover
    Bodies,       \* what an edit can write into a schedule
    Skew,         \* Skew[s]: the local date at s, less the UTC date
    Horizon,      \* horizon_days
    LastDay,      \* bound on the UTC date
    Generators,   \* worker processes that run the tick
    Managers,     \* requests that delete a schedule
    MaxMoves,     \* bound on the tasks moved
    MaxFailures,  \* bound on the ticks that fail
    NoBody,       \* a schedule that a tick has not loaded
    NoSchedule    \* a manager that deletes nothing

\* days is what RRULE, RDATE and EXDATE yield; placed, whether there is a property.
ASSUME BodiesAssumption ==
    Bodies \subseteq [days : SUBSET Days, from : Int, until : Int, placed : BOOLEAN]
ASSUME DatesAssumption ==
    /\ Schedules \subseteq Int /\ Days \subseteq Int /\ Closable \subseteq Days
    /\ Skew \in [Schedules -> {-1, 0, 1}]
    /\ Horizon \in Nat /\ LastDay \in Nat /\ MaxMoves \in Nat /\ MaxFailures \in Nat
ASSUME NoBodyAssumption == NoBody \notin Bodies
ASSUME NoScheduleAssumption == NoSchedule \notin Schedules

VARIABLES
    today,      \* the UTC date
    status,     \* status[s]: "absent", "live" or "deleted"
    paused,     \* paused[s]: whether paused_at is set
    body,       \* body[s]: what its columns say
    closed,     \* the days that a closure covers
    tasks,      \* the committed occurrence rows
    loaded,     \* loaded[g][s]: the body of s as g's tick loaded it
    left,       \* left[g]: the schedules that g has still to expand
    todo,       \* todo[g]: the candidates of the one that it is expanding
    made,       \* made[g]: the tasks that it has inserted and not committed
    erasing,    \* erasing[m]: the schedule whose deletion m has begun
    saw,        \* saw[m]: the tasks that it is about to cancel
    moves,      \* tasks moved so far
    failures,   \* failed ticks so far
    \* History, read by the properties only.
    late        \* late[s]: the ticks that had loaded s when it went quiet

genVars == <<today, status, paused, body, closed, tasks, loaded, left, todo, made,
             erasing, saw, moves, failures, late>>

scheduleVars == <<status, paused, body>>
tickVars == <<loaded, left, todo, made>>
eraseVars == <<erasing, saw>>

Nothing == [s \in Schedules |-> NoBody]
Ticking(g) == loaded[g] # Nothing
Local(s) == today + Skew[s]

\* born tells the tasks of one occurrence apart: an occurrence has a second task
\* only after the first has been moved.
Tasks == [schedule : Schedules, orig : Days, born : 0..MaxMoves, at : Days,
          state : {"scheduled", "pending", "left", "cancelled"}]
Same(x, y) == x.schedule = y.schedule /\ x.orig = y.orig /\ x.born = y.born
Taken(s, d) == \E x \in tasks : x.schedule = s /\ x.at = d

GenInit ==
    /\ today = 1
    /\ status = [s \in Schedules |-> "absent"]
    /\ paused = [s \in Schedules |-> FALSE]
    /\ body \in [Schedules -> Bodies]
    /\ closed = {}
    /\ tasks = {}
    /\ loaded = [g \in Generators |-> Nothing]
    /\ left = [g \in Generators |-> {}]
    /\ todo = [g \in Generators |-> {}]
    /\ made = [g \in Generators |-> {}]
    /\ erasing = [m \in Managers |-> NoSchedule]
    /\ saw = [m \in Managers |-> {}]
    /\ moves = 0
    /\ failures = 0
    /\ late = [s \in Schedules |-> {}]

-----------------------------------------------------------------------------
(* Schedules and closures.                                                 *)

\* create.
CreateSchedule(s) ==
    /\ status[s] = "absent"
    /\ status' = [status EXCEPT ![s] = "live"]
    /\ UNCHANGED <<today, paused, body, closed, tasks, tickVars, eraseVars, moves,
                   failures, late>>

\* The row of a schedule is locked by the UPDATE of a deletion that has begun.  Who
\* waits for it edits a deleted row, which nobody reads, and is no step here.
Editable(s) == status[s] = "live" /\ \A m \in Managers : erasing[m] # s

\* update: the tasks that exist are left alone; "apply to existing" patches their
\* assignee and property, which no property here tells apart.
UpdateSchedule(s, b) ==
    /\ Editable(s)
    /\ body' = [body EXCEPT ![s] = b]
    /\ UNCHANGED <<today, status, paused, closed, tasks, tickVars, eraseVars, moves,
                   failures, late>>

\* The ticks that know s as it is before it goes quiet.
Knowing(s) == {g \in Generators : loaded[g][s] # NoBody}

\* pause: tasks and ticks go on.
PauseSchedule(s) ==
    /\ Editable(s)
    /\ paused' = [paused EXCEPT ![s] = TRUE]
    /\ late' = IF paused[s] THEN late ELSE [late EXCEPT ![s] = Knowing(s)]
    /\ UNCHANGED <<today, status, body, closed, tasks, tickVars, eraseVars, moves, failures>>

ResumeSchedule(s) ==
    /\ Editable(s)
    /\ paused' = [paused EXCEPT ![s] = FALSE]
    /\ UNCHANGED <<today, status, body, closed, tasks, tickVars, eraseVars, moves,
                   failures, late>>

\* delete, up to the SELECT of _cancel_scheduled_tasks.
DeleteRead(m, s) ==
    /\ erasing[m] = NoSchedule /\ Editable(s)
    /\ erasing' = [erasing EXCEPT ![m] = s]
    /\ saw' = [saw EXCEPT ![m] = {x \in tasks : x.schedule = s /\ x.state = "scheduled"}]
    /\ UNCHANGED <<today, scheduleVars, closed, tasks, tickVars, moves, failures, late>>

\* The pending tasks are cancelled instead of the scheduled ones.
CancelledIfPending(x, seen) ==
    IF x.state = "pending" /\ \E y \in seen : Same(x, y)
      THEN [x EXCEPT !.state = "cancelled"] ELSE x

Cancelled(x, seen) ==
    IF \E y \in seen : Same(x, y) THEN [x EXCEPT !.state = "cancelled"] ELSE x

\* Its flush and commit, by primary key: nothing is looked at again.
DeleteCommit(m) ==
    /\ erasing[m] # NoSchedule
    /\ status' = [status EXCEPT ![erasing[m]] = "deleted"]
    /\ tasks' = {Cancelled(x, saw[m]) : x \in tasks}
    /\ late' = IF status[erasing[m]] = "live" /\ ~paused[erasing[m]]
                 THEN [late EXCEPT ![erasing[m]] = Knowing(erasing[m])] ELSE late
    /\ erasing' = [erasing EXCEPT ![m] = NoSchedule]
    /\ saw' = [saw EXCEPT ![m] = {}]
    /\ UNCHANGED <<today, paused, body, closed, tickVars, moves, failures>>

\* The request fails.
DeleteAbort(m) ==
    /\ erasing[m] # NoSchedule
    /\ erasing' = [erasing EXCEPT ![m] = NoSchedule]
    /\ saw' = [saw EXCEPT ![m] = {}]
    /\ UNCHANGED <<today, scheduleVars, closed, tasks, tickVars, moves, failures, late>>

\* create_closure, update_closure, delete_closure: a day opens or closes.
ToggleClosure(d) ==
    /\ closed' = IF d \in closed THEN closed \ {d} ELSE closed \cup {d}
    /\ UNCHANGED <<today, scheduleVars, tasks, tickVars, eraseVars, moves, failures, late>>

-----------------------------------------------------------------------------
(* Tasks.                                                                  *)

\* update_task moves a task.  The index refuses a taken time, and waits for one
\* that a tick has inserted and not committed.
MoveTask(x, d) ==
    /\ x \in tasks /\ d # x.at
    /\ moves < MaxMoves
    /\ ~Taken(x.schedule, d)
    /\ \A g \in Generators : <<x.schedule, d>> \notin made[g]
    /\ tasks' = (tasks \ {x}) \cup
          {[x EXCEPT !.at = d,
                     !.state = CASE x.state = "scheduled" /\ d <= Local(x.schedule) -> "pending"
                                 [] x.state = "pending" /\ d > Local(x.schedule) -> "scheduled"
                                 [] OTHER -> x.state]}
    /\ moves' = moves + 1
    /\ UNCHANGED <<today, scheduleVars, closed, tickVars, eraseVars, failures, late>>

\* A task is started, closed or overdue: TaskLifecycle.
LeaveTask(x) ==
    /\ x \in tasks /\ x.state \in {"scheduled", "pending"}
    /\ tasks' = (tasks \ {x}) \cup {[x EXCEPT !.state = "left"]}
    /\ UNCHANGED <<today, scheduleVars, closed, tickVars, eraseVars, moves, failures, late>>

-----------------------------------------------------------------------------
(* generate_task_occurrences.                                              *)

\* Dates compared as if every property were on UTC.
InGateUtc(b) == b.from <= today /\ today <= b.until

\* The SQL gate, a day wider on both sides because it compares UTC with local dates.
InGate(b) == b.from <= today + 1 /\ today - 1 <= b.until

\* The deletion sets enabled and next_generation_at; deleted_at is not looked at.
EligibleThoughDeleted(s) ==
    status[s] # "absent" /\ ~paused[s] /\ InGate(body[s])

Eligible(s) == status[s] = "live" /\ ~paused[s] /\ InGate(body[s])

\* _load_eligible_schedules; a tick that loads none does nothing.
TickLoad(g) ==
    /\ ~Ticking(g)
    /\ \E s \in Schedules : Eligible(s)
    /\ loaded' = [loaded EXCEPT ![g] = [s \in Schedules |-> IF Eligible(s) THEN body[s] ELSE NoBody]]
    /\ left' = [left EXCEPT ![g] = {s \in Schedules : Eligible(s)}]
    /\ UNCHANGED <<today, scheduleVars, closed, tasks, todo, made, eraseVars, moves,
                   failures, late>>

\* _expand_rule up to the horizon, the active range, and _covered_by_closure.
Candidates(s, b) ==
    IF ~b.placed THEN {}
    ELSE {d \in b.days \ closed : b.from <= d /\ d <= b.until /\ d <= Local(s) + Horizon}

\* The next schedule, by id; its closures are read now.
TickExpand(g, s) ==
    /\ s \in left[g] /\ todo[g] = {}
    /\ \A r \in left[g] : s <= r
    /\ left' = [left EXCEPT ![g] = @ \ {s}]
    /\ todo' = [todo EXCEPT ![g] = {<<s, d>> : d \in Candidates(s, loaded[g][s])}]
    /\ UNCHANGED <<today, scheduleVars, closed, tasks, loaded, made, eraseVars, moves,
                   failures, late>>

\* A plain INSERT after the preflight SELECT, with nothing to wait for.
InsertAfterPreflight(g, p) ==
    /\ p \in todo[g]
    /\ \A q \in todo[g] : p[2] <= q[2]
    /\ todo' = [todo EXCEPT ![g] = @ \ {p}]
    /\ made' = IF Taken(p[1], p[2]) THEN made ELSE [made EXCEPT ![g] = @ \cup {p}]
    /\ UNCHANGED <<today, scheduleVars, closed, tasks, loaded, left, eraseVars, moves,
                   failures, late>>

\* The next candidate: _already_materialised and INSERT .. ON CONFLICT DO NOTHING,
\* which waits for a transaction that has inserted the same key.
TickInsert(g, p) ==
    /\ p \in todo[g]
    /\ \A q \in todo[g] : p[2] <= q[2]
    /\ \A h \in Generators \ {g} : p \notin made[h]
    /\ todo' = [todo EXCEPT ![g] = @ \ {p}]
    /\ made' = IF Taken(p[1], p[2]) THEN made ELSE [made EXCEPT ![g] = @ \cup {p}]
    /\ UNCHANGED <<today, scheduleVars, closed, tasks, loaded, left, eraseVars, moves,
                   failures, late>>

Ends(g) ==
    /\ loaded' = [loaded EXCEPT ![g] = Nothing]
    /\ left' = [left EXCEPT ![g] = {}]
    /\ todo' = [todo EXCEPT ![g] = {}]
    /\ made' = [made EXCEPT ![g] = {}]
    /\ late' = [s \in Schedules |-> late[s] \ {g}]

New(p) == [schedule |-> p[1], orig |-> p[2], born |-> moves, at |-> p[2],
           state |-> "scheduled"]

\* The unit of work commits.
TickCommit(g) ==
    /\ Ticking(g) /\ left[g] = {} /\ todo[g] = {}
    /\ tasks' = tasks \cup {New(p) : p \in made[g]}
    /\ Ends(g)
    /\ UNCHANGED <<today, scheduleVars, closed, eraseVars, moves, failures>>

\* A hook or a subscriber raises and the workspace's savepoint is rolled back, or
\* the process dies.
TickFail(g) ==
    /\ Ticking(g) /\ failures < MaxFailures
    /\ failures' = failures + 1
    /\ Ends(g)
    /\ UNCHANGED <<today, scheduleVars, closed, tasks, eraseVars, moves>>

DayPasses ==
    /\ today < LastDay /\ today' = today + 1
    /\ UNCHANGED <<scheduleVars, closed, tasks, tickVars, eraseVars, moves, failures, late>>

-----------------------------------------------------------------------------

Edit(s) ==
    \/ CreateSchedule(s)
    \/ \E b \in Bodies : UpdateSchedule(s, b)
    \/ PauseSchedule(s)
    \/ ResumeSchedule(s)

GoOn(g) ==
    \/ \E s \in Schedules : TickExpand(g, s)
    \/ \E p \in todo[g] : TickInsert(g, p)
    \/ TickCommit(g)

GenNext ==
    \/ \E s \in Schedules : Edit(s)
    \/ \E m \in Managers : DeleteCommit(m) \/ DeleteAbort(m) \/ \E s \in Schedules : DeleteRead(m, s)
    \/ \E d \in Closable : ToggleClosure(d)
    \/ \E x \in tasks : LeaveTask(x) \/ \E d \in Days : MoveTask(x, d)
    \/ \E g \in Generators : TickLoad(g) \/ GoOn(g) \/ TickFail(g)
    \/ DayPasses

GenSpec == GenInit /\ [][GenNext]_genVars

\* The hourly job keeps firing and its transaction goes on; nothing else need happen.
GenFairSpec ==
    /\ GenSpec
    /\ \A g \in Generators : WF_genVars(TickLoad(g)) /\ WF_genVars(GoOn(g))

-----------------------------------------------------------------------------
(* Properties.                                                             *)

GenTypeOK ==
    /\ today \in Nat
    /\ status \in [Schedules -> {"absent", "live", "deleted"}]
    /\ paused \in [Schedules -> BOOLEAN]
    /\ body \in [Schedules -> Bodies]
    /\ closed \subseteq Days
    /\ tasks \subseteq Tasks
    /\ loaded \in [Generators -> [Schedules -> Bodies \cup {NoBody}]]
    /\ left \in [Generators -> SUBSET Schedules]
    /\ todo \in [Generators -> SUBSET (Schedules \X Days)]
    /\ made \in [Generators -> SUBSET (Schedules \X Days)]
    /\ erasing \in [Managers -> Schedules \cup {NoSchedule}]
    /\ saw \in [Managers -> SUBSET Tasks]
    /\ moves \in 0..MaxMoves
    /\ failures \in Nat
    /\ late \in [Schedules -> SUBSET Generators]

\* However ticks, edits and moves overlap, a schedule has one task at a time, and an
\* occurrence one task that has not been moved away from it.
OccurrencesAreSingle ==
    \A x, y \in tasks :
        /\ x.schedule = y.schedule
        /\ x.at = y.at \/ (x.orig = y.orig /\ x.at = x.orig /\ y.at = y.orig)
        => x = y

Active(s) == status[s] = "live" /\ ~paused[s]
Queue(s) == {x \in tasks : x.schedule = s /\ x.state = "scheduled"}

\* A paused or deleted schedule is given tasks by no tick but one that loaded it
\* before; and the deletion leaves none in its queue that it could see.
QuietSchedulesStayQuiet ==
    [][\A s \in Schedules :
          /\ ~Active(s) /\ (\E x \in tasks' : x.schedule = s /\ \A y \in tasks : ~Same(x, y)) =>
                \E g \in late[s] : loaded[g][s] # NoBody /\ loaded'[g] = Nothing
          /\ status[s] # "deleted" /\ status'[s] = "deleted" =>
                \E m \in Managers : erasing[m] = s
                                      /\ \A x \in Queue(s)' : \A y \in saw[m] : ~Same(x, y)]_genVars

\* An occurrence in the active range, before the horizon and on an open day.
Due(s, d) ==
    /\ Active(s) /\ body[s].placed
    /\ body[s].from <= Local(s) /\ Local(s) <= body[s].until
    /\ d \in body[s].days \ closed
    /\ body[s].from <= d /\ d <= body[s].until /\ d <= Local(s) + Horizon

\* What is and stays due has a task in the end, whichever ticks fail or are late.
OccurrencesAreMaterialised ==
    \A s \in Schedules, d \in Days : Due(s, d) ~> ~Due(s, d) \/ Taken(s, d)
=============================================================================
