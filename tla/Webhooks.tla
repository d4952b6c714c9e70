------------------------------ MODULE Webhooks ------------------------------
(***************************************************************************)
(* Outbound webhooks: subscriptions and their delivery log                 *)
(* (app/domain/integrations/webhooks.py over                               *)
(* app/adapters/db/integrations/repositories.py) and the worker tick that  *)
(* POSTs due deliveries (app/worker/tasks/webhook_dispatch.py).            *)
(*                                                                         *)
(* A tick pauses unhealthy subscriptions in one unit of work, selects the  *)
(* due deliveries in a second one, and handles each of them in a unit of   *)
(* work of its own that spans the POST.  Managers edit subscriptions in    *)
(* between, dispatchers of several processes overlap, and any of them may  *)
(* die between the POST and its commit.                                    *)
(*                                                                         *)
(* Time is what the code tells apart: whether a retry window has opened    *)
(* and whether an attempt lies in the health window.                       *)
(***************************************************************************)
EXTENDS Naturals, FiniteSets

CONSTANTS
    Subs,           \* webhook_subscription ids, each created at most once
    Deliveries,     \* webhook_delivery ids, each minted at most once
    Dispatchers,    \* scheduler processes running the dispatcher's tick
    MaxAttempts,    \* Len(RETRY_SCHEDULE_SECONDS)
    MinDeliveries,  \* webhook_health_min_deliveries
    MaxCrashes,     \* bound on the process deaths considered
    DecryptFails,   \* whether a subscription's secret may fail to decrypt
    DemoMode        \* settings.demo_mode

ASSUME AttemptsAssumption == MaxAttempts \in Nat \ {0}
ASSUME MinDeliveriesAssumption == MinDeliveries \in Nat \ {0}
ASSUME CrashesAssumption == MaxCrashes \in Nat
ASSUME ModesAssumption == DecryptFails \in BOOLEAN /\ DemoMode \in BOOLEAN

Pending == "pending"
Terminal == {"succeeded", "dead_lettered", "suppressed_demo"}

\* How a POST ends: 2xx; a 4xx other than 408 and 429; any other status; no
\* response, though the receiver processed the payload.
Outcomes == {"ok", "refused", "transient", "timeout"}

Absent == [status |-> "absent"]

Rows == [sub : Subs, status : {Pending} \cup Terminal, attempt : Nat,
         next : {"null", "waiting", "due"},    \* next_attempt_at
         code : {"none", "ok", "refused", "transient"}, \* last_status_code
         recent : BOOLEAN]                     \* last_attempted_at in the window

VARIABLES
    sub,        \* sub[s]: "unborn", "active", "disabled", "paused" or "deleted"
    row,        \* row[d]: the delivery's row, or Absent
    born,       \* deliveries minted so far
    pc,         \* pc[w]: where the tick of dispatcher w is
    candidates, \* candidates[w]: unhealthy subscriptions w has read
    due,        \* due[w]: the due ids that w selected and has yet to handle
    flight,     \* flight[w]: what w loaded and how its POST ended
    crashes,    \* process deaths so far
    \* History, read by the properties only.
    posts,      \* posts[d]: POSTs made for d
    accepted,   \* deliveries that the receiver has processed
    audits,     \* audits[d]: dead_lettered audit rows of d
    evidence,   \* subscriptions attempted since they were last made active
    ticked,     \* dispatchers that have begun a tick
    stragglers  \* stragglers[d]: who had a POST in the air as d became terminal

subVars == <<sub, evidence>>
rowVars == <<row, born, audits>>
tickVars == <<pc, candidates, due, flight, stragglers>>
pastVars == <<posts, accepted, ticked>>
vars == <<subVars, rowVars, tickVars, pastVars, crashes>>

NoFlight == [status |-> "none"]
Columns == {"status", "attempt", "code", "next"}
Flights == [d : Deliveries, attempt : Nat, outcome : Outcomes,
            dirty : SUBSET Columns]   \* columns that the flush will write

Init ==
    /\ sub = [s \in Subs |-> "unborn"]
    /\ row = [d \in Deliveries |-> Absent]
    /\ born = {}
    /\ pc = [w \in Dispatchers |-> "idle"]
    /\ candidates = [w \in Dispatchers |-> {}]
    /\ due = [w \in Dispatchers |-> {}]
    /\ flight = [w \in Dispatchers |-> NoFlight]
    /\ crashes = 0
    /\ posts = [d \in Deliveries |-> 0]
    /\ accepted = {}
    /\ audits = [d \in Deliveries |-> 0]
    /\ evidence = {}
    /\ ticked = {}
    /\ stragglers = [d \in Deliveries |-> {}]

Exists(s) == sub[s] \in {"active", "disabled", "paused"}

-----------------------------------------------------------------------------
(* The service layer: one request, one unit of work.                       *)

CreateSubscription(s, active) ==
    /\ sub[s] = "unborn"
    /\ sub' = [sub EXCEPT ![s] = IF active THEN "active" ELSE "disabled"]
    /\ UNCHANGED <<evidence, rowVars, tickVars, pastVars, crashes>>

\* update_subscription(active=True) clears the pause, active=False keeps it.
UpdateSubscription(s, active) ==
    /\ Exists(s)
    /\ sub' = [sub EXCEPT ![s] =
                  CASE active          -> "active"
                    [] sub[s] = "paused" -> "paused"
                    [] OTHER           -> "disabled"]
    /\ evidence' = IF active THEN evidence \ {s} ELSE evidence
    /\ UNCHANGED <<rowVars, tickVars, pastVars, crashes>>

EnableSubscription(s) ==
    /\ Exists(s)
    /\ sub' = [sub EXCEPT ![s] = "active"]
    /\ evidence' = evidence \ {s}
    /\ UNCHANGED <<rowVars, tickVars, pastVars, crashes>>

\* ON DELETE CASCADE takes the delivery log along.
DeleteSubscription(s) ==
    /\ Exists(s)
    /\ sub' = [sub EXCEPT ![s] = "deleted"]
    /\ row' = [d \in Deliveries |->
                  IF row[d] # Absent /\ row[d].sub = s THEN Absent ELSE row[d]]
    /\ UNCHANGED <<evidence, born, audits, tickVars, pastVars, crashes>>

InsertDelivery(d, s) ==
    /\ d \notin born
    /\ born' = born \cup {d}
    /\ row' = [row EXCEPT ![d] =
                  [sub |-> s, attempt |-> 0, code |-> "none", recent |-> FALSE,
                   status |-> IF DemoMode THEN "suppressed_demo" ELSE Pending,
                   next |-> IF DemoMode THEN "null" ELSE "due"]]
    /\ UNCHANGED <<subVars, audits, tickVars, pastVars, crashes>>

\* enqueue fans an event out, to active subscriptions only: one row for each.
Enqueue(d, s) == sub[s] = "active" /\ InsertDelivery(d, s)

\* The replayed row goes back to the queue itself.
ReplayInPlace(source, d) ==
    /\ row[source] # Absent /\ ~DemoMode
    /\ row' = [row EXCEPT ![source].status = Pending, ![source].next = "due",
                          ![source].attempt = 0]
    /\ UNCHANGED <<subVars, born, audits, tickVars, pastVars, crashes>>

\* replay_delivery does not look at the subscription.
ReplayDelivery(source, d) ==
    /\ row[source] # Absent
    /\ InsertDelivery(d, row[source].sub)

-----------------------------------------------------------------------------
(* dispatch_due_webhooks: one tick of dispatcher w.                        *)

Goto(w, label) == pc' = [pc EXCEPT ![w] = label]

\* The threshold on the number of deliveries is dropped.
UnhealthyWithoutMinimum(s) ==
    \A d \in Deliveries : row[d] # Absent /\ row[d].sub = s => row[d].code # "ok"

\* At least MinDeliveries rows attempted in the health window and no 2xx.
Unhealthy(s) ==
    LET window == {d \in Deliveries : row[d] # Absent /\ row[d].sub = s /\ row[d].recent}
    IN  /\ Cardinality(window) >= MinDeliveries
        /\ \A d \in window : row[d].code # "ok"

TickBegin(w) ==
    /\ pc[w] = "idle"
    /\ candidates' = [candidates EXCEPT ![w] =
                         {s \in Subs : sub[s] = "active" /\ Unhealthy(s)}]
    /\ ticked' = ticked \cup {w}
    /\ Goto(w, "pause")
    /\ UNCHANGED <<subVars, rowVars, due, flight, stragglers, posts, accepted, crashes>>

\* Every candidate is paused, whatever became of it since it was read.
PauseUnhealthy(w) ==
    /\ pc[w] = "pause"
    /\ \A s \in candidates[w] : Exists(s)
    /\ sub' = [s \in Subs |-> IF s \in candidates[w] THEN "paused" ELSE sub[s]]
    /\ candidates' = [candidates EXCEPT ![w] = {}]
    /\ Goto(w, "select")
    /\ UNCHANGED <<evidence, rowVars, due, flight, stragglers, pastVars, crashes>>

\* A candidate is gone, its UPDATE matches no row: rollback, end of the tick.
PauseFails(w) ==
    /\ pc[w] = "pause"
    /\ \E s \in candidates[w] : ~Exists(s)
    /\ candidates' = [candidates EXCEPT ![w] = {}]
    /\ Goto(w, "idle")
    /\ UNCHANGED <<subVars, rowVars, due, flight, stragglers, pastVars, crashes>>

IsDue(d) == row[d] # Absent /\ row[d].status = Pending /\ row[d].next = "due"

\* Only rows that were never attempted are selected.
SelectFirstAttempts(w) ==
    /\ pc[w] = "select"
    /\ due' = [due EXCEPT ![w] = {d \in Deliveries : IsDue(d) /\ row[d].attempt = 0}]
    /\ Goto(w, "rows")
    /\ UNCHANGED <<subVars, rowVars, candidates, flight, stragglers, pastVars, crashes>>

SelectDue(w) ==
    /\ pc[w] = "select"
    /\ due' = [due EXCEPT ![w] = {d \in Deliveries : IsDue(d)}]
    /\ Goto(w, "rows")
    /\ UNCHANGED <<subVars, rowVars, candidates, flight, stragglers, pastVars, crashes>>

Handled(w, d) == due' = [due EXCEPT ![w] = @ \ {d}]

\* deliver finds no row (LookupError) or a terminal one, or cannot decrypt the
\* secret; the exceptions are swallowed and nothing is stamped.
SkipRow(w, d) ==
    /\ pc[w] = "rows" /\ d \in due[w]
    /\ row[d] = Absent \/ row[d].status \in Terminal \/ DecryptFails
    /\ Handled(w, d)
    /\ UNCHANGED <<subVars, rowVars, pc, candidates, flight, stragglers, pastVars, crashes>>

\* The row is marked in_flight for the time of the POST.
PostMarkingInFlight(w, d, outcome) ==
    /\ pc[w] = "rows" /\ d \in due[w]
    /\ row[d] # Absent /\ row[d].status \notin Terminal
    /\ row' = [row EXCEPT ![d].status = "in_flight"]
    /\ posts' = [posts EXCEPT ![d] = @ + 1]
    /\ accepted' = IF outcome \in {"ok", "timeout"} THEN accepted \cup {d} ELSE accepted
    /\ flight' = [flight EXCEPT ![w] =
                     [d |-> d, attempt |-> row[d].attempt, outcome |-> outcome,
                      dirty |-> {}]]
    /\ Goto(w, "stamp")
    /\ UNCHANGED <<subVars, born, audits, candidates, due, stragglers, ticked, crashes>>

\* The terminal status is looked at by the selection only.
PostUnchecked(w, d, outcome) ==
    /\ pc[w] = "rows" /\ d \in due[w]
    /\ row[d] # Absent
    /\ posts' = [posts EXCEPT ![d] = @ + 1]
    /\ accepted' = IF outcome \in {"ok", "timeout"} THEN accepted \cup {d} ELSE accepted
    /\ flight' = [flight EXCEPT ![w] =
                     [d |-> d, attempt |-> row[d].attempt, outcome |-> outcome,
                      dirty |-> {}]]
    /\ Goto(w, "stamp")
    /\ UNCHANGED <<subVars, rowVars, candidates, due, stragglers, ticked, crashes>>

\* deliver loads the row and POSTs it.  The cascade leaves no delivery without
\* its subscription, so subscription_missing is not reached.
Post(w, d, outcome) ==
    /\ pc[w] = "rows" /\ d \in due[w]
    /\ row[d] # Absent /\ row[d].status \notin Terminal
    /\ posts' = [posts EXCEPT ![d] = @ + 1]
    /\ accepted' = IF outcome \in {"ok", "timeout"} THEN accepted \cup {d} ELSE accepted
    /\ flight' = [flight EXCEPT ![w] =
                     [d |-> d, attempt |-> row[d].attempt, outcome |-> outcome,
                      dirty |-> {}]]
    /\ Goto(w, "stamp")
    /\ UNCHANGED <<subVars, rowVars, candidates, due, stragglers, ticked, crashes>>

\* _stamp_transient: whether the attempt just made exhausts the schedule.
ExhaustedOneLate(attempt) == attempt > MaxAttempts
Exhausted(attempt) == attempt >= MaxAttempts

\* Every response that is not a refusal counts as a success.
VerdictTrustingAnswers(outcome, attempt) ==
    CASE outcome \in {"ok", "transient"} -> "succeeded"
      [] outcome = "refused"             -> "dead_lettered"
      [] Exhausted(attempt)              -> "dead_lettered"
      [] OTHER                           -> Pending

\* _classify_response and the timeout branch: the status that follows.
Verdict(outcome, attempt) ==
    CASE outcome = "ok"      -> "succeeded"
      [] outcome = "refused" -> "dead_lettered"
      [] Exhausted(attempt)  -> "dead_lettered"
      [] OTHER               -> Pending

\* What the POST makes of the row.
Verdicted(f) ==
    LET status == Verdict(f.outcome, f.attempt + 1) IN
    [status |-> status, attempt |-> f.attempt + 1,
     code |-> IF f.outcome = "timeout" THEN "none" ELSE f.outcome,
     next |-> IF status = Pending THEN "waiting" ELSE "null"]

\* The columns a verdict changes in the row r.  A new retry time is never the
\* one in the row, and last_attempted_at is always written.
Changed(f, r) ==
    {c \in Columns : Verdicted(f)[c] # r[c]}
        \cup (IF Verdicted(f).status = Pending THEN {"next"} ELSE {})

\* Dispatchers whose POST of d is in the air or not yet committed.
Posted(w) == pc[w] \in {"stamp", "flush"}
InAir(d) == {w \in Dispatchers : Posted(w) /\ flight[w].d = d}

\* update_delivery_attempt reads the row again: get_delivery kept no mapped
\* object, so the verdict is compared with the row as it is after the POST.
Reread(w) ==
    LET f == flight[w] IN
    /\ pc[w] = "stamp"
    /\ row[f.d] # Absent
    /\ flight' = [flight EXCEPT ![w].dirty = Changed(f, row[f.d])]
    /\ Goto(w, "flush")
    /\ UNCHANGED <<subVars, rowVars, candidates, due, stragglers, pastVars, crashes>>

\* The row as the flush leaves it: the UPDATE names the changed columns only.
Written(r, f) ==
    LET v == Verdicted(f) IN
    [sub |-> r.sub, recent |-> TRUE,
     status  |-> IF "status"  \in f.dirty THEN v.status  ELSE r.status,
     attempt |-> IF "attempt" \in f.dirty THEN v.attempt ELSE r.attempt,
     code    |-> IF "code"    \in f.dirty THEN v.code    ELSE r.code,
     next    |-> IF "next"    \in f.dirty THEN v.next    ELSE r.next]

\* The flush and, for a dead letter, its audit row, then the commit.  Another
\* dispatcher may have committed since the re-read: its UPDATE held the row, and
\* this one waited for it.
Stamp(w) ==
    LET f == flight[w]
        written == Written(row[f.d], f)
    IN
    /\ pc[w] = "flush"
    /\ row[f.d] # Absent
    /\ row' = [row EXCEPT ![f.d] = written]
    /\ audits' = IF Verdicted(f).status = "dead_lettered"
                 THEN [audits EXCEPT ![f.d] = @ + 1] ELSE audits
    /\ evidence' = evidence \cup {row[f.d].sub}
    /\ stragglers' = [stragglers EXCEPT ![f.d] =
                         IF written.status \notin Terminal THEN {}
                         ELSE (IF row[f.d].status \in Terminal THEN @ ELSE InAir(f.d)) \ {w}]
    /\ flight' = [flight EXCEPT ![w] = NoFlight]
    /\ Handled(w, f.d)
    /\ Goto(w, "rows")
    /\ UNCHANGED <<sub, born, candidates, pastVars, crashes>>

\* The row is gone when it is read again (LookupError), or the UPDATE matches no
\* row: the unit of work is rolled back.
StampFails(w) ==
    /\ Posted(w)
    /\ row[flight[w].d] = Absent
    /\ stragglers' = [stragglers EXCEPT ![flight[w].d] = @ \ {w}]
    /\ flight' = [flight EXCEPT ![w] = NoFlight]
    /\ Handled(w, flight[w].d)
    /\ Goto(w, "rows")
    /\ UNCHANGED <<subVars, rowVars, candidates, pastVars, crashes>>

TickEnd(w) ==
    /\ pc[w] = "rows" /\ due[w] = {}
    /\ Goto(w, "idle")
    /\ UNCHANGED <<subVars, rowVars, candidates, due, flight, stragglers, pastVars, crashes>>

\* The process dies and is started again; the open unit of work is lost.
Crash(w) ==
    /\ pc[w] # "idle" /\ crashes < MaxCrashes
    /\ crashes' = crashes + 1
    /\ Goto(w, "idle")
    /\ candidates' = [candidates EXCEPT ![w] = {}]
    /\ due' = [due EXCEPT ![w] = {}]
    /\ flight' = [flight EXCEPT ![w] = NoFlight]
    /\ stragglers' = [d \in Deliveries |-> stragglers[d] \ {w}]
    /\ UNCHANGED <<subVars, rowVars, pastVars>>

-----------------------------------------------------------------------------
(* Time.                                                                   *)

RetryWindowOpens(d) ==
    /\ row[d] # Absent /\ row[d].next = "waiting"
    /\ row' = [row EXCEPT ![d].next = "due"]
    /\ UNCHANGED <<subVars, born, audits, tickVars, pastVars, crashes>>

LeavesHealthWindow(d) ==
    /\ row[d] # Absent /\ row[d].recent
    /\ row' = [row EXCEPT ![d].recent = FALSE]
    /\ UNCHANGED <<subVars, born, audits, tickVars, pastVars, crashes>>

-----------------------------------------------------------------------------

Request ==
    \/ \E s \in Subs :
          \/ \E active \in BOOLEAN : CreateSubscription(s, active) \/ UpdateSubscription(s, active)
          \/ EnableSubscription(s)
          \/ DeleteSubscription(s)
          \/ \E d \in Deliveries : Enqueue(d, s)
    \/ \E source, d \in Deliveries : ReplayDelivery(source, d)

Tick(w) ==
    \/ TickBegin(w)
    \/ PauseUnhealthy(w)
    \/ PauseFails(w)
    \/ SelectDue(w)
    \/ \E d \in Deliveries : SkipRow(w, d) \/ \E outcome \in Outcomes : Post(w, d, outcome)
    \/ Reread(w)
    \/ Stamp(w)
    \/ StampFails(w)
    \/ TickEnd(w)

Next ==
    \/ Request
    \/ \E w \in Dispatchers : Tick(w) \/ Crash(w)
    \/ \E d \in Deliveries : RetryWindowOpens(d) \/ LeavesHealthWindow(d)

Spec == Init /\ [][Next]_vars

-----------------------------------------------------------------------------
(* Properties.                                                             *)

TypeOK ==
    /\ sub \in [Subs -> {"unborn", "active", "disabled", "paused", "deleted"}]
    /\ row \in [Deliveries -> Rows \cup {Absent}]
    /\ born \in SUBSET Deliveries
    /\ pc \in [Dispatchers -> {"idle", "pause", "select", "rows", "stamp", "flush"}]
    /\ candidates \in [Dispatchers -> SUBSET Subs]
    /\ due \in [Dispatchers -> SUBSET Deliveries]
    /\ flight \in [Dispatchers -> Flights \cup {NoFlight}]
    /\ crashes \in Nat
    /\ posts \in [Deliveries -> Nat]
    /\ accepted \in SUBSET Deliveries
    /\ audits \in [Deliveries -> Nat]
    /\ evidence \in SUBSET Subs
    /\ ticked \in SUBSET Dispatchers
    /\ stragglers \in [Deliveries -> SUBSET Dispatchers]

\* A terminal delivery is not POSTed, and only a dispatcher whose POST was in
\* the air when it became terminal can bring it back to the queue: its answer
\* asks for a retry and overwrites the one that settled the delivery.
OnlyStragglersReopen ==
    [][\A d \in Deliveries :
          row[d] # Absent /\ row[d].status \in Terminal =>
              \/ row'[d] = Absent
              \/ /\ posts'[d] = posts[d]
                 /\ \/ row'[d].status \in Terminal
                    \/ \E w \in stragglers[d] :
                          /\ w \in InAir(d) /\ w \notin InAir(d)'
                          /\ Verdicted(flight[w]).status = Pending]_vars

\* The log does not lie: a delivery marked succeeded was processed by the
\* receiver, a dead letter was attempted and audited.
TerminalIsEarned ==
    \A d \in Deliveries : row[d] # Absent =>
        /\ row[d].status = "succeeded" => d \in accepted
        /\ row[d].status = "dead_lettered" => posts[d] > 0 /\ audits[d] > 0

\* No third process has dispatched.
TwoDispatch == \A u, v, w \in ticked : u = v \/ v = w \/ u = w

\* A pending delivery keeps its place in the queue: it has a next attempt and
\* budget left for it, although two dispatchers write it over each other.  (Three
\* can mix the columns of their verdicts into a pending row without budget.)
PendingIsScheduled ==
    TwoDispatch => \A d \in Deliveries :
        row[d] # Absent /\ row[d].status = Pending =>
            row[d].next # "null" /\ row[d].attempt < MaxAttempts

\* What the log says of a delivery is true: of finished ones with any overlap of
\* dispatchers, of pending ones with any overlap of two.
LogIsHonest == TerminalIsEarned /\ PendingIsScheduled

\* No second process has dispatched.
OneDispatches == \A v, w \in ticked : v = w

\* As long as one process dispatches, the receiver sees a delivery at most
\* MaxAttempts times, and once more for every death between a POST and its
\* commit.
PostsAreBounded ==
    OneDispatches => \A d \in Deliveries : posts[d] <= MaxAttempts + crashes

\* As long as one process dispatches, a dead letter is audited exactly once,
\* and means a refusal or an exhausted schedule.
DeadLettersAreExact ==
    OneDispatches => \A d \in Deliveries : row[d] # Absent =>
        /\ audits[d] = IF row[d].status = "dead_lettered" THEN 1 ELSE 0
        /\ row[d].status = "dead_lettered" =>
              row[d].code = "refused" \/ row[d].attempt = MaxAttempts

\* As long as one process dispatches, a terminal delivery is not touched by
\* later ticks.
TerminalIsFinal ==
    [][\A d \in Deliveries :
          OneDispatches /\ row[d] # Absent /\ row[d].status \in Terminal =>
              \/ row'[d] = Absent
              \/ /\ [row'[d] EXCEPT !.recent = row[d].recent] = row[d]
                 /\ posts'[d] = posts[d]]_vars

\* As long as one process dispatches, an auto-paused subscription has at least
\* MinDeliveries deliveries that failed: a first attempt that succeeded never
\* counts.
PauseIsEarned ==
    OneDispatches => \A s \in Subs : sub[s] = "paused" =>
        MinDeliveries <= Cardinality({d \in Deliveries :
            /\ row[d] # Absent /\ row[d].sub = s
            /\ row[d].attempt > 0
            /\ ~(row[d].code = "ok" /\ row[d].attempt = 1)})

\* The accounting of one dispatcher, deaths, edits, replays and deletions
\* included: attempts, dead letters and pauses are exact until a second process
\* dispatches.
OneDispatcherIsExact == PostsAreBounded /\ DeadLettersAreExact /\ PauseIsEarned

\* Every pending delivery is eventually terminal or deleted with its
\* subscription, however often managers edit it and dispatchers die.
PendingIsResolved ==
    \A d \in Deliveries :
        (row[d] # Absent /\ row[d].status = Pending)
            ~> (row[d] = Absent \/ row[d].status \in Terminal)

\* The specification of webhooks says that POST /enable resumes a paused
\* subscription and re-opens its queue: the sweep pauses it again on evidence
\* that is newer, never on the failures it was paused for.
EnableOutlivesOldFailures ==
    [][\A s \in Subs : sub[s] = "active" /\ sub'[s] = "paused" => s \in evidence]_vars
=============================================================================
