# A verification of crewday

crewday is a household-operations service: a FastAPI application over one SQL
database, an APScheduler worker (in the same process as the API or in processes
of its own), agents that act through the API on behalf of their users, and a web
client.  This directory holds TLA+ models of the parts of it where steps of
several requests, workers and processes interleave, TLC runs over small
instances of them, and TLAPS proofs for instances of every size.

Paths below are relative to `src/app/`.

## 1. The ground rules of the system

Every model is cut along the same lines, which are the code's:

* **The unit of work** (`adapters/db/session.py`) is one transaction of one
  SQLAlchemy session: commit at the end, rollback on an exception.  A step of a
  model is what becomes visible together: one commit, or one read.
* **Reads take no lock.** Rows are loaded by a plain SELECT and written at the
  flush, under READ COMMITTED: between the two anything may be committed.  There
  are few exceptions (an `ON CONFLICT` upsert, a UNIQUE constraint, an UPDATE
  with a condition) and the models say where they are.
* **The mapper writes what changed.** An UPDATE of a loaded object sets the
  columns whose value differs from the one loaded, by primary key.  Two requests
  that loaded the same row overwrite each other column by column.
* **An UPDATE of a deleted row** matches nothing; the flush raises and the unit of
  work is rolled back.
* **Every worker process has a scheduler of its own** (`worker/scheduler.py`).
  `max_instances=1` and the tick gate hold inside a process; two processes run the
  same job at the same time.
* **Events are published in the process**, in the publisher's unit of work
  (`events/bus.py`): a raising subscriber aborts the commit.

## 2. Inventory

| component | state it keeps | operations | what is hard about it | what makes it correct | model |
|---|---|---|---|---|---|
| idempotency replay cache (`api/middleware/idempotency.py`) | `idempotency_key` rows | lookup, handler, INSERT, re-read, TTL sweep | concurrent retries, a death between commit and answer, a sweep under a request | one response per key, never to another body, no re-execution of what was answered | `Idempotency`, `ReplayStore` |
| outbound webhooks (`domain/integrations/webhooks.py`, `worker/tasks/webhook_dispatch.py`) | subscriptions, the delivery log | CRUD, enqueue, replay, auto-pause, dispatch, retry, dead-letter | overlapping dispatchers without a claim, a POST whose outcome is lost, edits and deletes during a POST | verdicts are true and reopened only by a POST that was in the air, retries are bounded, nothing is forgotten | `Webhooks` |
| kill switch of the worker's jobs (`worker/job_state.py`, `wrap_job` in `worker/scheduler.py`) | `worker_heartbeat` rows | tick, record success or failure, reset, startup seeding | ticks of several processes, stale switches, failing writes | failures counted exactly, kills earned and audited, revival only by an operator or a straggler | `JobState` |
| approvals of agent actions (`domain/agent/approval.py`, `api/v1/approvals.py`, `worker/tasks/approval_ttl.py`) | `approval_request` rows | mint, approve with replay, deny, TTL sweep | the replay commits before the decision does; decisions and sweep overwrite each other | an action fires once, a shown result is real, decisions are final | `Approval` |
| task lifecycle (`domain/tasks/completion.py`, `worker/tasks/overdue.py`) | `occurrence` rows, their checklist, what completions append | start, complete, skip, cancel, reschedule, tick and untick, review, overdue sweep | unlocked transitions of one row against each other and the sweep | closed tasks stay closed, a completed row tells the truth, no completion is lost | `TaskLifecycle` |
| task templates, schedules, generator (`domain/tasks/schedules.py`, `worker/tasks/generator.py`, `domain/places/closure_service.py`) | `schedule` and `occurrence` rows, closures | create, edit, pause, resume and delete schedules; generate to a horizon; close days; move a task | two workers' ticks, ticks with a copy of what is edited, local dates against the UTC date | an occurrence is made once and in the end, a schedule that went quiet stays quiet | `Generator`; templates are data |
| inventory (`domain/inventory`, `worker/tasks/inventory_reorder.py`) | items with `on_hand`, movements, stocktakes, restock tasks | record, adjust, transfer, effects of a task, stocktake, archive, reorder check | items locked one by one, in two orders; checks by the hour and by event | a counted item ends at its count, one open restock task, a low item gets one | `Inventory` |
| LLM budget ledger (`domain/llm/budget.py`, `worker/jobs/llm_budget.py`) | `budget_ledger`, `llm_usage` rows | check, record, refresh, ageing, the admin's cap | check and spend are apart, the refresh sums without the lock | the cache is exact up to a racing refresh, the overshoot is the calls in flight | `LlmBudget` |
| LLM router, client, usage recorder | assignments, a cache | resolve, fall back, record | invalidation; providers are external | the chain is tried in order, each call recorded once | the recording in `LlmBudget`; the rest planned |
| agent runtime and relay | turns, relay requests | turn loop, gated call | answers are external | a gated call runs only when approved | the turn's transactions in `LlmBudget`; the rest planned |
| ownership of a workspace (`domain/identity/_owner_guard.py` and its callers) | memberships of the owners group, manager grants | add, remove, grant, revoke, remove a user | removals at once, two of three ways in guarded by a lock | somebody owns the workspace and can manage it | `OwnerGuard` |
| invitations and their links (`domain/identity/invite.py`, `auth/magic_link.py`, `worker/tasks/invite_ttl.py`) | `invite` and `magic_link_nonce` rows, passkeys, grants | invite, refresh, redeem, enrol, confirm, expire | two managers, a link presented twice, two ceremonies of one user, a sweep with copies | a link once, a passkey once and only for who proved the address, settled invitations stay | `Invitation` |
| sessions, API tokens, sign-up, recovery, email change | rows with an expiry | mint, consume, sweep | concurrent consumption | consumed once | planned (the link's claim is in `Invitation`) |
| web push queue (`worker/jobs/messaging_web_push.py`) | queue rows, device tokens | enqueue, claim, post, stamp, purge, unregister | processes and threads on one row, cascades, rollbacks of what was posted | no attempt is posted twice but after a rollback, every row is settled | `WebPush` |
| email retry, digest | queue rows | send, retry | as above | a bounded number of sends | planned |
| expenses and payroll (`domain/expenses`, `domain/payroll`, `api/v1/payroll.py`) | claims, pay periods, payslips with what they reimburse | edit and decide a claim, settle it by hand; open, move, lock, reopen, delete a period; issue, void, pay a payslip | only claims are locked; requests on periods and payslips check a copy and write later | a claim is paid once and closed by what paid it, a period is paid when its payslips are | `Payroll` |
| shifts, bookings, leave | rows with a status | state changes | duplicates | one open shift | planned, late |
| stays, assets and extraction, billing | rows with a status | polls, attempts | external services | attempts are bounded | planned, late |
| places, issues, instructions, comments, templates of text | rows | CRUD | nothing beyond single writes | | not modelled |
| tenancy and authorisation | none | filters, checks | | appear as guards of what is modelled | not modelled |
| adapters (database, storage, mail, LLM, iCal), web client, CLI, migrations | | I/O | | | not modelled |

`PROJECT.json` lists each with its sources, and under `hazards` every place where
the modelled code can go wrong in a way a test would hardly reach, with the
properties that cover it.

How the parts meet: a request passes the idempotency middleware before its
handler; a handler of an agent may queue an approval, whose decision replays the
handler's domain operation (a broadcast, a task's cancellation) in-process; the
worker's jobs (webhook dispatch, push dispatch, the sweeps of approvals, keys,
invitations and overdue tasks, the refresh of the ledger, the reorder check) run
under `wrap_job`, whose kill switch decides whether they run at all.  The models
are separate because the parts share no state but the database, and each part has
tables of its own; what one part sees of another is a guard or a choice (a body
that fails, a subscriber that raises, a job that eventually fires).

## 3. The modules

A module has the shape of its component: a variable per table or per place where
the code keeps something between two steps, `pc` for what an open request, tick or
sweep has done so far, an action per transaction or read.  Variables listed under
*History* are written by the model for the properties alone; no guard reads them.
Actions that stand before the one of almost the same name and differ from it in a
line (`PersistUpsert`, `PostUnchecked`, ...) are plausible bugs: replacing the
real definition by one of them must break the property that `PROJECT.json` names
under `mutants`.  Nothing else refers to them.

### Idempotency, ReplayStore

`table[k]` is the row of the pair (token, key); UNIQUE makes it one row at most.
A request passes through `dispatch`:

| step | code |
|---|---|
| `SendKeyed`, `SendOutside` | the scope test: header, method, exempt path, bearer token; bodies over the limit |
| `LookupHit`, `LookupMiss` | `_read_cached`; a hit answers with the stored response or a 409 |
| `HandlerCacheable`, `HandlerUncached` | `call_next`; a 5xx, a streamed or an oversized response is not kept |
| `Stamp`, `PersistInsert`, `PersistRefused`, `Return` | `_persist_cached`: the clock is read, then the INSERT commits or the constraint refuses it |
| `RereadWinner`, `RereadSwept` | the second read after an IntegrityError |
| `Crash` | the process dies or the client disconnects, at any step |
| `SweepBegin`, `SweepDelete` | `prune_expired_idempotency_keys`: a cutoff, later a DELETE with that cutoff |

The handler is one step: what it does is its own.  `ran` counts the keyed requests
whose handler was invoked.  A response is identified with the request that made it,
a body with its canonical hash.  `ReplayStore` is the abstraction that a client may
assume: a key is bound to a response in one atomic step, later requests with the
same body get that response, others are refused, and a binding may expire.
`ImplementsReplayStore` states that the middleware implements it under the mapping
at the end of `Idempotency`.

### Webhooks

`sub[s]` folds `active` and `paused_reason` of a subscription, `row[d]` is a line of
the delivery log.  The requests are `domain/integrations/webhooks.py`
(`CreateSubscription` .. `ReplayDelivery`), one commit each.  A dispatcher's tick is

    TickBegin -> PauseUnhealthy* -> SelectDue -> (SkipRow | Post -> Reread -> Stamp)* -> TickEnd

as in `dispatch_due_webhooks`: candidates to pause are read first and paused one
by one; the due ids are selected without claiming them; each is loaded, POSTed and
stamped in a transaction of its own.  `flight[w]` is what `deliver` holds between
its load and its flush.  The load keeps no mapped object (`get_delivery` returns a
frozen copy, `adapters/db/integrations/repositories.py:353`), so
`update_delivery_attempt` selects the row again after the POST (line 385): `Reread`
compares the verdict with the row as it is then (`Changed`), and `Stamp` is the
UPDATE of the columns that differ (`Written`), which waits for another dispatcher's
commit.  The late verdict of a slow POST therefore writes over a status that
another dispatcher has committed, a terminal one included; `stragglers[d]` remembers
who had a POST of `d` in the air as it became terminal.
`PauseFails` and `StampFails` are rows deleted meanwhile.  Time appears
as two switches on a row: `next` passes from `waiting` to `due` and `recent`
becomes false, in any order and at any moment.  This admits more behaviours than
a clock does, so a safety property that holds here holds with the real delays.
Signatures, rotation of secrets and payloads are data and are left out.

### JobState

`row` is what `worker_heartbeat` says of one job, jobs being independent.  A tick of
a process is `ReadSwitch` (or `ReadSwitchFails`: an error reads as alive),
`RunBody`, then `RecordSuccess` or `RecordFailure` (one upsert each) or
`RecordFails`.  `Start` is a process that comes up, with the seeding of the
heartbeat's own row; `ResetRead` and `ResetWrite` are the operator's command, whose
read and write are apart.  `healthy` is the upstream that the job's body needs.
The tick gate (a semaphore of the process) only delays ticks and is not modelled.

### Approval

`row` is one `approval_request`; different ones do not interact.  `Mint` is the
middleware that turns an agent's call into a row.  A call loads the row and
refuses a decided or expired one (`Load`), is refused (`Forbidden`), or goes on:
an approval replays the tool call in units of work of their own (`ReplayRead`,
`ReplayCommit`, `ReplayFails`) and then writes the decision (`ApproveCommit`); a
denial writes at once (`DenyCommit`).  `SweepSelect` and `SweepCommit` are the TTL
sweep.  Two tools are modelled, the two that a replay dispatches to a domain
operation of its own: `broadcast` skips the recipients who have the message and
checks no capability; `cancel_task` checks the caller's and reads the task first.

### TaskLifecycle

`row` is the part of an `occurrence` that the lifecycle moves (`state`,
`completed_at`, `completed_by_user_id`, `overdue_since`), `ticked` its required
checklist.  A request is `Load` (`_load_task`), `ReadItem` where the operation looks
at the checklist, and one write: `Start`, `Complete`, `Close` (skip and cancel),
`DeleteSchedule` (the cancellation of scheduled tasks when their schedule goes),
`Reschedule` (`update_task`), `Tick`, `Untick`.  `Merged` is the flush: columns that
differ from the loaded copy.  A completion is named by the request that made it,
which stands for its timestamp.  The sweep selects (`SweepSelect`) and flips by a
conditional UPDATE (`SweepFlip`, or `SweepSkip` if it matches nothing); a failure
rolls its workspace's savepoint back (`SweepAbort`).

### Generator

`status[s]`, `paused[s]` and `body[s]` are a schedule; a body is what an edit can
write: the days that the rule yields, the active range, whether there is a property.
`tasks` are the committed occurrence rows, with the day they were made for (`orig`)
and the day they are at (`at`, the code's `scheduled_for_local`).  A tick of process
`g` is one transaction:

| step | code |
|---|---|
| `TickLoad` | `_load_eligible_schedules`: `loaded[g]` are the copies that the tick works from |
| `TickExpand` | the next schedule: its closures are read now, its rule is expanded into `todo[g]` |
| `TickInsert` | the preflight SELECT and `INSERT .. ON CONFLICT DO NOTHING`; the row is in `made[g]` and nobody sees it, but the same key of another tick or PATCH waits |
| `TickCommit`, `TickFail` | the commit, or the rollback of the workspace's savepoint or of everything |

A deletion is `DeleteRead` (the tombstone's UPDATE, which locks the row, and the
SELECT of the scheduled tasks) and `DeleteCommit`; `saw[m]` is what it selected.
`MoveTask` is the PATCH of a task's time, with the partial UNIQUE index as its guard;
`LeaveTask` stands for what `TaskLifecycle` does to the row.  A day stands for a
local time.  `Skew` is how far the property's date is from the UTC date, by which the
SQL gate is wide.  `late` is history: the ticks that had a schedule loaded when it was
paused or deleted.

### LlmBudget

`used` are the committed `llm_usage` rows, one per attempt (a correlation id and a
number); `window` those of the last 30 days; `spent` is the ledger's cache of their
cost.  A turn of the agent is `Check`, then per call `RecordUsage` (or
`RecordDuplicate`: the row of that attempt exists, nothing is booked), in one
transaction that keeps the ledger's row locked until `CommitBeforeTool` or `Finish`,
or until `CrashTurn` undoes it.  The refresh job is `Sum` and `WriteSum`, apart and
without the lock at the sum.  `Age` is the window moving on, `UpdateCap` the admin's
route.  `Total` gives a set of attempts its cost; the proofs use only that it adds
up over disjoint sets.

### OwnerGuard

`owners` are the members of the system group, `live` the manager grants that are not
revoked.  A request loads (`LoadMember`, `LoadGrant`), takes the group's row lock and
counts (`GuardLeave`, `GuardRevoke`, or `Refuse`), and commits with the lock
(`CommitLeave`, `CommitRevoke`).  The removal of a user (`LoadUser`, `CommitRemove`)
counts the members without the lock and does not look at grants; `overlapped` and
`bypassed` remember when that could matter.

### WebPush

`queue[d]` is a row of `notification_push_queue`, `thread[p][d]` what process `p`
does with it.  `Claim`, `Post` and the stamp are one transaction: the claim is an
UPDATE whose condition is re-evaluated after waiting for the row's lock, and a
rollback or a crash undoes all three, but not the POST.  `RowFails` is an error that
leaves `deliver_push` and is swallowed by `_dispatch_one`: the errors of `requests`,
which are not the built-in ones caught in `worker/jobs/messaging_web_push.py:255`, or a
key that does not decode.  It may happen any number of times, and the row does not
count it.  A send has no timeout (line 238), so `Post` may never happen.  A device
that is gone has its token deleted (`BeginPurge`, `Purge`), which cascades row by row
(`Taken`) to the rows of other threads and may deadlock with their stamps
(`StampIsVictim`, `PurgeIsVictim`).

### Inventory

`work[c]` is a transaction: the items it has still to lock, those it holds, and what
it will write.  `Record`, `Adjust`, `Effects`, `Transfer` and `CommitTake` begin one,
`ReadItem` locks the next item and reads its stock, `CommitWork` writes.  The check
(`SweepItems` by the hour, `CheckChanged` after a movement) opens a restock task under
the lock of the item.  An event of a committed movement waits in `changed` and is
lost with its process (`StockCrash`).

### Payroll

`claim[c]` is the row of an expense claim with its purchase date and the period it is
attached to (`pin`), `period[p]` a pay period with its window, `slip[<<p, u>>]` the
payslip of user `u` in period `p`, of which `lists` are the claims that its
`components_json` reimburses.  A claim's requests lock its row up to their commit and
are one step each, except `Approve` and `Approved`: between the two the periods have
been read, which nobody locks.  A request on a period or a payslip is a check and a
write, and `job[r]` is what it holds in between:

| check | write | code |
|---|---|---|
| `CreatePeriod`, `UpdatePeriod`, `DeletePeriod`, `LockPeriod`, `ReopenPeriod` | `Created`, `Updated`, `Deleted`, `Locked`, `Reopened` | `domain/payroll/periods.py`; locking runs the recompute that drafts the payslips |
| `IssuePayslip`, `VoidPayslip` | `StatusSet` | `set_payslip_state` |
| `PayPayslip`, then `Reconcile` | `PayslipPaid` | `mark_payslip_paid_route`: load; drop what is no longer approved and look for other unpaid payslips; commit the payment, its claims and the period |

`Resolve` is where an approved claim is attached, `Reimbursable` what a payslip folds
and what its payment settles; the two are evaluated at different times.  `paidBy`,
`strayed` and `overlapped` are history: what has paid a claim, which claims were on a
payslip when its period was moved away from them, and whether two requests have been
beside one another when one of them wrote.

### Invitation

`state[i]`, `lapsed[i]` and `roleOf[i]` are the row of an invitation, `link[n]` the
nonce of one of its links, `enrolled` the users with a passkey, `granted` what they
hold in the workspace.  `call[c]` is what a request or a sweep holds between its first
read and its commit:

| step | code |
|---|---|
| `InviteLoad`, then `InviteInsert`, `InviteRefused` or `InviteRefresh` | `invite`: a new row, the UNIQUE constraint, or the pending row again with its open links deleted |
| `ClaimLink`, then `Redeem` or `ReleaseLink` | `consume_link` in `consume_invite_token`; an existing user without a session is refused by an exception, which rolls the claim back |
| `ConfirmLoad`, `Confirm` | `confirm_invite` |
| `EnrolLoad`, `EnrolLock`, `Enrol` | `register_invite_passkey_finish`: gates, the lock on the user and the second look, credential and activation in one commit |
| `PruneSelect`, `PruneCommit`, `PruneFails` | `prune_stale_invites` in `sweep_expired_invites` |

`Fits` and `Collides` are the constraints: one live grant per role, one row per
(address, state).  `late` is history: who holds a copy of an invitation from before
it was last settled or refreshed.

### The instances

`MCWorkspace` puts `JobState`, `LlmBudget`, `OwnerGuard`, `WebPush` and `Inventory`
into one specification, `MCDecisions` does so with `Approval` and `Invitation`,
`MCTasks` with `TaskLifecycle` and `Generator`, and `MCRequests` with `Idempotency` and
`Payroll`.  These parts share no state, so their product would say nothing more than each alone:
`moving` picks one at the start, and the others keep their initial state.  Each
part's fairness is its own, guarded by `moving`.

`MCTasks` checks one of the behaviours of `TaskLifecycle` that differ only in the
names of requests and users (`Renamed`): the model, its fairness and its properties
treat them alike, so this loses nothing, and unlike TLC's symmetry it is sound for
liveness.

`MCRequests` has no liveness property and uses TLC's symmetry.  Its money part has
three sizes that `moving` chooses from: a second period, a second user or a second
request, with `Considered` leaving out what the chosen size does not have.  In the cache
part one of the requests may die, raise or pass the cache by (`OneStrays`).

## 4. The runs

| run | instance | question |
|---|---|---|
| `requests` | *cache:* 3 requests of which one may die, raise or bypass the cache, 1 key, 2 bodies, TTL 1, clock to 2; *money:* 1 claim, windows between 3 instants, and either 2 periods, 2 users or 2 overlapping requests | is every answer right, and is the middleware an implementation of `ReplayStore`? is a claim closed by what paid it, and, when no requests overlap, paid once and with its period? |
| `idempotency_concurrent` | 2 requests, 1 body | does the handler run once for concurrent retries? *(violated)* |
| `webhooks` | 2 dispatchers, 2 deliveries (the second only while one process dispatches, which is also when deliveries leave the health window), budget 2, 1 death, secrets may fail to decrypt | exact accounting with one dispatcher, what survives two that overlap, and every pending delivery is resolved |
| `webhooks_enable` | 1 of each | does an enabled subscription stay enabled? *(violated)* |
| `decisions` | *approval:* broadcast or cancellation, 2 approvals and 2 denials, one of each by a caller who may cancel, 1 sweeper, 2 recipients, 1 failed sweep; *invitation:* one address invited twice, the first time with a refresh, 2 managers, 2 of the invitee's requests, 1 sweeper | decisions are real, signed and final, no second firing without overlap; links and enrolments are single and proven; what nobody decides is swept |
| `approval_twice` | 2 approvals, 1 denial | does an approval fire once? *(violated)* |
| `invite_expiry` | 2 addresses, one invited twice | is every invitation that lapses expired? *(violated)* |
| `tasks` | *life:* 3 requests, 2 users, 2 sweepers, 1 failure; *schedule:* 1 schedule with 2 bodies, 2 days of which one may close, 2 generating processes, 1 deletion at a time, a property west of UTC, 1 move, 1 failed tick | closed tasks, true completions, marks and checklist; the sweep notices; an occurrence is made once and in the end; quiet schedules stay quiet |
| `task_overlap` | 2 requests | is a displaced completion always in the audit? *(violated)* |
| `workspace` | *job:* 2 processes, 1 reset, thresholds 2 and 3, 2 faults; *llm:* 3 turns, one retrying another's id, one of 2 calls, 1 refresher, 1 fault; *owner:* 3 users, 3 grants, 2 requests; *push:* 2 pushers, 2 rows of 1 device, 2 attempts, 1 crash, rows that raise without bound; *stock:* 2 items, 2 clients, 2 checkers, 1 stocktake, 1 crash | kills earned and failures forgotten or fatal; the ledger exact and the overshoot unseen; an owner who manages; posts owed and rows settled; counts kept and low items restocked once |
| `job_state_recovery` | 2 processes, no faults | does a recovered job revive by itself? *(violated)* |
| `llm_cap` | 2 turns, 2 caps | does a lowered cap bind the next call? *(violated)* |

Why these bounds are enough to be interesting.  Three concurrent requests are the
least with a winner, a loser and a late one, and the runs about one contested row
(idempotency, task lifecycle, the ledger) have them; approvals and denials are two of
each, so that a straggler of either kind meets a finished race of the other.  One
key, one job, one approval, one task, one address: instances with different keys
share no variable, so a second one multiplies the states and adds no interaction (the
theorems of section 6 hold for any number); the one interaction there is, a sweep
rolled back by somebody else's invitation, is the run with two addresses.  An
address is invited twice because the constraints are about its second row.  Three
owners are the least of whom two can leave at once.  The retry budget, the failure
threshold and the TTL are small but above the point where first, middle and last
attempt are different cases.  The bound on deaths and faults is one or two because
each of them only returns an actor to its start.  The clock of the cache has
one tick inside the TTL and one beyond it.  The claim's purchase can be in a period, before
it or between two, and the second user's payslip is what keeps a period from being paid.  Two ticks overlap with each other and
with every edit of a schedule; two days are a horizon and what lies beyond it; the
property is west of UTC, where its range may end a day after the UTC date has left
it, which is the case that the wide gate is for (the proofs hold for either side).

`CHECK_DEADLOCK FALSE` is set where requests are finite: when all are made and all
ticks are at rest the system may stop.

### Fairness

* `webhooks`: the first dispatcher's tick goes on (an interval job of the scheduler; a
  POST has a timeout; a dead process is restarted by its supervisor, deaths being
  bounded), the retry delay elapses, and a secret that does not decrypt does so in
  the end (strong fairness of `Post`: an operator repairs the key; for a secret that
  never decrypts `deliver` raises on every tick and the row stays pending for good).
  No fairness on requests, none on a second process before its first tick.
* `workspace`: in each part the worker's jobs go on: ticks, the refresh, the push
  tick and its threads, the reorder check; time passes for a push; the database
  breaks a deadlock; a transaction that has begun ends, but for that of a push: its
  send owes nothing, since it has no timeout, and rows may raise for ever.
  `PushIsSettled` therefore excepts the behaviours in which a send hangs
  (`SendHangs`) and those in which rows keep raising (`RowsKeepRaising`).  The upstream and the
  operator are under no obligation; `SettlesOnceHealthy` assumes that the upstream
  stays healthy from some time on, `RefreshHeals` has finitely many turns.
* `decisions`: time passes for an approval (`Expire`) and the two sweeps go on; their
  failures are bounded.  No caller need ever decide or accept, and no invitation
  need lapse.
* `tasks`: the sweep job goes on, and so do the hourly ticks: they load whenever a
  schedule is eligible and their transactions go on; failures are bounded.  No
  request need be made or finish, no deletion need commit and no day pass.
  `OccurrencesAreMaterialised` asks only about what stays due.

## 5. What the violated runs show

Each of these checks a sentence of the code's own documentation.

* `ConcurrentRetriesRunHandlerOnce`: the docstring of the replay cache says that
  UNIQUE keeps concurrent retries from executing the handler twice.  The row is
  inserted after the handler; both run, and the loser answers with the winner's
  response.
* `EnableOutlivesOldFailures`: `POST /enable` is documented to re-open the queue.
  The health window still counts what the subscription was paused for, and the
  next tick pauses it again before it dispatches anything.
* `RecoversOnceHealthy`: `record_success` is documented to revive a job whose
  upstream came back.  A dead job's tick returns before its body, so it records
  nothing.
* `ApproveFiresOnce`: two overlapping approvals replay the call twice, and the later
  commit overwrites the earlier.
* `AdmissionsObeyQuota`: the route that lowers a workspace's cap is documented to take
  effect on the next call.  It writes `workspace.quota_json`; the check reads
  `budget_ledger.cap_cents`, which nothing copies it to.
* `LapsedIsExpired`: the scheduler's comment promises that the members' page converges
  within one tick of an invitation's time.  An address may have one `expired` row;
  when a second invitation of it lapses, the sweep's flush raises and rolls back
  everybody's expiries, on this tick and on every later one.  `LapsedAreExpired`, which
  makes this exception, holds.
* `DisplacedIsAudited`: the module and the specification say that of two
  overlapping completions the displaced one is named by a `complete_superseded`
  row.  Both loaded an open task, so neither knows of the other.

Other sentences disagree with the code and have no run, because the model reads
off the disagreement:

* the status `in_flight` of a delivery is never written
  (`adapters/db/integrations/models.py:61`);
* the row of the replay cache is not written "inside the same transaction" as the
  handler's (`adapters/db/ops/models.py:206`, `api/middleware/idempotency.py:619`);
* `reset_job`'s "clears both columns" is a write of what differs from a stale read, and
  two overlapping resets can let the count jump over the one value at which the kill
  is audited (`worker/job_state.py:337`);
* a denial can meet a replay that has fired (`domain/agent/approval.py:717`), and the
  TTL sweep can write over a fresh decision (`domain/agent/approval.py:892`);
* a completed row can keep `overdue_since` (`domain/tasks/completion.py:1210`), and a
  start is overwritten by the sweep because `in_progress` is flippable
  (`worker/tasks/overdue.py:25`);
* the removal of a user is said to "enforce the same invariant" as the removal of a
  member (`domain/identity/membership.py:275`), but counts without the lock and
  without the grants: it can take the last owner who is a manager away;
* the guard of the invitation sweep is said to keep a concurrent accept from being
  "clobbered" (`domain/identity/invite.py:937`), but looks at the sweep's own copy;
* a comment says that the link "was already spent" when an existing user is asked to
  sign in (`domain/identity/invite.py:1640`), but the exception rolls the claim
  back and the link stays open;
* an address can have one `accepted` row: the invitation of a former member can be
  sent and redeemed and never accepted (`adapters/db/identity/models.py:772`);
* the claim of a push does not look at `next_attempt_at`, so a process that waited for
  the row's lock makes the next attempt without its backoff
  (`adapters/db/messaging/repositories.py:1017`), and claim, post and stamp are one
  transaction, so no other one ever reads `in_flight`;
* a push is said to be rescheduled on a "network error / timeout" and dead-lettered
  after five (`worker/jobs/messaging_web_push.py:28`), but the errors of `requests` are
  swallowed with the row's transaction rolled back (line 446): they repeat on every
  tick, uncounted and without an end.  "The claim flipped `next_attempt_at` forward"
  (line 449) is rolled back as well.  A send that hangs keeps its row's lock and its tick;
* a dispatcher whose POST outlives another's reads the row again and writes its own
  verdict over it, so that a `succeeded` or `dead_lettered` delivery can become pending
  and be POSTed again (`adapters/db/integrations/repositories.py:385`).  No sentence
  denies it; `OnlyStragglersReopen` says that this is the only way;
* `refresh_aggregate`'s "not yet wired" is stale (`worker/jobs/llm_budget.py` calls it);
* an occurrence is "not yet materialized" (`docs/specs/06-tasks-and-scheduling.md:166`)
  by where its task is, not by what it was made for: the index and the preflight
  compare `scheduled_for_local`, so that the next tick makes a task again that a PATCH
  has moved away, and makes none where a PATCH has moved one to
  (`worker/tasks/generator.py:581`);
* deleting a schedule "cancels all `state = scheduled` tasks linked to it"
  (`docs/specs/06-tasks-and-scheduling.md:194`), but a tick that had loaded it, or a PATCH
  that moves a pending task ahead, puts scheduled tasks there afterwards; likewise
  "paused schedules do not generate new occurrences" (line 178) but in the tick that is
  running;
* the flip of a task from `scheduled` to `pending` an hour ahead, which the
  specification describes (line 272) and `domain/tasks/oneoff.py:1337` relies on the
  scheduler for, is done by no job;
* a stocktake with a line of an item archived since cannot be committed
  (`domain/inventory/stocktake_service.py:252`);
* the payment of a payslip is said to settle the claims that it reimburses
  (`adapters/db/payroll/repositories.py:1300`,
  `docs/specs/09-time-payroll-expenses.md:1110`), but asks again which claims fall into
  the period: one that was folded without being attached, and whose period was then
  reopened and moved, is paid out, stays approved and can be paid again.  These are
  the `strayed` claims that `BooksBalance` excepts;
* nothing keeps two requests on a period or a payslip apart: a claim can be settled by
  hand while a payslip that lists it is being paid, and two last payslips paid at once
  leave their period locked.  `BooksBalance` and `PeriodsFollowSlips` are therefore about
  requests that do not overlap; `ClosedIsPaid` and `ClaimsAreOneWay` hold for all.

## 6. What is proved

Eight modules hold theorems that the TLA+ proof system checks for all values of the
constants, under the assumptions named in the modules (the types of the constants,
a sentinel that is not an element, `RepeatedThreshold < DeadThreshold`).  Each
has one inductive invariant (`IInv`, or with the component's name), a lemma per conjunct saying that every step
preserves it, the theorem that it is one (`...Invariance`) and the theorems that follow from it.

* **IdempotencyProofs.** A row is the stored response of the request it names and
  lives until its TTL is over (`RowIsStored`, `StoredLivesForTtl`, with the sweep's
  cutoff never ahead of the clock); what was answered since the last deletion of a
  key is what the table holds (`AnswersAreCurrent`).  Hence `OneResponse`,
  `AnswersMatch`, `RetryIsSafe`, `OnlyExpiry`, and `SoundCache` of the first and the third.  `Refinement` proves that every
  step is a step of `ReplayStore` or a stutter.
* **WebhooksProofs.** What a dispatcher carries from its POST to its commit was
  POSTed, and accepted if it says so (`FlightIsPosted`); its attempt number was
  within the budget at the load.  A terminal status is earned by whoever wrote it, so
  the first half of `HonestLog` (`EarnedTerminals`) holds for any number of dispatchers.
  Whoever has a POST of a terminal delivery in the air is on record
  (`StragglersAreKnown`), hence `StragglersOnly`: nobody else brings it back.  A
  pending row is a mixture of the verdicts that were flushed into it, because an UPDATE
  names the columns that differed from a re-read that may be old by then.  Of two
  dispatchers the one that made a delivery terminal is done with it (`LoneStraggler`),
  and what the other found when it read again, and will not write, still stands (`RereadsStand`):
  `ScheduledPendings`, the second half.  With three, TLC finds a pending row
  without a next attempt, and the property is restricted to two (`TwoDispatch`).
  While one process dispatches, the row in the air is as it was loaded or deleted
  (`FlightsAreFresh`), every POST but that one is counted or its process has died
  (`PostsAreCounted`), deliveries are minted one by one, so that failures can be counted
  (`Minted`), and a delivery that has failed stays so when it leaves the health window,
  so that a pause outlives what it was found by (`CandidatesAreFailing`):
  `ExactAccounting`, `FinalTerminals`.
* **PayrollProofs.** Whatever overlaps, an approval holds its claim
  (`ApprovalsHoldClaims`), and what is folded was approved and never goes back
  (`FoldedWereApproved`): `OneWayClaims` and that closed claims are paid.  While nothing
  overlaps, what an open request has read is what the tables say (`JobsAreFresh`), a payslip
  settles the approved claims that it lists (`ListedAreSettled`), and the payslip that has
  paid a claim stays paid for as long as its period lives (`PaidOnce`).  `SoundPayroll`.
* **WorkspaceProofs**, about the parts of `MCWorkspace`.  Of `JobState`: the count is exact until a reset and never above the streak
  (`CountIsExact`, `CountWithinStreak`); whoever passed the switch before a kill is
  known (`StragglersAreKnown`).  `ExactCount`, `EarnedSwitch`.
  Of `LlmBudget`: a turn's open transaction holds rows that nobody has recorded,
  and the holder of the ledger's row knows the committed value plus its own rows
  (`HolderInv`); what was committed while a refresh was between sum and write is known
  (`SummingInv`).  With a cost that adds up over disjoint sets: `AggregateCorrectness`,
  `OvershootCorrectness`, together `SoundLedger`.
  Of `OwnerGuard`: whoever is past a guard holds the lock (`LockInv`), and its
  change leaves an owner and one who is a manager, whatever is added meanwhile
  (`LeavingInv`, `RevokingInv`, `RemovingInv`).  `OwnershipAlwaysRemains`.
  Of `WebPush`: a row in hand is pending, at its thread's attempt, and has one thread
  (`HeldIsPending`); a pending row has a token and attempts left (`PendingIsOwed`); and
  the posts of an attempt that is still to be stamped are those of the thread that has it
  (`PostsAreEarlier`).  A step lets a row go, keeps it in its thread's hands or stamps it, and the
  lemmas are about those three.  `OwedPosts`.
* **InventoryProofs**, about `Inventory` and the composition.  An item is held by one
  transaction (`HeldAlone`), which alone has moved it (`MovesAreHeld`) and opens its task
  (`OpensAreWanted`); a stocktake being committed is locked and its lines are those read
  (`TakesAreHeld`); a count reads each item once, in the order of their ids, and the delta
  it computed from a held item stands (`CountsAreRead`).  That the order exists for every finite set
  of items is proved from the well-foundedness of `<` and of strict inclusion
  (`OrderExists`, `InOrderEnumerates`).  `OneRestock`, `CountsStand`.
* **ApprovalProofs.** While no two replays overlap the one that is open has seen
  what was committed (`ReplaysAreSerial`, `SeenIsCommitted`); a decision about to be
  written has an earned result; those past their load at the first decision are
  known.  `FiresOnce`, `RealDecisions`, `FinalDecisions`.
* **TasksProofs**, about `TaskLifecycle` and `Generator`.  Times and users on rows and on copies are those of past
  completions (`TimesArePast`, `UsersAreReal`, `CompletedIsSigned`): a completion
  never finds its own time on its copy, so it always writes it.  Without overlap the
  one open copy is the row, up to a flip by the sweep (`SerialCopyIsCurrent`), and a
  completed task is only completed again (`SerialTasksAreClosed`).  What an open
  request can write is summed up once in `MoveFacts` and `CompleteFacts`, and the
  steps cite those.  `StragglersOnly`, `RealCompletion`, and `SoundSerialRequests`
  from `MarkedOverdue`, `KeptCompletions` and `TickedCompletions`.
  Of the generator: what a tick has inserted is free, its own and of a schedule that it
  has loaded (`MadeAreFree`, `WorkIsLoaded`), tasks are alone at their time
  (`SlotsAreSingle`), and whoever has a schedule loaded that is quiet now is known
  (`LateAreKnown`).  A commit makes only what was made (`NewTasksAreCommitted`).
  `SingleOccurrences`, `QuietSchedules`.
* **InvitationProofs.** A link is minted for a row that exists (`RowsComeFirst`) and
  claimed while open, by one (`ClaimsAreOpen`); who enrols has redeemed a link
  (`EnrollersRedeemed`) and, past the lock, is alone with a user without a passkey
  (`LockersHold`); a copy that nobody committed over is of a pending row that was not
  activated (`OpenAreInactive`, `CopiesAreCurrent`).  Frame lemmas say once which steps
  touch what, and the steps cite those.  `SingleUse`, `ProvenEnrolment`, `LeftByLate`.

The instances compose parts that share no variable.  `TasksKeepTypes`, `RequestsKeepTypes`,
`DecisionsKeepTypes` and `PartsKeepTypes` prove of each composition that every step is a
step or a stutter of each part, so that what is proved of the parts holds side by side.

The strengthenings are needed because the properties are about committed rows while
the steps write from loaded copies: what is true of a copy, and of an actor between
its load and its commit, has to be part of the invariant.

**Only model-checked.** Liveness (`PendingIsResolved`, `SettlesOnceHealthy`,
`RefreshHeals`, `PushIsSettled`, `LowIsRestocked`, `PendingIsDecided`,
`LapsedAreExpired`, `PastDueIsNoticed`, `OccurrencesAreMaterialised`): the prover does not do fairness or ENABLED.
Every safety property of the passing runs is stated by a theorem.
`RowsOnlyExpire` of the replay cache is the reverse: proved (`OnlyExpiry`), and no run checks
it, since `CacheIsSound` and the refinement break with it.

## 7. What is not modelled

* Of the modelled parts: the purge of old deliveries and the rotation of secrets;
  approvals' list routes and mode resolution; the tick gate and the job table of
  the scheduler; the review of completed tasks, the creation and closing of
  turnover tasks by stays, `revert_overdue` (nothing calls it), evidence (it is only
  appended); what a recurrence rule yields, tasks that are not of a schedule but for
  their life afterwards, the assignment of a new task (a hook; one that raises is
  `TickFail`), "apply to existing tasks" (it patches the assignee and the property),
  deletion of templates and properties, closures of a part of a day or of one unit,
  workspaces of expired demos, which ticks pass over; pricing and the
  pools per address and of demos; groups other than the owners; what an invitation
  carries besides a role, its introspection, and a subscriber of the sweep's events
  that raises (which would roll a sweep back as in `Approval`); item CRUD and
  reports; the reopening of a closed restock task by a straggling start, which
  `TaskLifecycle` allows and `OneOpenRestock` does not count (`CloseRestock` is one-way); claims in another currency than their author's payslips (they are never
  folded), the lines and receipts of a claim and their autofill, what a payslip
  adds up besides its claims (bookings, pay rules), its PDF and the exports.
  `enqueue` and `replay_delivery` have no caller in production but a test route
  (`api/v1/webhooks.py:367`), `abandon_stale` none but tests; they are modelled as
  requests at any time.  An invitation's state `revoked` is never written.
* SQLite: its writers are serialised and a stale writer fails, which the models
  have as an aborted request.  They are about PostgreSQL under READ COMMITTED.
* The other components of section 2.  The last three rows of its table keep no state
  that several actors move, or do I/O only.

## 8. Plan

The order is by what overlaps most and what would hurt most.

1. *Done:* `Idempotency` with `ReplayStore`, `Webhooks`, `JobState`, `Approval`,
   `TaskLifecycle`, `Generator`, `LlmBudget`, `OwnerGuard`, `Invitation`, `Payroll`, `WebPush`,
   `Inventory`, and their proofs.
2. The review decisions of `TaskLifecycle`, and the tasks that stays create through the
   turnover port, on `Generator`'s index.
3. The other purposes of a magic link on `Invitation`'s claim: sign-up, recovery,
   email change, with their own rows.
4. Shifts and bookings: one open shift, bookings that a locked period counts.
5. Where two components share an argument (the copy that a mapper writes back, the
   lock that a transaction holds until it ends) its lemmas move to a module of their own.
6. A composition of `JobState` and `TaskLifecycle`'s sweep: what a dead sweep job
   means for `PastDueIsNoticed`.

A new component's first instance joins the run of parts it resembles
(`workspace`, `decisions` or `tasks`), under `moving`, as long as the run stays within minutes.
