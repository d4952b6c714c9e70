----------------------------- MODULE LlmBudget ------------------------------
(***************************************************************************)
(* The spending cap of one workspace (app/domain/llm/budget.py): the       *)
(* ledger row whose spent_cents caches the cost of the last 30 days, the   *)
(* llm_usage rows it is a cache of, the calls that check it before they    *)
(* leave and bump it when they return (the agent's turn in                 *)
(* app/domain/agent/runtime.py, LLMClient in app/domain/llm/client.py),    *)
(* and the 60-second refresh of app/worker/jobs/llm_budget.py.             *)
(*                                                                         *)
(* A turn checks once and then makes several calls.  Each call inserts its *)
(* usage row and bumps the ledger in the turn's open transaction, which    *)
(* keeps the ledger row locked until it commits; checks and the refresh's  *)
(* sum read committed data and take no lock.                               *)
(***************************************************************************)
EXTENDS Naturals

CONSTANTS
    Turns,          \* requests that call the model; a retried request is another one
    Correlations,   \* correlation ids
    CorrelationOf,  \* the id of each turn; a retry may present the id it had
    MaxCalls,       \* billed calls of each turn: one, or the agent's max_iterations
    Total,          \* Total[S]: what the attempts of S cost together
    Cap,            \* budget_ledger.cap_cents
    Projected,      \* the projected cost that a check adds
    Quotas,         \* the caps that the admin route stamps on the workspace
    Refreshers,     \* processes that run the refresh job
    MaxLlmFaults,   \* bound on crashed turns and failed refreshes
    NoOne

\* One row of llm_usage per (correlation id, attempt).
Attempts == UNION {{<<CorrelationOf[t], n>> : n \in 0 .. MaxCalls[t] - 1} : t \in Turns}

ASSUME TurnsAssumption ==
    CorrelationOf \in [Turns -> Correlations] /\ MaxCalls \in [Turns -> Nat] /\ NoOne \notin Turns
ASSUME TotalAssumption ==
    /\ Total \in [SUBSET Attempts -> Nat]
    /\ Total[{}] = 0
    /\ \A S, T \in SUBSET Attempts :
          S \cap T = {} => Total[S \cup T] = Total[S] + Total[T]
ASSUME CapAssumption ==
    Cap \in Nat /\ Projected \in Nat /\ Quotas \subseteq Nat /\ MaxLlmFaults \in Nat

VARIABLES
    used,       \* llm_usage: the attempts recorded and committed
    window,     \* those of the last 30 days
    spent,      \* budget_ledger.spent_cents, as committed
    quota,      \* the cap in workspace.quota_json
    holder,     \* the turn whose transaction holds the ledger row, or NoOne
    turn,       \* turn[t]: where turn t is
    calls,      \* calls[t]: the calls turn t has recorded
    tx,         \* tx[t]: the rows and the ledger value of its open transaction
    summing,    \* the refreshers that have summed the rows and not written yet
    summed,     \* summed[r]: the rows that refresher r summed
    llmFaults,  \* faults so far
    \* History, read by the properties only.
    counted,    \* the attempts whose cost is in spent
    raced,      \* attempts committed while some refresh was between sum and write
    admitted,   \* whether a check has passed
    unseen      \* recorded attempts that the last check that passed did not count

llmVars == <<used, window, spent, quota, holder, turn, calls, tx, summing, summed,
             llmFaults, counted, raced, admitted, unseen>>
ledgerVars == <<used, window, spent, counted, raced, unseen>>
refreshVars == <<summing, summed>>

EmptyTx == [rows |-> {}, ledger |-> 0]

\* The workspace was seeded with its ledger row.
LlmInit ==
    /\ used = {}
    /\ window = {}
    /\ spent = 0
    /\ quota = Cap
    /\ holder = NoOne
    /\ turn = [t \in Turns |-> "new"]
    /\ calls = [t \in Turns |-> 0]
    /\ tx = [t \in Turns |-> EmptyTx]
    /\ summing = {}
    /\ summed = [r \in Refreshers |-> {}]
    /\ llmFaults = 0
    /\ counted = {}
    /\ raced = {}
    /\ admitted = FALSE
    /\ unseen = {}

LlmFault == llmFaults < MaxLlmFaults /\ llmFaults' = llmFaults + 1

-----------------------------------------------------------------------------
(* One turn.                                                               *)

\* The check leaves the projected cost out.
CheckActualOnly(t) ==
    /\ turn[t] = "new"
    /\ spent <= Cap
    /\ turn' = [turn EXCEPT ![t] = "open"]
    /\ admitted' = TRUE
    /\ unseen' = window \ counted
    /\ UNCHANGED <<used, window, spent, counted, raced, quota, holder, calls, tx, refreshVars, llmFaults>>

\* check_budget lets the call through: the cap is inclusive.
Check(t) ==
    /\ turn[t] = "new"
    /\ spent + Projected <= Cap
    /\ turn' = [turn EXCEPT ![t] = "open"]
    /\ admitted' = TRUE
    /\ unseen' = window \ counted
    /\ UNCHANGED <<used, window, spent, counted, raced, quota, holder, calls, tx, refreshVars, llmFaults>>

\* check_budget refuses: at the cap, or because another cap is reached (the
\* signup address's pool, the demo's day).
RefuseCall(t) ==
    /\ turn[t] = "new"
    /\ turn' = [turn EXCEPT ![t] = "done"]
    /\ UNCHANGED <<ledgerVars, quota, holder, calls, tx, refreshVars, llmFaults, admitted>>

\* The row that the call turn t is in will insert.
Attempt(t) == <<CorrelationOf[t], calls[t]>>

\* The ledger row as the statements of t's transaction see it.
Ledger(t) == IF holder = t THEN tx[t].ledger ELSE spent

\* record_usage: the call has returned, and its attempt is recorded already:
\* the unique index refuses the row and the ledger is left alone.
RecordDuplicate(t) ==
    /\ turn[t] = "open"
    /\ calls[t] < MaxCalls[t]
    /\ Attempt(t) \in used
    /\ calls' = [calls EXCEPT ![t] = @ + 1]
    /\ UNCHANGED <<ledgerVars, quota, holder, turn, tx, refreshVars, llmFaults, admitted>>

\* The ledger is read and written without the lock.
RecordUsageUnlocked(t) ==
    /\ turn[t] = "open"
    /\ calls[t] < MaxCalls[t]
    /\ Attempt(t) \notin used
    /\ \A u \in Turns \ {t} : Attempt(t) \notin tx[u].rows
    /\ holder' = t
    /\ tx' = [tx EXCEPT ![t] = [rows |-> @.rows \cup {Attempt(t)},
                                ledger |-> (IF @.rows = {} THEN spent ELSE @.ledger) + Total[{Attempt(t)}]]]
    /\ calls' = [calls EXCEPT ![t] = @ + 1]
    /\ UNCHANGED <<ledgerVars, quota, turn, refreshVars, llmFaults, admitted>>

\* record_usage: the insert waits for another transaction's row of the same
\* key, the bump for the lock on the ledger row.
RecordUsage(t) ==
    /\ turn[t] = "open"
    /\ calls[t] < MaxCalls[t]
    /\ Attempt(t) \notin used
    /\ \A u \in Turns \ {t} : Attempt(t) \notin tx[u].rows
    /\ holder \in {NoOne, t}
    /\ holder' = t
    /\ tx' = [tx EXCEPT ![t] = [rows |-> @.rows \cup {Attempt(t)},
                                ledger |-> Ledger(t) + Total[{Attempt(t)}]]]
    /\ calls' = [calls EXCEPT ![t] = @ + 1]
    /\ UNCHANGED <<ledgerVars, quota, turn, refreshVars, llmFaults, admitted>>

\* What a commit of turn t's transaction publishes.
Commit(t) ==
    /\ used' = used \cup tx[t].rows
    /\ window' = window \cup tx[t].rows
    /\ counted' = counted \cup tx[t].rows
    /\ raced' = IF summing = {} THEN raced ELSE raced \cup tx[t].rows
    /\ unseen' = unseen \cup tx[t].rows
    /\ spent' = Ledger(t)
    /\ holder' = IF holder = t THEN NoOne ELSE holder
    /\ tx' = [tx EXCEPT ![t] = EmptyTx]

\* commit_before_tool_dispatch: the turn commits between two calls.
CommitBeforeTool(t) ==
    /\ turn[t] = "open"
    /\ tx[t] # EmptyTx
    /\ Commit(t)
    /\ UNCHANGED <<quota, turn, calls, refreshVars, llmFaults, admitted>>

\* The reply, the timeout, the error bubble or the iteration cap ends the turn.
Finish(t) ==
    /\ turn[t] = "open"
    /\ Commit(t)
    /\ turn' = [turn EXCEPT ![t] = "done"]
    /\ UNCHANGED <<quota, calls, refreshVars, llmFaults, admitted>>

\* The transaction rolls back: the rows and the bump are lost together.
CrashTurn(t) ==
    /\ turn[t] = "open"
    /\ LlmFault
    /\ turn' = [turn EXCEPT ![t] = "done"]
    /\ holder' = IF holder = t THEN NoOne ELSE holder
    /\ tx' = [tx EXCEPT ![t] = EmptyTx]
    /\ UNCHANGED <<ledgerVars, quota, calls, refreshVars, admitted>>

-----------------------------------------------------------------------------
(* The refresh, the window and the operator.                               *)

\* A workspace without usage in the window is skipped, whatever it has spent.
SumActiveOnly(r) ==
    /\ r \notin summing
    /\ window # {}
    /\ summing' = summing \cup {r}
    /\ summed' = [summed EXCEPT ![r] = window]
    /\ UNCHANGED <<ledgerVars, quota, holder, turn, calls, tx, llmFaults, admitted>>

\* The job's pre-check skips an idle workspace; refresh_aggregate sums the rows.
Sum(r) ==
    /\ r \notin summing
    /\ ~(spent = 0 /\ window = {})
    /\ summing' = summing \cup {r}
    /\ summed' = [summed EXCEPT ![r] = window]
    /\ UNCHANGED <<ledgerVars, quota, holder, turn, calls, tx, llmFaults, admitted>>

\* refresh_aggregate's UPDATE waits for the ledger row.
WriteSum(r) ==
    /\ r \in summing
    /\ holder = NoOne
    /\ spent' = Total[summed[r]]
    /\ counted' = summed[r]
    /\ summing' = summing \ {r}
    /\ summed' = [summed EXCEPT ![r] = {}]
    /\ UNCHANGED <<used, window, raced, unseen, quota, holder, turn, calls, tx, llmFaults, admitted>>

\* The workspace's savepoint, or the tick, rolls back.
RefreshFails(r) ==
    /\ r \in summing
    /\ LlmFault
    /\ summing' = summing \ {r}
    /\ summed' = [summed EXCEPT ![r] = {}]
    /\ UNCHANGED <<ledgerVars, quota, holder, turn, calls, tx, admitted>>

\* A usage row leaves the 30-day window.
Age(a) ==
    /\ a \in window
    /\ window' = window \ {a}
    /\ UNCHANGED <<used, spent, counted, raced, unseen, quota, holder, turn, calls, tx, refreshVars, llmFaults, admitted>>

\* update_cap writes the workspace's quota and nothing else.
UpdateCap(q) ==
    /\ quota' = q
    /\ UNCHANGED <<ledgerVars, holder, turn, calls, tx, refreshVars, llmFaults, admitted>>

-----------------------------------------------------------------------------
TurnStep(t) ==
    \/ Check(t) \/ RefuseCall(t)
    \/ RecordDuplicate(t) \/ RecordUsage(t)
    \/ CommitBeforeTool(t) \/ Finish(t)

LlmNext ==
    \/ \E t \in Turns : TurnStep(t) \/ CrashTurn(t)
    \/ \E r \in Refreshers : Sum(r) \/ WriteSum(r) \/ RefreshFails(r)
    \/ \E a \in Attempts : Age(a)
    \/ \E q \in Quotas : UpdateCap(q)

\* A turn is bounded by its wall clock; the scheduler keeps the refresh going.
LlmFairness ==
    /\ \A t \in Turns : WF_llmVars(TurnStep(t))
    /\ \A r \in Refreshers : WF_llmVars(Sum(r)) /\ WF_llmVars(WriteSum(r))

LlmSpec == LlmInit /\ [][LlmNext]_llmVars /\ LlmFairness

-----------------------------------------------------------------------------
(* Properties.                                                             *)

LlmTypeOK ==
    /\ used \subseteq Attempts /\ window \subseteq used
    /\ spent \in Nat /\ quota \in Quotas \cup {Cap}
    /\ holder \in Turns \cup {NoOne}
    /\ turn \in [Turns -> {"new", "open", "done"}]
    /\ calls \in [Turns -> Nat]
    /\ tx \in [Turns -> [rows : SUBSET Attempts, ledger : Nat]]
    /\ summing \subseteq Refreshers
    /\ summed \in [Refreshers -> SUBSET Attempts]
    /\ llmFaults \in 0 .. MaxLlmFaults
    /\ counted \subseteq used /\ raced \subseteq used /\ unseen \subseteq used
    /\ admitted \in BOOLEAN

\* The cached aggregate is the cost of a set of recorded attempts, each once
\* however often it was retried, and the only attempts of the window it can
\* leave out were committed while a refresh was between its sum and its write.
AggregateIsExact ==
    /\ spent = Total[counted]
    /\ window \ counted \subseteq raced

\* What the window really cost exceeds the cap only by attempts that the last
\* check could not count: recorded after it by turns let in before, or lost to
\* a refresh that had summed already.
OvershootIsUnseen == admitted => Total[window] + Projected <= Cap + Total[unseen]

\* What the check reads is the cost of recorded attempts, and what it lets through
\* exceeds the cap only by what it could not read.
LedgerIsSound == AggregateIsExact /\ OvershootIsUnseen

\* Whatever crashes and races did to the cache, refreshes bring it back to the
\* cost of the window.
RefreshHeals == <>[](spent = Total[window])

\* What the admin route's docstring and the specification say of a new cap:
\* the next check obeys it.
AdmissionsObeyQuota ==
    [][\A t \in Turns : turn[t] = "new" /\ turn'[t] = "open" => spent + Projected <= quota]_llmVars
=============================================================================
