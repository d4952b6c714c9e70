----------------------------- MODULE Inventory ------------------------------
(***************************************************************************)
(* The stock of one property (app/domain/inventory): items whose on_hand   *)
(* is moved by API records, adjustments to an observed count, the effects  *)
(* of completed tasks, transfers and stocktakes (movement_service.py,      *)
(* stocktake_service.py), and the check that opens one restock task for an *)
(* item at its reorder point (reorder_service.py), run hourly and after    *)
(* every movement (app/worker/tasks/inventory_reorder.py).                 *)
(*                                                                         *)
(* A transaction locks the items it touches one after the other and holds  *)
(* them until it commits; what it writes is seen by nobody before.  Items  *)
(* are locked in the order of their ids, but for the effects of a task.    *)
(***************************************************************************)
EXTENDS Integers, Sequences, FiniteSets

CONSTANTS
    Items,          \* inventory_item rows, named by the order of their ids
    Takes,          \* inventory_stocktake rows
    Clients,        \* requests, each with one operation
    MayDo,          \* MayDo[c]: the kinds of operation that request c may be
    Checkers,       \* processes that run the reorder check
    Observed,       \* counts that a stocktake line or an adjustment reports
    InitialStock,
    ReorderPoint,
    Tracked,        \* items that have a reorder point
    MaxStockFaults  \* bound on crashes

WorkKinds == {"record", "adjust", "effects", "transfer", "commit"}

ASSUME InventoryAssumption ==
    /\ IsFiniteSet(Items) /\ Items \subseteq Nat /\ Observed \subseteq Nat /\ Tracked \subseteq Items
    /\ InitialStock \in Nat /\ ReorderPoint \in Nat /\ MaxStockFaults \in Nat
    /\ Clients \cap Checkers = {} /\ MayDo \in [Clients -> SUBSET WorkKinds]

VARIABLES
    stock,      \* stock[i]: on_hand, as committed
    active,     \* items that are not archived
    take,       \* take[s]: its status and its draft lines
    restocks,   \* restocks[i]: open restock tasks of item i
    changed,    \* items whose InventoryItemChanged waits for its subscriber
    work,       \* work[c]: the transaction of c
    stockFaults

stockVars == <<stock, active, take, restocks, changed, work, stockFaults>>

NotCounted == -1
NoLines == [i \in Items |-> NotCounted]
Lines(s) == {i \in Items : take[s].lines[i] # NotCounted}

NoDelta == [i \in Items |-> 0]
IdleWork == [kind |-> "none", todo |-> <<>>, held |-> {}, q |-> 0, counts |-> NoLines, take |-> {},
             delta |-> NoDelta, opens |-> {}]

InventoryInit ==
    /\ stock = [i \in Items |-> InitialStock]
    /\ active = Items
    /\ take = [s \in Takes |-> [status |-> "open", lines |-> NoLines]]
    /\ restocks = [i \in Items |-> 0]
    /\ changed = {}
    /\ work = [c \in Clients \cup Checkers |-> IdleWork]
    /\ stockFaults = 0

\* The items of S in the order of their ids.
InOrder(S) ==
    CHOOSE q \in [1 .. Cardinality(S) -> S] : \A m, n \in 1 .. Cardinality(S) : m < n => q[m] < q[n]

HeldByOther(c, i) == \E d \in DOMAIN work \ {c} : i \in work[d].held
TakeLocked(s) == \E c \in Clients : s \in work[c].take
Low(i) == i \in active \cap Tracked /\ stock[i] <= ReorderPoint

Begins(c, kind, todo, q, counts, takes) ==
    /\ work[c].kind = "none"
    /\ c \in Clients => kind \in MayDo[c]
    /\ work' = [work EXCEPT ![c] = [IdleWork EXCEPT !.kind = kind, !.todo = todo, !.q = q,
                                        !.counts = counts, !.take = takes]]

-----------------------------------------------------------------------------
(* Requests.                                                               *)

\* record, restock, consume and produce: one item, one signed quantity.
Record(c, i, q) ==
    /\ Begins(c, "record", <<i>>, q, NoLines, {})
    /\ UNCHANGED <<stock, active, take, restocks, changed, stockFaults>>

\* adjust_to_observed
Adjust(c, i, q) ==
    /\ Begins(c, "adjust", <<i>>, 0, [NoLines EXCEPT ![i] = q], {})
    /\ UNCHANGED <<stock, active, take, restocks, changed, stockFaults>>

\* _default_inventory_apply: a task consumes the items of its template's
\* effects, in the template's order.
Effects(c, order) ==
    /\ Begins(c, "effects", order, -1, NoLines, {})
    /\ UNCHANGED <<stock, active, take, restocks, changed, stockFaults>>

\* transfer: both items are locked, in order, before either is moved.
Transfer(c, source, destination) ==
    /\ source # destination
    /\ Begins(c, "transfer", InOrder({source, destination}), source, NoLines, {})
    /\ UNCHANGED <<stock, active, take, restocks, changed, stockFaults>>

\* commit reads the stocktake and its lines without a lock.
CommitTakeUnlocked(c, s) ==
    /\ take[s].status = "open"
    /\ Begins(c, "commit", InOrder(Lines(s)), 0, take[s].lines, {s})
    /\ UNCHANGED <<stock, active, take, restocks, changed, stockFaults>>

\* commit: the stocktake is locked and still open, and its lines are read.
CommitTake(c, s) ==
    /\ ~TakeLocked(s)
    /\ take[s].status = "open"
    /\ Begins(c, "commit", InOrder(Lines(s)), 0, take[s].lines, {s})
    /\ UNCHANGED <<stock, active, take, restocks, changed, stockFaults>>

\* The quantity by which c's operation moves item i.
DeltaOf(c, i) ==
    CASE work[c].kind \in {"record", "effects"} -> work[c].q
      [] work[c].kind = "transfer" -> IF i = work[c].q THEN -1 ELSE 1
      [] work[c].kind \in {"adjust", "commit"} -> work[c].counts[i] - stock[i]
      [] work[c].kind = "check" -> 0

\* At the reorder point itself nothing is opened.
WantedBelow(i) == i \in active \cap Tracked /\ stock[i] < ReorderPoint /\ restocks[i] = 0

\* A check finds the item low and no restock task of it open.
Wanted(i) == Low(i) /\ restocks[i] = 0

\* What the transaction of c becomes once it has read its next item.
Reads(c, i) ==
    work' = [work EXCEPT ![c] =
        [work[c] EXCEPT !.todo = Tail(@), !.held = @ \cup {i}, !.delta[i] = @ + DeltaOf(c, i),
                        !.opens = IF work[c].kind = "check" /\ Wanted(i) THEN @ \cup {i} ELSE @]]

\* The items are read without FOR UPDATE.
ReadItemUnlocked(c) ==
    /\ work[c].todo # <<>>
    /\ Head(work[c].todo) \in active
    /\ Reads(c, Head(work[c].todo))
    /\ UNCHANGED <<stock, active, take, restocks, changed, stockFaults>>

\* SELECT ... FOR UPDATE of the next item waits for its holder and then reads
\* what it committed.
ReadItem(c) ==
    /\ work[c].todo # <<>>
    /\ ~HeldByOther(c, Head(work[c].todo))
    /\ Head(work[c].todo) \in active
    /\ Reads(c, Head(work[c].todo))
    /\ UNCHANGED <<stock, active, take, restocks, changed, stockFaults>>

\* A task's effect on an archived item is audited and skipped; the check does
\* not select it.
SkipItem(c) ==
    /\ work[c].kind \in {"effects", "check"} /\ work[c].todo # <<>>
    /\ Head(work[c].todo) \notin active
    /\ work' = [work EXCEPT ![c].todo = Tail(@)]
    /\ UNCHANGED <<stock, active, take, restocks, changed, stockFaults>>

\* A request is over when its transaction is; a checker can start again.
Ended(c, outcome) == IF c \in Clients THEN [IdleWork EXCEPT !.kind = outcome] ELSE IdleWork
Under(c) == work[c].kind \in WorkKinds \cup {"check"}

\* The movements, the stocktake's close and the restock tasks become visible
\* together, and the events of the movements are published after.
CommitWork(c) ==
    /\ Under(c) /\ work[c].todo = <<>>
    /\ stock' = [i \in Items |-> stock[i] + work[c].delta[i]]
    /\ take' = [s \in Takes |->
          IF s \in work[c].take THEN [status |-> "committed", lines |-> NoLines] ELSE take[s]]
    /\ restocks' = [i \in Items |-> IF i \in work[c].opens THEN restocks[i] + 1 ELSE restocks[i]]
    /\ changed' = changed \cup {i \in Tracked : work[c].delta[i] # 0}
    /\ work' = [work EXCEPT ![c] = Ended(c, "done")]
    /\ UNCHANGED <<active, stockFaults>>

\* A refusal rolls the whole request back: an archived item, a line whose
\* reason does not fit the sign of its delta, a count that changes nothing.
RefuseWork(c) ==
    /\ c \in Clients
    /\ Under(c)
    /\ work' = [work EXCEPT ![c] = Ended(c, "refused")]
    /\ UNCHANGED <<stock, active, take, restocks, changed, stockFaults>>

-----------------------------------------------------------------------------
(* Short transactions.                                                     *)

\* save_line waits for the stocktake and the item.
SaveLine(s, i, q) ==
    /\ ~TakeLocked(s) /\ take[s].status = "open"
    /\ i \in active /\ \A c \in DOMAIN work : i \notin work[c].held
    /\ take' = [take EXCEPT ![s].lines[i] = q]
    /\ UNCHANGED <<stock, active, restocks, changed, work, stockFaults>>

\* abandon_stale closes the stocktake without a movement.
Abandon(s) ==
    /\ ~TakeLocked(s) /\ take[s].status = "open"
    /\ take' = [take EXCEPT ![s] = [status |-> "abandoned", lines |-> NoLines]]
    /\ UNCHANGED <<stock, active, restocks, changed, work, stockFaults>>

\* archive and restore: the UPDATE waits for the item.
Archive(i) ==
    /\ \A c \in DOMAIN work : i \notin work[c].held
    /\ active' = IF i \in active THEN active \ {i} ELSE active \cup {i}
    /\ UNCHANGED <<stock, take, restocks, changed, work, stockFaults>>

\* The restock task is completed, skipped or cancelled.  A start that loaded it
\* before that would reopen it (TaskLifecycle): this module leaves that out.
CloseRestock(i) ==
    /\ restocks[i] > 0
    /\ restocks' = [restocks EXCEPT ![i] = @ - 1]
    /\ UNCHANGED <<stock, active, take, changed, work, stockFaults>>

-----------------------------------------------------------------------------
(* The reorder check, deadlocks and crashes.                               *)

\* The hourly check takes every item that has a reorder point ...
SweepItems(k) ==
    /\ Begins(k, "check", InOrder(active \cap Tracked), 0, NoLines, {})
    /\ UNCHANGED <<stock, active, take, restocks, changed, stockFaults>>

\* ... and the subscriber the one that a movement changed.
CheckChanged(k, i) ==
    /\ i \in changed
    /\ Begins(k, "check", <<i>>, 0, NoLines, {})
    /\ changed' = changed \ {i}
    /\ UNCHANGED <<stock, active, take, restocks, stockFaults>>

\* The transaction of c waits for the holder of an item.
Waits(c) == work[c].todo # <<>> /\ HeldByOther(c, Head(work[c].todo))

\* The database rolls back one of the transactions that wait for each other.
StockDeadlock(c) ==
    /\ Waits(c)
    /\ \E S \in SUBSET {d \in DOMAIN work : Waits(d)} :
          c \in S /\ \A x \in S : \E y \in S : Head(work[x].todo) \in work[y].held
    /\ work' = [work EXCEPT ![c] = Ended(c, "refused")]
    /\ UNCHANGED <<stock, active, take, restocks, changed, stockFaults>>

\* A process dies: its transaction rolls back and its events are never seen.
StockCrash(c) ==
    /\ stockFaults < MaxStockFaults /\ (c \in Checkers \/ Under(c))
    /\ stockFaults' = stockFaults + 1
    /\ work' = [work EXCEPT ![c] = Ended(c, "refused")]
    /\ changed' = {}
    /\ UNCHANGED <<stock, active, take, restocks>>

-----------------------------------------------------------------------------
ClientBegins(c) ==
    \/ \E i \in Items : Record(c, i, -1) \/ Record(c, i, 1)
    \/ \E i \in Items, q \in Observed : Adjust(c, i, q)
    \/ \E order \in {<<i>> : i \in Items} \cup {<<i, j>> : i, j \in Items} : Effects(c, order)
    \/ \E i, j \in Items : Transfer(c, i, j)
    \/ \E s \in Takes : CommitTake(c, s)

WorkStep(c) == ReadItem(c) \/ SkipItem(c) \/ CommitWork(c)

InventoryNext ==
    \/ \E c \in Clients : ClientBegins(c) \/ RefuseWork(c)
    \/ \E k \in Checkers : SweepItems(k) \/ \E i \in Items : CheckChanged(k, i)
    \/ \E c \in Clients \cup Checkers : WorkStep(c) \/ StockDeadlock(c) \/ StockCrash(c)
    \/ \E s \in Takes : Abandon(s) \/ \E i \in Items, q \in Observed : SaveLine(s, i, q)
    \/ \E i \in Items : Archive(i) \/ CloseRestock(i)

\* Requests end, the scheduler keeps the hourly check going, and the database
\* breaks deadlocks.
InventoryFairness ==
    /\ WF_stockVars(\E c \in Clients : WorkStep(c) \/ RefuseWork(c) \/ StockDeadlock(c))
    /\ \A k \in Checkers : WF_stockVars(WorkStep(k) \/ StockDeadlock(k))
    /\ WF_stockVars(\E k \in Checkers : SweepItems(k))

InventorySpec == InventoryInit /\ [][InventoryNext]_stockVars /\ InventoryFairness

-----------------------------------------------------------------------------
(* Properties.                                                             *)

\* Types; a closed stocktake has no draft lines left.
InventoryTypeOK ==
    /\ stock \in [Items -> Int] /\ active \subseteq Items
    /\ take \in [Takes -> [status : {"open", "committed", "abandoned"},
                           lines : [Items -> Observed \cup {NotCounted}]]]
    /\ \A s \in Takes : take[s].status # "open" => Lines(s) = {}
    /\ restocks \in [Items -> Nat] /\ changed \subseteq Items
    /\ \A c \in Clients \cup Checkers : work[c].held \subseteq Items /\ work[c].opens \subseteq Items
    /\ stockFaults \in 0 .. MaxStockFaults

\* Commits(c): this step commits the transaction of c.
Commits(c) == Under(c) /\ work'[c].kind = "done"

\* A stocktake that is committed is open until then and leaves every item it
\* counted at the count on its line, whatever moved since the count was saved;
\* an adjustment leaves its item at the observed count.
CountsHold ==
    [][\A c \in Clients : Commits(c) =>
         /\ \A s \in work[c].take :
               take[s].status = "open" /\ \A i \in Lines(s) : stock'[i] = take[s].lines[i]
         /\ work[c].kind = "adjust" => \A i \in work[c].held : stock'[i] = work[c].counts[i]]_stockVars

\* Checks of several processes, hourly and after movements, never leave an
\* item with two open restock tasks.
OneOpenRestock == \A i \in Items : restocks[i] <= 1

\* An item at its reorder point gets a restock task, however the events of its
\* movements are lost and its checks are rolled back.
LowIsRestocked == \A i \in Tracked : []<>(Low(i) => restocks[i] > 0)
=============================================================================
