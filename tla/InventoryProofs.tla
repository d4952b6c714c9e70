-------------------------- MODULE InventoryProofs ---------------------------
(***************************************************************************)
(* Proofs about Inventory, for any items, stocktakes, requests and         *)
(* checkers: counts end at what was counted, and an item has one open      *)
(* restock task at most.  Then the five parts of the run workspace as they *)
(* are composed there.                                                     *)
(***************************************************************************)
EXTENDS MCWorkspace, WorkspaceProofs, FiniteSetTheorems, SequenceTheorems

-----------------------------------------------------------------------------
(* The order in which items are locked.                                    *)

Orders(S) ==
    {q \in [1 .. Cardinality(S) -> S] : \A m, n \in 1 .. Cardinality(S) : m < n => q[m] < q[n]}

LEMMA LeastElement ==
    ASSUME NEW S \in SUBSET Nat, S # {}
    PROVE  \E x \in S : \A y \in S : x <= y
<1>1. PICK x \in S : \A y \in S : ~ (<<y, x>> \in OpToRel(<, Nat))
  BY NatLessThanWellFounded, WFMin
<1>2. ASSUME NEW y \in S PROVE ~ (y < x)
  BY <1>1 DEF OpToRel
<1>. QED
  BY <1>2

\* A finite set of numbers can be enumerated in their order: a smallest
\* counterexample would have a least element, and be one without it.
LEMMA OrderExists ==
    ASSUME NEW S \in SUBSET Nat, IsFiniteSet(S)
    PROVE  Orders(S) # {}
<1>. DEFINE Bad == {T \in SUBSET S : Orders(T) = {}}
<1>1. SUFFICES ASSUME Bad # {} PROVE FALSE
  BY <1>1
<1>2. Bad \subseteq FiniteSubsetsOf(S)
  BY FS_Subset DEF FiniteSubsetsOf
<1>. HIDE DEF Bad
<1>3. PICK T \in Bad : \A U \in Bad : ~ (<<U, T>> \in StrictSubsetOrdering(S))
  BY <1>1, <1>2, WFMin, FS_StrictSubsetOrderingWellFounded
<1>4. T \in SUBSET S /\ Orders(T) = {} /\ IsFiniteSet(T)
  BY <1>3, FS_Subset DEF Bad
<1>5. CASE T = {}
  <2>1. [m \in 1 .. 0 |-> m] \in [1 .. 0 -> {}]
    OBVIOUS
  <2>. QED
    BY <1>4, <1>5, <2>1, FS_EmptySet DEF Orders
<1>6. CASE T # {}
  <2>1. PICK x \in T : \A y \in T : x <= y
    BY <1>4, <1>6, LeastElement
  <2>. DEFINE U == T \ {x}
  <2>2. /\ IsFiniteSet(U) /\ Cardinality(U) \in Nat /\ Cardinality(T) = Cardinality(U) + 1
        /\ U \in SUBSET S
    <3>1. IsFiniteSet(U) /\ Cardinality(U) = Cardinality(T) - 1
      BY <1>4, <2>1, FS_RemoveElement
    <3>2. Cardinality(U) \in Nat /\ Cardinality(T) \in Nat
      BY <1>4, <3>1, FS_CardinalityType
    <3>. QED
      BY <1>4, <3>1, <3>2
  <2>3. U \notin Bad
    <3>1. <<U, T>> \in StrictSubsetOrdering(S)
      BY <1>4, <2>1, <2>2 DEF StrictSubsetOrdering
    <3>. QED
      BY <1>3, <3>1
  <2>4. PICK q \in Orders(U) : TRUE
    BY <2>2, <2>3 DEF Bad
  <2>5. q \in [1 .. Cardinality(U) -> U] /\ \A m, n \in 1 .. Cardinality(U) : m < n => q[m] < q[n]
    BY <2>4 DEF Orders
  <2>. DEFINE N == Cardinality(U)
              r == [m \in 1 .. N + 1 |-> IF m = 1 THEN x ELSE q[m - 1]]
  <2>6. \A m \in 1 .. N : q[m] \in T /\ q[m] # x
    BY <2>5
  <2>. HIDE DEF U
  <2>7. \A m \in 1 .. N + 1 : m # 1 => m - 1 \in 1 .. N
    BY <2>2
  <2>8. r \in [1 .. N + 1 -> T]
    BY <2>1, <2>6, <2>7
  <2>9. ASSUME NEW m \in 1 .. N + 1, NEW n \in 1 .. N + 1, m < n PROVE r[m] < r[n]
    <3>1. r[n] = q[n - 1] /\ n - 1 \in 1 .. N
      BY <2>2, <2>9
    <3>2. CASE m = 1
      <4>1. x \in Nat /\ q[n - 1] \in Nat /\ x <= q[n - 1] /\ q[n - 1] # x
        BY <1>4, <2>1, <2>6, <3>1
      <4>. QED
        BY <3>1, <3>2, <4>1
    <3>3. CASE m # 1
      <4>1. r[m] = q[m - 1] /\ m - 1 \in 1 .. N /\ m - 1 < n - 1
        BY <2>2, <2>9, <3>3
      <4>. QED
        BY <2>5, <3>1, <4>1
    <3>. QED
      BY <3>2, <3>3
  <2>. HIDE DEF r
  <2>10. r \in Orders(T)
    BY <2>2, <2>8, <2>9 DEF Orders
  <2>. QED
    BY <1>4, <2>10
<1>. QED
  BY <1>5, <1>6

\* InOrder enumerates its set, each element once, in their order.
LEMMA InOrderEnumerates ==
    ASSUME NEW S \in SUBSET Nat, IsFiniteSet(S)
    PROVE  /\ InOrder(S) \in Seq(S)
           /\ S = {InOrder(S)[m] : m \in 1 .. Len(InOrder(S))}
           /\ \A m, n \in 1 .. Len(InOrder(S)) : m < n => InOrder(S)[m] < InOrder(S)[n]
<1>. DEFINE q == InOrder(S)
            N == Cardinality(S)
<1>1. q \in [1 .. N -> S] /\ \A m, n \in 1 .. N : m < n => q[m] < q[n]
  BY OrderExists DEF Orders, InOrder
<1>. HIDE DEF q
<1>2. N \in Nat
  BY FS_CardinalityType
<1>3. q \in Seq(S) /\ Len(q) = N
  <2>1. q \in Seq(S)
    BY <1>1, <1>2, SeqDef
  <2>2. Len(q) \in Nat /\ DOMAIN q = 1 .. Len(q)
    BY <2>1, LenProperties
  <2>. QED
    BY <1>1, <1>2, <2>1, <2>2
<1>4. q \in Injection(1 .. N, S)
  <2>1. ASSUME NEW m \in 1 .. N, NEW n \in 1 .. N, q[m] = q[n] PROVE m = n
    <3>1. q[m] \in Nat /\ q[n] \in Nat
      BY <1>1
    <3>. QED
      BY <1>1, <1>2, <2>1, <3>1
  <2>. QED
    BY <1>1, <2>1 DEF Injection, IsInjective
<1>5. Cardinality(1 .. N) = N
  BY <1>2, FS_Interval
<1>6. q \in Surjection(1 .. N, S)
  BY <1>4, <1>5, FS_Injection
<1>7. \A i \in S : \E m \in 1 .. N : q[m] = i
  BY <1>6 DEF Surjection
<1>8. S = {q[m] : m \in 1 .. Len(q)}
  BY <1>1, <1>3, <1>7
<1>. QED
  BY <1>1, <1>3, <1>8 DEF q

-----------------------------------------------------------------------------
(* The inductive invariant.                                                *)

Actors == Clients \cup Checkers
Ongoing == WorkKinds \cup {"check"}

Fields == {"kind", "todo", "held", "q", "counts", "take", "delta", "opens"}
WorkTyped(w) ==
    /\ w = [f \in Fields |-> w[f]]
    /\ w.kind \in Ongoing \cup {"none", "done", "refused"}
    /\ w.held \subseteq Items /\ w.opens \subseteq Items /\ w.take \subseteq Takes
    /\ w.q \in Int /\ w.counts \in [Items -> Observed \cup {NotCounted}]
    /\ w.delta \in [Items -> Int]
    /\ w.kind \notin Ongoing => w.todo = <<>> /\ w.held = {} /\ w.take = {}
WorkIsTyped == work = [c \in Actors |-> work[c]] /\ \A c \in Actors : WorkTyped(work[c])

\* FOR UPDATE: an item is held by one transaction.
HeldAlone == \A c, d \in Actors : \A i \in work[c].held \cap work[d].held : c = d

\* A check that is about to open a task holds the item, and there is none yet.
OpensAreWanted ==
    \A c \in Actors : work[c].opens \subseteq work[c].held /\ \A i \in work[c].opens : restocks[i] = 0

MovesAreHeld == \A c \in Actors : \A i \in Items \ work[c].held : work[c].delta[i] = 0

\* A stocktake that is being committed is locked, and its lines are those read.
TakesAreHeld ==
    /\ \A c \in Actors : \A s \in work[c].take :
          /\ c \in Clients /\ work[c].kind = "commit"
          /\ take[s].status = "open" /\ take[s].lines = work[c].counts
    /\ \A c, d \in Actors : \A s \in work[c].take \cap work[d].take : c = d

\* A count takes each of its items once, and the deltas stay what they were
\* computed from, as the items are held.
Left(w) == {w.todo[m] : m \in 1 .. Len(w.todo)}
Counting(w) ==
    w.kind \in {"adjust", "commit"} =>
        /\ w.todo \in Seq(Items)
        /\ \A m, n \in 1 .. Len(w.todo) : m < n => w.todo[m] < w.todo[n]
        /\ Left(w) \cap w.held = {}
        /\ \A i \in w.held : w.delta[i] = w.counts[i] - stock[i]
        /\ w.kind = "commit" => Left(w) \cup w.held = {i \in Items : w.counts[i] # NotCounted}
CountsAreRead == \A c \in Actors : Counting(work[c])

StockIInv ==
    /\ InventoryTypeOK
    /\ WorkIsTyped
    /\ HeldAlone
    /\ OpensAreWanted
    /\ MovesAreHeld
    /\ TakesAreHeld
    /\ CountsAreRead
    /\ OneOpenRestock

-----------------------------------------------------------------------------
(* What a step does.                                                       *)

\* No transaction takes part, and what one has locked is left alone.
Standing ==
    /\ UNCHANGED <<work, stock>>
    /\ \A i \in Items : restocks'[i] <= restocks[i] /\ (restocks[i] = 0 => restocks'[i] = 0)
    /\ \A s \in Takes : TakeLocked(s) => take'[s] = take[s]

\* A transaction that holds nothing yet or any more.
Empty(w) == WorkTyped(w) /\ w.held = {} /\ w.opens = {} /\ w.delta = NoDelta /\ Counting(w)

Starts(c, w) ==
    /\ work[c].kind = "none" /\ Empty(w) /\ w.kind \in Ongoing
    /\ w.take = {} \/ \E s \in Takes : /\ w.take = {s} /\ ~TakeLocked(s) /\ c \in Clients
                                       /\ w.kind = "commit"
                                       /\ take[s].status = "open" /\ take[s].lines = w.counts
    /\ work' = [work EXCEPT ![c] = w]
    /\ UNCHANGED <<stock, take, restocks>>

Drops(c) ==
    /\ work' = [work EXCEPT ![c] = Ended(c, "refused")]
    /\ UNCHANGED <<stock, take, restocks>>

LEMMA NothingTyped ==
    /\ NoLines \in [Items -> Observed \cup {NotCounted}]
    /\ NoDelta \in [Items -> Int]
    /\ <<>> \in Seq(Items)
    /\ WorkTyped(IdleWork)
<1>1. NoLines \in [Items -> Observed \cup {NotCounted}] /\ NoDelta \in [Items -> Int]
  BY DEF NoLines, NoDelta
<1>2. <<>> \in Seq(Items)
  BY EmptySeq
<1>3. IdleWork = [f \in Fields |-> IdleWork[f]]
  BY DEF IdleWork, Fields
<1>4. WorkTyped(IdleWork)
  BY <1>1, <1>3 DEF WorkTyped, IdleWork, Ongoing, WorkKinds
<1>. QED
  BY <1>1, <1>2, <1>4

\* What a transaction becomes when it is over.
LEMMA EndedIsEmpty ==
    ASSUME NEW c \in Actors, NEW outcome \in {"done", "refused"}
    PROVE  /\ Empty(Ended(c, outcome)) /\ Ended(c, outcome).take = {}
           /\ Ended(c, outcome).kind \in {"none", outcome}
<1>1. /\ IdleWork = [f \in Fields |-> IdleWork[f]] /\ IdleWork.kind = "none"
      /\ IdleWork.held = {} /\ IdleWork.opens = {} /\ IdleWork.delta = NoDelta /\ IdleWork.take = {}
      /\ IdleWork.q = 0 /\ IdleWork.counts = NoLines /\ IdleWork.todo = <<>>
  BY NothingTyped DEF WorkTyped, IdleWork
<1>2. ASSUME NEW k \in {"none", "done", "refused"}, NEW w, w = [IdleWork EXCEPT !.kind = k]
      PROVE  Empty(w) /\ w.take = {} /\ w.kind = k
  <2>1. w = [f \in Fields |-> w[f]]
    BY <1>1, <1>2 DEF Fields
  <2>2. /\ w.kind = k /\ w.held = {} /\ w.opens = {} /\ w.delta = NoDelta /\ w.take = {}
        /\ w.q = 0 /\ w.counts = NoLines /\ w.todo = <<>>
    BY <1>1, <1>2 DEF Fields
  <2>3. w.counts \in [Items -> Observed \cup {NotCounted}] /\ w.delta \in [Items -> Int]
    BY <2>2, NothingTyped
  <2>4. WorkTyped(w)
    <3>1. w.kind \in Ongoing \cup {"none", "done", "refused"} /\ w.q \in Int
      BY <2>2
    <3>2. w.held \subseteq Items /\ w.opens \subseteq Items /\ w.take \subseteq Takes
      BY <2>2
    <3>. QED
      BY <2>1, <2>2, <2>3, <3>1, <3>2 DEF WorkTyped
  <2>. QED
    BY <2>2, <2>4 DEF Empty, Counting
<1>3. IdleWork = [IdleWork EXCEPT !.kind = "none"]
  BY <1>1 DEF Fields
<1>4. \E k \in {"none", outcome} : Ended(c, outcome) = [IdleWork EXCEPT !.kind = k]
  BY <1>3 DEF Ended
<1>. QED
  BY <1>2, <1>4

\* What a transaction is when it begins.
LEMMA BeginsIsStart ==
    ASSUME WorkIsTyped, NEW c \in Actors, NEW kind \in Ongoing, NEW todo, NEW q \in Int,
           NEW counts \in [Items -> Observed \cup {NotCounted}], NEW takes \in SUBSET Takes,
           Begins(c, kind, todo, q, counts, takes), UNCHANGED <<stock, take, restocks>>,
           kind \in {"adjust", "commit"} =>
               /\ todo \in Seq(Items)
               /\ \A m, n \in 1 .. Len(todo) : m < n => todo[m] < todo[n]
               /\ kind = "commit" =>
                    {todo[m] : m \in 1 .. Len(todo)} = {i \in Items : counts[i] # NotCounted},
           takes = {} \/ \E s \in Takes : /\ takes = {s} /\ ~TakeLocked(s) /\ c \in Clients
                                          /\ kind = "commit"
                                          /\ take[s].status = "open" /\ take[s].lines = counts
    PROVE  \E w : Starts(c, w)
<1>. DEFINE w == [IdleWork EXCEPT !.kind = kind, !.todo = todo, !.q = q, !.counts = counts,
                                  !.take = takes]
<1>0. /\ IdleWork = [f \in Fields |-> IdleWork[f]]
      /\ IdleWork.held = {} /\ IdleWork.opens = {} /\ IdleWork.delta = NoDelta
  BY NothingTyped DEF WorkTyped, IdleWork
<1>1. /\ w = [f \in Fields |-> w[f]]
      /\ w.kind = kind /\ w.todo = todo /\ w.q = q /\ w.counts = counts /\ w.take = takes
      /\ w.held = {} /\ w.opens = {} /\ w.delta = NoDelta
  BY <1>0 DEF Fields
<1>. HIDE DEF w
<1>2. WorkTyped(w) /\ w.held = {} /\ w.opens = {} /\ w.delta = NoDelta
  BY <1>1, NothingTyped DEF WorkTyped
<1>3. Counting(w)
  <2>1. Left(w) = {todo[m] : m \in 1 .. Len(todo)}
    BY <1>1 DEF Left
  <2>2. CASE kind \in {"adjust", "commit"}
    <3>1. /\ todo \in Seq(Items)
          /\ \A m, n \in 1 .. Len(todo) : m < n => todo[m] < todo[n]
          /\ kind = "commit" => Left(w) = {i \in Items : counts[i] # NotCounted}
      BY <2>1, <2>2
    <3>. QED
      BY <1>1, <3>1 DEF Counting
  <2>3. CASE kind \notin {"adjust", "commit"}
    BY <1>1, <2>3 DEF Counting
  <2>. QED
    BY <2>2, <2>3
<1>4. work[c].kind = "none" /\ work' = [work EXCEPT ![c] = w]
  BY DEF Begins, w
<1>5. Starts(c, w)
  BY <1>1, <1>2, <1>3, <1>4 DEF Starts, Empty
<1>. QED
  BY <1>5

LEMMA Singles ==
    ASSUME NEW i \in Items
    PROVE  <<i>> \in Seq(Items) /\ Len(<<i>>) = 1 /\ \A m, n \in 1 .. Len(<<i>>) : ~ (m < n)
OBVIOUS

LEMMA RequestStarts ==
    ASSUME StockIInv, NEW c \in Clients, ClientBegins(c) PROVE \E w : Starts(c, w)
<1>. USE InventoryAssumption, NothingTyped DEF Ongoing, WorkKinds, Actors
<1>0. WorkIsTyped /\ c \in Actors
  BY DEF StockIInv
<1>1. ASSUME NEW i \in Items, NEW q \in {-1, 1}, Record(c, i, q) PROVE \E w : Starts(c, w)
  <2>1. /\ q \in Int /\ "record" \in Ongoing /\ {} \in SUBSET Takes
        /\ Begins(c, "record", <<i>>, q, NoLines, {})
        /\ UNCHANGED <<stock, take, restocks>>
    BY <1>1 DEF Record
  <2>. QED
    BY <1>0, <2>1, BeginsIsStart
<1>2. ASSUME NEW i \in Items, NEW q \in Observed, Adjust(c, i, q) PROVE \E w : Starts(c, w)
  <2>. DEFINE counts == [NoLines EXCEPT ![i] = q]
  <2>1. /\ "adjust" \in Ongoing /\ {} \in SUBSET Takes /\ 0 \in Int
        /\ Begins(c, "adjust", <<i>>, 0, counts, {})
        /\ UNCHANGED <<stock, take, restocks>>
    BY <1>2 DEF Adjust
  <2>2. counts \in [Items -> Observed \cup {NotCounted}]
    OBVIOUS
  <2>3. <<i>> \in Seq(Items) /\ \A m, n \in 1 .. Len(<<i>>) : m < n => <<i>>[m] < <<i>>[n]
    BY Singles
  <2>. HIDE DEF counts
  <2>. QED
    BY <1>0, <2>1, <2>2, <2>3, BeginsIsStart
<1>3. ASSUME NEW order, Effects(c, order)
      PROVE  \E w : Starts(c, w)
  <2>1. /\ "effects" \in Ongoing /\ {} \in SUBSET Takes /\ -1 \in Int
        /\ Begins(c, "effects", order, -1, NoLines, {})
        /\ UNCHANGED <<stock, take, restocks>>
    BY <1>3 DEF Effects
  <2>. QED
    BY <1>0, <2>1, BeginsIsStart
<1>4. ASSUME NEW i \in Items, NEW j \in Items, Transfer(c, i, j) PROVE \E w : Starts(c, w)
  <2>1. /\ "transfer" \in Ongoing /\ {} \in SUBSET Takes /\ i \in Int
        /\ Begins(c, "transfer", InOrder({i, j}), i, NoLines, {})
        /\ UNCHANGED <<stock, take, restocks>>
    BY <1>4 DEF Transfer
  <2>. QED
    BY <1>0, <2>1, BeginsIsStart
<1>5. ASSUME NEW s \in Takes, CommitTake(c, s) PROVE \E w : Starts(c, w)
  <2>. DEFINE todo == InOrder(Lines(s))
              counts == take[s].lines
  <2>1. /\ "commit" \in Ongoing /\ {s} \in SUBSET Takes /\ 0 \in Int
        /\ Begins(c, "commit", todo, 0, counts, {s})
        /\ ~TakeLocked(s) /\ take[s].status = "open"
        /\ UNCHANGED <<stock, take, restocks>>
    BY <1>5 DEF CommitTake
  <2>2. counts \in [Items -> Observed \cup {NotCounted}]
    BY DEF StockIInv, InventoryTypeOK
  <2>3. Lines(s) = {i \in Items : counts[i] # NotCounted}
    BY DEF Lines
  <2>4. IsFiniteSet(Lines(s)) /\ Lines(s) \in SUBSET Nat /\ Lines(s) \subseteq Items
    BY FS_Subset DEF Lines
  <2>5. /\ todo \in Seq(Lines(s))
        /\ Lines(s) = {todo[m] : m \in 1 .. Len(todo)}
        /\ \A m, n \in 1 .. Len(todo) : m < n => todo[m] < todo[n]
    BY <2>4, InOrderEnumerates
  <2>6. todo \in Seq(Items)
    BY <2>4, <2>5, SeqMonotonic
  <2>. HIDE DEF todo, counts
  <2>7. take[s].lines = counts
    BY DEF counts
  <2>8. {todo[m] : m \in 1 .. Len(todo)} = {i \in Items : counts[i] # NotCounted}
    BY <2>3, <2>5
  <2>9. \E t \in Takes : /\ {s} = {t} /\ ~TakeLocked(t)
                         /\ take[t].status = "open" /\ take[t].lines = counts
    BY <2>1, <2>7
  <2>. QED
    BY <1>0, <2>1, <2>2, <2>5, <2>6, <2>8, <2>9, BeginsIsStart
<1>6. CASE \E i \in Items : Record(c, i, -1) \/ Record(c, i, 1)
  BY <1>1, <1>6, Zenon
<1>7. CASE \E i \in Items, q \in Observed : Adjust(c, i, q)
  BY <1>2, <1>7, Zenon
<1>8. CASE \E order : Effects(c, order)
  BY <1>3, <1>8, Zenon
<1>9. CASE \E i, j \in Items : Transfer(c, i, j)
  BY <1>4, <1>9, Zenon
<1>10. CASE \E s \in Takes : CommitTake(c, s)
  BY <1>5, <1>10, Zenon
<1>. HIDE InventoryAssumption, NothingTyped DEF Ongoing, WorkKinds, Actors
<1>11. \/ \E i \in Items : Record(c, i, -1) \/ Record(c, i, 1)
       \/ \E i \in Items, q \in Observed : Adjust(c, i, q)
       \/ \E order : Effects(c, order)
       \/ \E i, j \in Items : Transfer(c, i, j)
       \/ \E s \in Takes : CommitTake(c, s)
  BY DEF ClientBegins
<1>. QED
  BY <1>6, <1>7, <1>8, <1>9, <1>10, <1>11, Zenon

LEMMA CheckStarts ==
    ASSUME StockIInv, NEW k \in Checkers, SweepItems(k) \/ \E i \in Items : CheckChanged(k, i)
    PROVE  \E w : Starts(k, w)
<1>0. /\ "check" \in Ongoing /\ {} \in SUBSET Takes /\ 0 \in Int
      /\ WorkIsTyped /\ k \in Actors
  BY DEF Ongoing, StockIInv, Actors
<1>1. ASSUME NEW todo, Begins(k, "check", todo, 0, NoLines, {}), UNCHANGED <<stock, take, restocks>>
      PROVE  \E w : Starts(k, w)
  BY <1>0, <1>1, NothingTyped, BeginsIsStart
<1>2. CASE SweepItems(k)
  <2>. DEFINE todo == InOrder(active \cap Tracked)
  <2>1. Begins(k, "check", todo, 0, NoLines, {}) /\ UNCHANGED <<stock, take, restocks>>
    BY <1>2 DEF SweepItems
  <2>. HIDE DEF todo
  <2>. QED
    BY <1>1, <2>1
<1>3. ASSUME NEW i \in Items, CheckChanged(k, i) PROVE \E w : Starts(k, w)
  <2>1. Begins(k, "check", <<i>>, 0, NoLines, {}) /\ UNCHANGED <<stock, take, restocks>>
    BY <1>3 DEF CheckChanged
  <2>. QED
    BY <1>1, <2>1
<1>. QED
  BY <1>2, <1>3

LEMMA StockSteps ==
    ASSUME StockIInv, [InventoryNext]_stockVars
    PROVE  \/ Standing
           \/ \E c \in Actors :
                 (\E w : Starts(c, w)) \/ ReadItem(c) \/ SkipItem(c) \/ CommitWork(c) \/ Drops(c)
<1>0. restocks \in [Items -> Nat] /\ take = [s \in Takes |-> take[s]]
  BY DEF StockIInv, InventoryTypeOK
<1>1. ASSUME NEW c \in Clients, RefuseWork(c) PROVE Drops(c)
  BY <1>1 DEF RefuseWork, Drops
<1>2. ASSUME NEW c \in Actors, StockDeadlock(c) \/ StockCrash(c) PROVE Drops(c)
  BY <1>2 DEF StockDeadlock, StockCrash, Drops
<1>3. ASSUME NEW s \in Takes, Abandon(s) \/ \E i \in Items, q \in Observed : SaveLine(s, i, q)
      PROVE  Standing
  BY <1>0, <1>3 DEF Abandon, SaveLine, Standing
<1>4. ASSUME NEW i \in Items, Archive(i) PROVE Standing
  BY <1>0, <1>4 DEF Archive, Standing
<1>5. ASSUME NEW i \in Items, CloseRestock(i) PROVE Standing
  BY <1>0, <1>5 DEF CloseRestock, Standing
<1>6. CASE UNCHANGED stockVars
  BY <1>0, <1>6 DEF stockVars, Standing
<1>. QED
  BY <1>1, <1>2, <1>3, <1>4, <1>5, <1>6, RequestStarts, CheckStarts DEF InventoryNext, WorkStep, Actors

\* Reading an item: it is held by nobody else, and is by the reader from now on.
ReadOf(c, i, w) ==
    /\ work[c].todo # <<>> /\ i = Head(work[c].todo)
    /\ \A d \in Actors : d # c => i \notin work[d].held
    /\ work' = [work EXCEPT ![c] = w] /\ UNCHANGED <<stock, take, restocks>>
    /\ WorkTyped(w) /\ w.kind = work[c].kind /\ w.kind \in Ongoing
    /\ w.todo = Tail(work[c].todo) /\ w.held = work[c].held \cup {i}
    /\ w.counts = work[c].counts /\ w.take = work[c].take
    /\ \A j \in Items : w.delta[j] = IF j = i THEN work[c].delta[i] + DeltaOf(c, i)
                                              ELSE work[c].delta[j]
    /\ \A j \in w.opens : j \in work[c].opens \/ (j = i /\ restocks[i] = 0)

LEMMA ReadEffect ==
    ASSUME StockIInv, NEW c \in Actors, ReadItem(c)
    PROVE  \E i \in Items : \E w : ReadOf(c, i, w)
<1>. DEFINE i == Head(work[c].todo)
            opens == IF work[c].kind = "check" /\ Wanted(i) THEN work[c].opens \cup {i}
                                                            ELSE work[c].opens
            w == [work[c] EXCEPT !.todo = Tail(@), !.held = @ \cup {i}, !.delta[i] = @ + DeltaOf(c, i),
                                 !.opens = IF work[c].kind = "check" /\ Wanted(i) THEN @ \cup {i} ELSE @]
<1>1. WorkIsTyped /\ WorkTyped(work[c]) /\ active \subseteq Items /\ stock \in [Items -> Int]
  BY DEF StockIInv, WorkIsTyped, InventoryTypeOK
<1>2. /\ work[c].todo # <<>> /\ i \in Items
      /\ work' = [work EXCEPT ![c] = w] /\ UNCHANGED <<stock, take, restocks>>
  <2>1. work[c].todo # <<>> /\ Reads(c, i) /\ i \in active /\ UNCHANGED <<stock, take, restocks>>
    BY DEF ReadItem
  <2>2. work' = [work EXCEPT ![c] = w]
    <3>. HIDE DEF i
    <3>. QED
      BY <2>1 DEF Reads
  <2>. HIDE DEF w, i
  <2>. QED
    BY <1>1, <2>1, <2>2
<1>3. \A d \in Actors : d # c => i \notin work[d].held
  <2>1. DOMAIN work = Actors
    BY <1>1 DEF WorkIsTyped
  <2>. QED
    BY <2>1 DEF ReadItem, HeldByOther
<1>4. work[c].kind \in Ongoing
  BY <1>1, <1>2 DEF WorkTyped
<1>5. DeltaOf(c, i) \in Int
  <2>1. work[c].q \in Int /\ stock[i] \in Int
    BY <1>1, <1>2 DEF WorkTyped
  <2>2. work[c].counts[i] \in Int
    <3>1. Observed \cup {NotCounted} \subseteq Int
      BY InventoryAssumption DEF NotCounted
    <3>2. work[c].counts \in [Items -> Observed \cup {NotCounted}]
      BY <1>1 DEF WorkTyped
    <3>. HIDE DEF i
    <3>. QED
      BY <1>2, <3>1, <3>2
  <2>. HIDE DEF i
  <2>3. \A x \in Int : x - stock[i] \in Int
    BY <2>1
  <2>. QED
    BY <1>4, <2>1, <2>2, <2>3 DEF DeltaOf, Ongoing, WorkKinds
<1>6. /\ work[c] = [f \in Fields |-> work[c][f]] /\ work[c].delta \in [Items -> Int]
      /\ work[c].held \subseteq Items /\ work[c].opens \subseteq Items
  BY <1>1 DEF WorkTyped
<1>. HIDE DEF i
<1>7. /\ w = [f \in Fields |-> w[f]]
      /\ w.kind = work[c].kind /\ w.q = work[c].q /\ w.counts = work[c].counts /\ w.take = work[c].take
      /\ w.todo = Tail(work[c].todo) /\ w.held = work[c].held \cup {i}
      /\ w.delta = [work[c].delta EXCEPT ![i] = @ + DeltaOf(c, i)]
      /\ w.opens = opens
  BY <1>6 DEF Fields
<1>. HIDE DEF w
<1>8. opens \subseteq Items /\ \A j \in opens : j \in work[c].opens \/ (j = i /\ restocks[i] = 0)
  BY <1>2, <1>6 DEF Wanted
<1>9. /\ w.delta \in [Items -> Int]
      /\ \A j \in Items : w.delta[j] = IF j = i THEN work[c].delta[i] + DeltaOf(c, i)
                                                ELSE work[c].delta[j]
  <2>1. ASSUME NEW D \in [Items -> Int], NEW n \in Int, NEW E, E = [D EXCEPT ![i] = @ + n]
        PROVE  E \in [Items -> Int] /\ \A j \in Items : E[j] = IF j = i THEN D[i] + n ELSE D[j]
    <3>1. i \in Items
      BY <1>2
    <3>. QED
      BY <2>1, <3>1
  <2>. DEFINE D == work[c].delta
              n == DeltaOf(c, i)
              E == w.delta
  <2>2. D \in [Items -> Int] /\ n \in Int /\ E = [D EXCEPT ![i] = @ + n]
    BY <1>5, <1>6, <1>7
  <2>. HIDE DEF D, n, E
  <2>3. E \in [Items -> Int] /\ \A j \in Items : E[j] = IF j = i THEN D[i] + n ELSE D[j]
    BY <2>1, <2>2
  <2>. QED
    BY <2>3 DEF D, n, E
<1>. HIDE DEF opens
<1>10. WorkTyped(w)
  <2>1. w.held \subseteq Items /\ w.opens \subseteq Items
    BY <1>2, <1>6, <1>7, <1>8
  <2>2. w.take \subseteq Takes /\ w.q \in Int /\ w.counts \in [Items -> Observed \cup {NotCounted}]
    BY <1>1, <1>7 DEF WorkTyped
  <2>. QED
    BY <1>4, <1>7, <1>9, <2>1, <2>2 DEF WorkTyped
<1>11. ReadOf(c, i, w)
  BY <1>2, <1>3, <1>4, <1>7, <1>8, <1>9, <1>10 DEF i, ReadOf
<1>. QED
  BY <1>2, <1>11

LEMMA SkipEffect ==
    ASSUME StockIInv, NEW c \in Actors, SkipItem(c)
    PROVE  \E w : /\ work' = [work EXCEPT ![c] = w] /\ UNCHANGED <<stock, take, restocks>>
                  /\ WorkTyped(w) /\ w.kind = work[c].kind /\ w.kind \in {"effects", "check"}
                  /\ w.held = work[c].held /\ w.take = work[c].take /\ w.delta = work[c].delta
                  /\ w.opens = work[c].opens /\ w.counts = work[c].counts
<1>. DEFINE w == [work[c] EXCEPT !.todo = Tail(@)]
<1>1. WorkIsTyped /\ WorkTyped(work[c])
  BY DEF StockIInv, WorkIsTyped
<1>2. /\ work[c].kind \in {"effects", "check"}
      /\ work' = [work EXCEPT ![c] = w] /\ UNCHANGED <<stock, take, restocks>>
  BY <1>1 DEF SkipItem
<1>3. work[c] = [f \in Fields |-> work[c][f]]
  BY <1>1 DEF WorkTyped
<1>4. /\ w = [f \in Fields |-> w[f]]
      /\ w.kind = work[c].kind /\ w.q = work[c].q /\ w.counts = work[c].counts /\ w.take = work[c].take
      /\ w.held = work[c].held /\ w.delta = work[c].delta /\ w.opens = work[c].opens
  BY <1>3 DEF Fields
<1>. HIDE DEF w
<1>5. WorkTyped(w)
  BY <1>1, <1>2, <1>4 DEF WorkTyped, Ongoing, WorkKinds
<1>. QED
  BY <1>2, <1>4, <1>5

\* A commit moves what the transaction holds, and nothing else.
LEMMA CommitEffect ==
    ASSUME StockIInv, NEW c \in Actors, CommitWork(c)
    PROVE  \E w : /\ work' = [work EXCEPT ![c] = w] /\ Empty(w)' /\ Empty(w) /\ w.take = {}
                  /\ w.kind \in {"none", "done"}
                  /\ work[c].todo = <<>>
                  /\ \A i \in Items : stock'[i] = stock[i] + work[c].delta[i]
                  /\ \A i \in Items : i \notin work[c].held => stock'[i] = stock[i]
                  /\ \A i \in Items : restocks'[i] = IF i \in work[c].opens THEN restocks[i] + 1
                                                                           ELSE restocks[i]
                  /\ \A s \in Takes : s \notin work[c].take => take'[s] = take[s]
<1>1. /\ work' = [work EXCEPT ![c] = Ended(c, "done")] /\ work[c].todo = <<>>
      /\ \A i \in Items : stock'[i] = stock[i] + work[c].delta[i]
      /\ \A i \in Items : restocks'[i] = IF i \in work[c].opens THEN restocks[i] + 1 ELSE restocks[i]
      /\ \A s \in Takes : s \notin work[c].take => take'[s] = take[s]
  BY DEF CommitWork
<1>2. ASSUME NEW i \in Items, i \notin work[c].held PROVE stock'[i] = stock[i]
  <2>1. work[c].delta[i] = 0 /\ stock[i] \in Int
    BY <1>2 DEF StockIInv, MovesAreHeld, InventoryTypeOK
  <2>. QED
    BY <1>1, <2>1
<1>3. /\ Empty(Ended(c, "done")) /\ Ended(c, "done").take = {}
      /\ Ended(c, "done").kind \in {"none", "done"}
  BY EndedIsEmpty
<1>4. Empty(Ended(c, "done"))'
  BY <1>3 DEF Empty, Counting
<1>. QED
  BY <1>1, <1>2, <1>3, <1>4

\* Only c's transaction is replaced.
LEMMA Replaced ==
    ASSUME WorkIsTyped, NEW c \in Actors, NEW w, work' = [work EXCEPT ![c] = w]
    PROVE  /\ work' = [d \in Actors |-> work'[d]]
           /\ work'[c] = w
           /\ \A d \in Actors : d # c => work'[d] = work[d]
BY DEF WorkIsTyped

LEMMA EmptyStays ==
    ASSUME NEW w, Empty(w) PROVE Empty(w)'
BY DEF Empty, Counting, Left

LEMMA DropEffect ==
    ASSUME NEW c \in Actors, Drops(c)
    PROVE  /\ \E w : /\ work' = [work EXCEPT ![c] = w] /\ Empty(w) /\ w.take = {}
                     /\ w.kind \in {"none", "refused"}
           /\ UNCHANGED <<stock, take, restocks>>
BY EndedIsEmpty DEF Drops

\* A step of c that leaves the others alone: w is what its transaction becomes.
Turn(c, w) == WorkTyped(w) /\ work' = [work EXCEPT ![c] = w]

LEMMA TurnTyped ==
    ASSUME WorkIsTyped, NEW c \in Actors, NEW w, Turn(c, w)
    PROVE  WorkIsTyped'
BY ZenonT(40), Replaced DEF WorkIsTyped, Turn, WorkTyped

-----------------------------------------------------------------------------
(* The steps keep the invariant.                                           *)

LEMMA WorkTypedStep ==
    ASSUME StockIInv, [InventoryNext]_stockVars
    PROVE  WorkIsTyped'
<1>0. WorkIsTyped
  BY DEF StockIInv
<1>1. CASE Standing
  BY <1>0, <1>1 DEF Standing, WorkIsTyped
<1>2. ASSUME NEW c \in Actors, NEW w, Starts(c, w) PROVE WorkIsTyped'
  BY <1>0, <1>2, TurnTyped DEF Starts, Empty, Turn
<1>3. ASSUME NEW c \in Actors, ReadItem(c) PROVE WorkIsTyped'
  BY <1>0, <1>3, ReadEffect, TurnTyped DEF Turn, ReadOf
<1>4. ASSUME NEW c \in Actors, SkipItem(c) PROVE WorkIsTyped'
  BY <1>0, <1>4, SkipEffect, TurnTyped DEF Turn
<1>5. ASSUME NEW c \in Actors, CommitWork(c) PROVE WorkIsTyped'
  BY <1>0, <1>5, CommitEffect, TurnTyped DEF Turn, Empty
<1>6. ASSUME NEW c \in Actors, Drops(c) PROVE WorkIsTyped'
  BY <1>0, <1>6, DropEffect, TurnTyped DEF Turn, Empty
<1>. QED
  BY <1>1, <1>2, <1>3, <1>4, <1>5, <1>6, StockSteps

LEMMA HeldStep ==
    ASSUME StockIInv, [InventoryNext]_stockVars
    PROVE  HeldAlone'
<1>0. WorkIsTyped /\ HeldAlone
  BY DEF StockIInv
<1>1. CASE Standing
  BY <1>0, <1>1 DEF Standing, HeldAlone
<1>2. ASSUME NEW c \in Actors, NEW w, work' = [work EXCEPT ![c] = w],
             \A d \in Actors : d # c => w.held \cap work[d].held = {}
      PROVE  HeldAlone'
  BY <1>0, <1>2, Replaced DEF HeldAlone
<1>3. ASSUME NEW c \in Actors, NEW w, Starts(c, w) PROVE HeldAlone'
  BY <1>2, <1>3 DEF Starts, Empty
<1>4. ASSUME NEW c \in Actors, ReadItem(c) PROVE HeldAlone'
  <2>1. PICK w : /\ work' = [work EXCEPT ![c] = w]
                 /\ \A d \in Actors : d # c => w.held \cap work[d].held = {}
    BY <1>0, <1>4, ReadEffect DEF HeldAlone, ReadOf
  <2>. QED
    BY <1>2, <2>1
<1>5. ASSUME NEW c \in Actors, SkipItem(c) PROVE HeldAlone'
  <2>1. PICK w : work' = [work EXCEPT ![c] = w] /\ w.held = work[c].held
    BY <1>5, SkipEffect
  <2>. QED
    BY <1>0, <1>2, <2>1 DEF HeldAlone
<1>6. ASSUME NEW c \in Actors, CommitWork(c) PROVE HeldAlone'
  <2>1. PICK w : work' = [work EXCEPT ![c] = w] /\ w.held = {}
    BY <1>6, CommitEffect DEF Empty
  <2>. QED
    BY <1>2, <2>1
<1>7. ASSUME NEW c \in Actors, Drops(c) PROVE HeldAlone'
  BY ZenonT(40), <1>2, <1>7, DropEffect DEF Empty
<1>. QED
  BY <1>1, <1>3, <1>4, <1>5, <1>6, <1>7, StockSteps

\* The holder of an item opens its restock task, and no other check can.
LEMMA OpensStep ==
    ASSUME StockIInv, [InventoryNext]_stockVars
    PROVE  OpensAreWanted' /\ OneOpenRestock'
<1>0. /\ WorkIsTyped /\ HeldAlone /\ OpensAreWanted /\ OneOpenRestock
      /\ restocks \in [Items -> Nat]
      /\ \A d \in Actors : work[d].opens \subseteq Items
  BY DEF StockIInv, InventoryTypeOK, WorkIsTyped, WorkTyped
<1>1. CASE Standing
  <2>1. OpensAreWanted'
    BY <1>0, <1>1 DEF Standing, OpensAreWanted
  <2>2. ASSUME NEW i \in Items PROVE restocks'[i] <= 1
    <3>1. restocks'[i] <= restocks[i] /\ restocks[i] \in {0, 1} /\ (restocks[i] = 0 => restocks'[i] = 0)
      BY <1>0, <1>1 DEF Standing, OneOpenRestock
    <3>. QED
      BY <3>1
  <2>. QED
    BY <2>1, <2>2 DEF OneOpenRestock
<1>2. ASSUME NEW c \in Actors, NEW w, work' = [work EXCEPT ![c] = w], UNCHANGED restocks,
             w.opens \subseteq w.held, \A i \in w.opens : restocks[i] = 0
      PROVE  OpensAreWanted' /\ OneOpenRestock'
  <2>1. OneOpenRestock'
    BY <1>0, <1>2 DEF OneOpenRestock
  <2>2. OpensAreWanted'
    BY <1>0, <1>2, Replaced DEF OpensAreWanted
  <2>. QED
    BY <2>1, <2>2
<1>3. ASSUME NEW c \in Actors, NEW w, Starts(c, w) PROVE OpensAreWanted' /\ OneOpenRestock'
  BY <1>2, <1>3 DEF Starts, Empty
<1>4. ASSUME NEW c \in Actors, ReadItem(c) PROVE OpensAreWanted' /\ OneOpenRestock'
  <2>0. PICK i \in Items : \E w : ReadOf(c, i, w)
    BY <1>4, ReadEffect
  <2>1. PICK w : ReadOf(c, i, w)
    BY <2>0
  <2>2. w.opens \subseteq w.held /\ \A j \in w.opens : restocks[j] = 0
    BY <1>0, <2>1 DEF OpensAreWanted, ReadOf
  <2>. QED
    BY <1>2, <2>1, <2>2 DEF ReadOf
<1>5. ASSUME NEW c \in Actors, SkipItem(c) PROVE OpensAreWanted' /\ OneOpenRestock'
  <2>1. PICK w : /\ work' = [work EXCEPT ![c] = w] /\ UNCHANGED restocks
                 /\ w.held = work[c].held /\ w.opens = work[c].opens
    BY <1>5, SkipEffect
  <2>2. w.opens \subseteq w.held /\ \A j \in w.opens : restocks[j] = 0
    BY <1>0, <2>1 DEF OpensAreWanted
  <2>. QED
    BY <1>2, <2>1, <2>2
<1>6. ASSUME NEW c \in Actors, CommitWork(c) PROVE OpensAreWanted' /\ OneOpenRestock'
  <2>1. PICK w : /\ work' = [work EXCEPT ![c] = w] /\ w.opens = {}
                 /\ \A i \in Items : restocks'[i] = IF i \in work[c].opens THEN restocks[i] + 1
                                                                          ELSE restocks[i]
    BY <1>6, CommitEffect DEF Empty
  <2>2. /\ work'[c].opens = {} /\ \A d \in Actors : d # c => work'[d] = work[d]
    BY <1>0, <2>1, Replaced
  <2>3. ASSUME NEW d \in Actors, NEW i \in work'[d].opens PROVE i \in work'[d].held /\ restocks'[i] = 0
    <3>1. d # c /\ work'[d] = work[d]
      BY <2>2, <2>3
    <3>2. i \in work[d].held /\ restocks[i] = 0 /\ i \in Items
      BY <1>0, <2>3, <3>1 DEF OpensAreWanted
    <3>3. i \notin work[c].opens
      BY <1>0, <3>1, <3>2 DEF OpensAreWanted, HeldAlone
    <3>. QED
      BY <2>1, <3>1, <3>2, <3>3
  <2>4. ASSUME NEW i \in Items PROVE restocks'[i] <= 1
    <3>1. restocks[i] \in {0, 1} /\ (i \in work[c].opens => restocks[i] = 0)
      BY <1>0 DEF OneOpenRestock, OpensAreWanted
    <3>. QED
      BY <2>1, <3>1
  <2>. QED
    BY <2>3, <2>4 DEF OpensAreWanted, OneOpenRestock
<1>7. ASSUME NEW c \in Actors, Drops(c) PROVE OpensAreWanted' /\ OneOpenRestock'
  BY <1>2, <1>7, DropEffect DEF Empty
<1>. QED
  BY <1>1, <1>3, <1>4, <1>5, <1>6, <1>7, StockSteps

LEMMA MovesStep ==
    ASSUME StockIInv, [InventoryNext]_stockVars
    PROVE  MovesAreHeld'
<1>0. WorkIsTyped /\ MovesAreHeld
  BY DEF StockIInv
<1>1. CASE Standing
  BY <1>0, <1>1 DEF Standing, MovesAreHeld
<1>2. ASSUME NEW c \in Actors, NEW w, work' = [work EXCEPT ![c] = w],
             \A i \in Items \ w.held : w.delta[i] = 0
      PROVE  MovesAreHeld'
  BY <1>0, <1>2, Replaced DEF MovesAreHeld
<1>3. ASSUME NEW c \in Actors, NEW w, Starts(c, w) PROVE MovesAreHeld'
  BY <1>2, <1>3 DEF Starts, Empty, NoDelta
<1>4. ASSUME NEW c \in Actors, ReadItem(c) PROVE MovesAreHeld'
  <2>0. PICK i \in Items : \E w : ReadOf(c, i, w)
    BY <1>4, ReadEffect
  <2>1. PICK w : ReadOf(c, i, w)
    BY <2>0
  <2>2. \A j \in Items \ w.held : w.delta[j] = 0
    BY <1>0, <2>1 DEF MovesAreHeld, ReadOf
  <2>. QED
    BY <1>2, <2>1, <2>2 DEF ReadOf
<1>5. ASSUME NEW c \in Actors, SkipItem(c) PROVE MovesAreHeld'
  <2>1. PICK w : /\ work' = [work EXCEPT ![c] = w]
                 /\ w.held = work[c].held /\ w.delta = work[c].delta
    BY <1>5, SkipEffect
  <2>. QED
    BY <1>0, <1>2, <2>1 DEF MovesAreHeld
<1>6. ASSUME NEW c \in Actors, CommitWork(c) PROVE MovesAreHeld'
  BY <1>2, <1>6, CommitEffect DEF Empty, NoDelta
<1>7. ASSUME NEW c \in Actors, Drops(c) PROVE MovesAreHeld'
  BY <1>2, <1>7, DropEffect DEF Empty, NoDelta
<1>. QED
  BY <1>1, <1>3, <1>4, <1>5, <1>6, <1>7, StockSteps

LEMMA TakesStep ==
    ASSUME StockIInv, [InventoryNext]_stockVars
    PROVE  TakesAreHeld'
<1>0. /\ WorkIsTyped /\ TakesAreHeld
      /\ \A d \in Actors : work[d].take \subseteq Takes
      /\ Clients \subseteq Actors
  BY DEF StockIInv, WorkIsTyped, WorkTyped, Actors
<1>1. CASE Standing
  <2>1. \A d \in Actors : \A s \in work[d].take : take'[s] = take[s]
    BY <1>0, <1>1 DEF Standing, TakesAreHeld, TakeLocked
  <2>. QED
    BY <1>0, <1>1, <2>1 DEF Standing, TakesAreHeld
<1>2. ASSUME NEW c \in Actors, NEW w, work' = [work EXCEPT ![c] = w],
             \A s \in w.take : /\ c \in Clients /\ w.kind = "commit"
                               /\ take'[s].status = "open" /\ take'[s].lines = w.counts,
             \A d \in Actors : d # c => w.take \cap work[d].take = {},
             \A d \in Actors : d # c => \A s \in work[d].take : take'[s] = take[s]
      PROVE  TakesAreHeld'
  <2>1. work'[c] = w /\ \A d \in Actors : d # c => work'[d] = work[d]
    BY <1>0, <1>2, Replaced
  <2>2. ASSUME NEW d \in Actors, NEW s \in work'[d].take
        PROVE  /\ d \in Clients /\ work'[d].kind = "commit"
               /\ take'[s].status = "open" /\ take'[s].lines = work'[d].counts
    <3>1. CASE d = c
      BY <1>2, <2>1, <2>2, <3>1
    <3>2. CASE d # c
      BY <1>0, <1>2, <2>1, <2>2, <3>2 DEF TakesAreHeld
    <3>. QED
      BY <3>1, <3>2
  <2>3. \A d, e \in Actors : \A s \in work'[d].take \cap work'[e].take : d = e
    BY <1>0, <1>2, <2>1 DEF TakesAreHeld
  <2>. QED
    BY <2>2, <2>3 DEF TakesAreHeld
<1>3. ASSUME NEW c \in Actors, NEW w, Starts(c, w) PROVE TakesAreHeld'
  <2>1. work' = [work EXCEPT ![c] = w] /\ take' = take
    BY <1>3 DEF Starts
  <2>2. CASE w.take = {}
    BY <1>2, <2>1, <2>2
  <2>3. CASE w.take # {}
    <3>1. PICK s \in Takes : /\ w.take = {s} /\ ~TakeLocked(s) /\ c \in Clients /\ w.kind = "commit"
                             /\ take[s].status = "open" /\ take[s].lines = w.counts
      BY <1>3, <2>3 DEF Starts
    <3>2. \A d \in Actors : s \notin work[d].take
      BY <1>0, <3>1 DEF TakesAreHeld, TakeLocked
    <3>3. \A t \in w.take : /\ c \in Clients /\ w.kind = "commit"
                            /\ take'[t].status = "open" /\ take'[t].lines = w.counts
      BY <2>1, <3>1
    <3>4. \A d \in Actors : w.take \cap work[d].take = {}
      BY <3>1, <3>2
    <3>. QED
      BY <1>2, <2>1, <3>3, <3>4
  <2>. QED
    BY <2>2, <2>3
<1>4. ASSUME NEW c \in Actors, ReadItem(c) \/ SkipItem(c) PROVE TakesAreHeld'
  <2>1. PICK w : /\ work' = [work EXCEPT ![c] = w] /\ take' = take
                 /\ w.take = work[c].take /\ w.kind = work[c].kind /\ w.counts = work[c].counts
    BY <1>4, ReadEffect, SkipEffect DEF ReadOf
  <2>2. \A s \in w.take : /\ c \in Clients /\ w.kind = "commit"
                          /\ take'[s].status = "open" /\ take'[s].lines = w.counts
    BY <1>0, <2>1 DEF TakesAreHeld
  <2>3. \A d \in Actors : d # c => w.take \cap work[d].take = {}
    BY <1>0, <2>1 DEF TakesAreHeld
  <2>. QED
    BY <1>2, <2>1, <2>2, <2>3
<1>5. ASSUME NEW c \in Actors, CommitWork(c) PROVE TakesAreHeld'
  <2>1. PICK w : /\ work' = [work EXCEPT ![c] = w] /\ w.take = {}
                 /\ \A s \in Takes : s \notin work[c].take => take'[s] = take[s]
    BY <1>5, CommitEffect
  <2>2. \A d \in Actors : d # c => \A s \in work[d].take : take'[s] = take[s]
    BY <1>0, <2>1 DEF TakesAreHeld
  <2>. QED
    BY <1>2, <2>1, <2>2
<1>6. ASSUME NEW c \in Actors, Drops(c) PROVE TakesAreHeld'
  <2>1. PICK w : work' = [work EXCEPT ![c] = w] /\ w.take = {} /\ take' = take
    BY <1>6, DropEffect
  <2>. QED
    BY <1>2, <2>1
<1>. QED
  BY <1>1, <1>3, <1>4, <1>5, <1>6, StockSteps

\* A count that reads its next item stays a count: it takes no item twice.
LEMMA CountReads ==
    ASSUME StockIInv, NEW c \in Actors, ReadItem(c), NEW w, NEW i \in Items,
           work[c].todo # <<>>, i = Head(work[c].todo),
           w.kind = work[c].kind, w.todo = Tail(work[c].todo), w.held = work[c].held \cup {i},
           w.counts = work[c].counts,
           \A j \in Items : w.delta[j] = IF j = i THEN work[c].delta[i] + DeltaOf(c, i)
                                                  ELSE work[c].delta[j]
    PROVE  Counting(w)
<1>1. SUFFICES ASSUME w.kind \in {"adjust", "commit"} PROVE Counting(w)
  BY DEF Counting
<1>. DEFINE old == work[c].todo
            rest == w.todo
<1>2. /\ old \in Seq(Items) /\ \A m, n \in 1 .. Len(old) : m < n => old[m] < old[n]
      /\ Left(work[c]) \cap work[c].held = {}
      /\ \A j \in work[c].held : work[c].delta[j] = work[c].counts[j] - stock[j]
      /\ work[c].kind = "commit" =>
            Left(work[c]) \cup work[c].held = {j \in Items : work[c].counts[j] # NotCounted}
  BY <1>1 DEF StockIInv, CountsAreRead, Counting
<1>3. /\ rest \in Seq(Items) /\ Len(old) \in Nat /\ Len(old) >= 1 /\ Len(rest) = Len(old) - 1
      /\ old[1] = i /\ \A m \in 1 .. Len(rest) : rest[m] = old[m + 1]
  <2>1. i = old[1] /\ rest = Tail(old) /\ old # <<>>
    BY <1>2
  <2>. HIDE DEF rest, old
  <2>. QED
    BY <1>2, <2>1, HeadTailProperties, LenProperties, EmptySeq
<1>. HIDE DEF rest, old
<1>4. \A m, n \in 1 .. Len(rest) : m < n => rest[m] < rest[n]
  <2>1. ASSUME NEW m \in 1 .. Len(rest), NEW n \in 1 .. Len(rest), m < n PROVE rest[m] < rest[n]
    <3>1. m + 1 \in 1 .. Len(old) /\ n + 1 \in 1 .. Len(old) /\ m + 1 < n + 1
      BY <1>3, <2>1
    <3>. QED
      BY <1>2, <1>3, <3>1
  <2>. QED
    BY <2>1
<1>5. Left(work[c]) = {old[m] : m \in 1 .. Len(old)} /\ Left(w) = {rest[m] : m \in 1 .. Len(rest)}
  BY DEF Left, old, rest
<1>6. i \in Left(work[c])
  BY <1>3, <1>5
<1>7. ASSUME NEW j \in Left(w) PROVE j \in Left(work[c]) /\ j # i
  <2>1. PICK m \in 1 .. Len(rest) : j = rest[m]
    BY <1>5, <1>7
  <2>2. m + 1 \in 1 .. Len(old) /\ j = old[m + 1] /\ 1 \in 1 .. Len(old) /\ 1 < m + 1
    BY <1>3, <2>1
  <2>3. old[1] < old[m + 1] /\ old[1] \in Int
    BY <1>2, <2>2, <1>3, InventoryAssumption
  <2>. QED
    BY <1>3, <1>5, <2>2, <2>3
<1>8. ASSUME NEW j \in Left(work[c]), j # i PROVE j \in Left(w)
  <2>1. PICK m \in 1 .. Len(old) : j = old[m]
    BY <1>5
  <2>2. m - 1 \in 1 .. Len(rest) /\ rest[m - 1] = old[m]
    <3>1. m # 1
      BY <1>3, <1>8, <2>1
    <3>2. m - 1 \in 1 .. Len(rest) /\ (m - 1) + 1 = m
      BY <1>3, <2>1, <3>1
    <3>. QED
      BY <1>3, <3>2
  <2>. QED
    BY <1>5, <2>1, <2>2
<1>9. i \notin work[c].held
  BY <1>2, <1>6
<1>10. Left(w) \cap w.held = {}
  BY <1>2, <1>7
<1>11. w.kind = "commit" => Left(w) \cup w.held = {j \in Items : w.counts[j] # NotCounted}
  <2>1. Left(w) \cup w.held = Left(work[c]) \cup work[c].held
    BY <1>6, <1>7, <1>8
  <2>. QED
    BY <1>2, <2>1
<1>12. ASSUME NEW j \in w.held PROVE w.delta[j] = w.counts[j] - stock[j]
  <2>1. CASE j = i
    <3>1. work[c].delta[i] = 0
      BY <1>9 DEF StockIInv, MovesAreHeld
    <3>2. DeltaOf(c, i) = work[c].counts[i] - stock[i]
      BY <1>1 DEF DeltaOf
    <3>3. work[c].counts[i] \in Int /\ stock[i] \in Int
      <4>1. Observed \cup {NotCounted} \subseteq Int
        BY InventoryAssumption DEF NotCounted
      <4>2. work[c].counts \in [Items -> Observed \cup {NotCounted}] /\ stock \in [Items -> Int]
        BY DEF StockIInv, WorkIsTyped, WorkTyped, InventoryTypeOK
      <4>. QED
        BY <4>1, <4>2
    <3>4. w.delta[i] = work[c].delta[i] + DeltaOf(c, i)
      OBVIOUS
    <3>. QED
      BY <2>1, <3>1, <3>2, <3>3, <3>4
  <2>2. CASE j # i
    <3>1. j \in work[c].held /\ j \in Items
      BY <1>12, <2>2 DEF StockIInv, WorkIsTyped, WorkTyped
    <3>. QED
      BY <1>2, <2>2, <3>1
  <2>. QED
    BY <2>1, <2>2
<1>. QED
  BY <1>3, <1>4, <1>10, <1>11, <1>12 DEF Counting, rest

\* What a count has computed stands until it commits, for others move only
\* what they hold.
LEMMA CountsStep ==
    ASSUME StockIInv, [InventoryNext]_stockVars
    PROVE  CountsAreRead'
<1>0. /\ WorkIsTyped /\ CountsAreRead /\ HeldAlone
      /\ \A d \in Actors : work[d].held \subseteq Items
  BY DEF StockIInv, WorkIsTyped, WorkTyped
<1>1. CASE Standing
  BY <1>0, <1>1 DEF Standing, CountsAreRead, Counting, Left
<1>2. ASSUME NEW c \in Actors, NEW w, work' = [work EXCEPT ![c] = w], Counting(w)',
             \A d \in Actors : d # c => \A i \in work[d].held : stock'[i] = stock[i]
      PROVE  CountsAreRead'
  <2>1. work'[c] = w /\ \A d \in Actors : d # c => work'[d] = work[d]
    BY <1>0, <1>2, Replaced
  <2>2. ASSUME NEW d \in Actors PROVE Counting(work[d])'
    <3>1. CASE d = c
      BY <1>2, <2>1, <3>1 DEF Counting, Left
    <3>2. CASE d # c
      <4>1. Counting(work[d]) /\ work'[d] = work[d] /\ \A i \in work[d].held : stock'[i] = stock[i]
        BY <1>0, <1>2, <2>1, <3>2 DEF CountsAreRead
      <4>. QED
        BY <4>1 DEF Counting, Left
    <3>. QED
      BY <3>1, <3>2
  <2>. QED
    BY <2>2 DEF CountsAreRead
<1>3. ASSUME NEW w, Counting(w), stock' = stock PROVE Counting(w)'
  BY <1>3 DEF Counting, Left
<1>4. ASSUME NEW c \in Actors, NEW w, Starts(c, w) PROVE CountsAreRead'
  BY <1>2, <1>3, <1>4 DEF Starts, Empty
<1>5. ASSUME NEW c \in Actors, ReadItem(c) PROVE CountsAreRead'
  <2>0. PICK i \in Items : \E w : ReadOf(c, i, w)
    BY <1>5, ReadEffect
  <2>1. PICK w : ReadOf(c, i, w)
    BY <2>0
  <2>2. Counting(w)
    BY <1>5, <2>1, CountReads DEF ReadOf
  <2>. QED
    BY <1>2, <1>3, <2>1, <2>2 DEF ReadOf
<1>6. ASSUME NEW c \in Actors, SkipItem(c) PROVE CountsAreRead'
  <2>1. PICK w : work' = [work EXCEPT ![c] = w] /\ stock' = stock /\ w.kind \in {"effects", "check"}
    BY <1>6, SkipEffect
  <2>2. Counting(w)
    BY <2>1 DEF Counting
  <2>. QED
    BY <1>2, <1>3, <2>1, <2>2
<1>7. ASSUME NEW c \in Actors, CommitWork(c) PROVE CountsAreRead'
  <2>1. PICK w : /\ work' = [work EXCEPT ![c] = w] /\ Empty(w)
                 /\ \A i \in Items : i \notin work[c].held => stock'[i] = stock[i]
    BY <1>7, CommitEffect
  <2>2. Counting(w)'
    BY <2>1, EmptyStays DEF Empty
  <2>3. \A d \in Actors : d # c => \A i \in work[d].held : stock'[i] = stock[i]
    BY <1>0, <2>1 DEF HeldAlone
  <2>. QED
    BY <1>2, <2>1, <2>2, <2>3
<1>8. ASSUME NEW c \in Actors, Drops(c) PROVE CountsAreRead'
  <2>1. PICK w : work' = [work EXCEPT ![c] = w] /\ Counting(w) /\ stock' = stock
    BY <1>8, DropEffect DEF Empty
  <2>. QED
    BY <1>2, <1>3, <2>1
<1>. QED
  BY <1>1, <1>4, <1>5, <1>6, <1>7, <1>8, StockSteps

\* The steps of transactions that are not over.
LEMMA QuietSteps ==
    ASSUME StockIInv, [InventoryNext]_stockVars
    PROVE  \/ /\ UNCHANGED <<stock, active, take, restocks>> /\ changed' \subseteq changed
              /\ stockFaults' \in 0 .. MaxStockFaults
           \/ \E c \in Actors : CommitWork(c)
           \/ \E s \in Takes : Abandon(s) \/ \E i \in Items, q \in Observed : SaveLine(s, i, q)
           \/ \E i \in Items : Archive(i) \/ CloseRestock(i)
<1>. DEFINE Quiet == /\ UNCHANGED <<stock, active, take, restocks>> /\ changed' \subseteq changed
                     /\ stockFaults' \in 0 .. MaxStockFaults
<1>0. stockFaults \in 0 .. MaxStockFaults /\ MaxStockFaults \in Nat
  BY InventoryAssumption DEF StockIInv, InventoryTypeOK
<1>1. ASSUME NEW c \in Clients, ClientBegins(c) \/ RefuseWork(c) PROVE Quiet
  <2>1. ASSUME UNCHANGED <<stock, active, take, restocks, changed, stockFaults>> PROVE Quiet
    BY <1>0, <2>1
  <2>. HIDE DEF Quiet
  <2>2. CASE RefuseWork(c)
    BY <2>1, <2>2 DEF RefuseWork
  <2>3. ASSUME NEW i \in Items, NEW q, Record(c, i, q) \/ Adjust(c, i, q) PROVE Quiet
    BY <2>1, <2>3 DEF Record, Adjust
  <2>4. ASSUME NEW order, Effects(c, order) PROVE Quiet
    BY <2>1, <2>4 DEF Effects
  <2>5. ASSUME NEW i \in Items, NEW j \in Items, Transfer(c, i, j) PROVE Quiet
    BY <2>1, <2>5 DEF Transfer
  <2>6. ASSUME NEW s \in Takes, CommitTake(c, s) PROVE Quiet
    BY <2>1, <2>6 DEF CommitTake
  <2>. QED
    BY <1>1, <2>2, <2>3, <2>4, <2>5, <2>6 DEF ClientBegins
<1>2. ASSUME NEW k \in Checkers, SweepItems(k) \/ \E i \in Items : CheckChanged(k, i) PROVE Quiet
  BY <1>0, <1>2 DEF SweepItems, CheckChanged
<1>3. ASSUME NEW c \in Actors, ReadItem(c) \/ SkipItem(c) \/ StockDeadlock(c) PROVE Quiet
  BY <1>0, <1>3 DEF ReadItem, SkipItem, StockDeadlock
<1>4. ASSUME NEW c \in Actors, StockCrash(c) PROVE Quiet
  BY <1>0, <1>4 DEF StockCrash
<1>5. ASSUME UNCHANGED stockVars PROVE Quiet
  BY <1>0, <1>5 DEF stockVars
<1>. HIDE DEF Quiet
<1>6. \/ Quiet
      \/ \E c \in Actors : CommitWork(c)
      \/ \E s \in Takes : Abandon(s) \/ \E i \in Items, q \in Observed : SaveLine(s, i, q)
      \/ \E i \in Items : Archive(i) \/ CloseRestock(i)
  <2>1. CASE InventoryNext
    BY <1>1, <1>2, <1>3, <1>4, <2>1, Zenon DEF InventoryNext, WorkStep, Actors
  <2>. QED
    BY <1>5, <2>1
<1>. QED
  BY <1>6 DEF Quiet

LEMMA StockTypeStep ==
    ASSUME StockIInv, [InventoryNext]_stockVars
    PROVE  InventoryTypeOK'
<1>. DEFINE TakeTyped(T) == /\ T \in [Takes -> [status : {"open", "committed", "abandoned"},
                                                lines : [Items -> Observed \cup {NotCounted}]]]
                            /\ \A s \in Takes : T[s].status # "open" =>
                                                   {i \in Items : T[s].lines[i] # NotCounted} = {}
<1>1. /\ stock \in [Items -> Int] /\ active \subseteq Items /\ TakeTyped(take)
      /\ restocks \in [Items -> Nat] /\ changed \subseteq Items /\ stockFaults \in 0 .. MaxStockFaults
  BY DEF StockIInv, InventoryTypeOK, Lines
<1>2. \A c \in Clients \cup Checkers : work'[c].held \subseteq Items /\ work'[c].opens \subseteq Items
  BY WorkTypedStep DEF WorkIsTyped, WorkTyped, Actors
<1>3. SUFFICES /\ stock' \in [Items -> Int] /\ active' \subseteq Items /\ TakeTyped(take')
               /\ restocks' \in [Items -> Nat] /\ changed' \subseteq Items
               /\ stockFaults' \in 0 .. MaxStockFaults
  BY <1>2 DEF InventoryTypeOK, Lines
<1>4. CASE /\ UNCHANGED <<stock, active, take, restocks>> /\ changed' \subseteq changed
           /\ stockFaults' \in 0 .. MaxStockFaults
  <2>1. TakeTyped(take')
    BY <1>1, <1>4
  <2>. HIDE DEF TakeTyped
  <2>. QED
    BY <1>1, <1>4, <2>1
<1>5. ASSUME NEW c \in Actors, CommitWork(c)
      PROVE  /\ stock' \in [Items -> Int] /\ active' \subseteq Items /\ TakeTyped(take')
             /\ restocks' \in [Items -> Nat] /\ changed' \subseteq Items
             /\ stockFaults' \in 0 .. MaxStockFaults
  <2>1. work[c].delta \in [Items -> Int]
    BY DEF StockIInv, WorkIsTyped, WorkTyped
  <2>2. stock' \in [Items -> Int]
    BY <1>1, <1>5, <2>1 DEF CommitWork
  <2>3. restocks' \in [Items -> Nat]
    BY <1>1, <1>5 DEF CommitWork
  <2>4. TakeTyped(take')
    <3>1. take' = [s \in Takes |-> IF s \in work[c].take THEN [status |-> "committed", lines |-> NoLines]
                                                        ELSE take[s]]
      BY <1>5 DEF CommitWork
    <3>2. [status |-> "committed", lines |-> NoLines] \in
              [status : {"open", "committed", "abandoned"}, lines : [Items -> Observed \cup {NotCounted}]]
      BY NothingTyped
    <3>3. {i \in Items : NoLines[i] # NotCounted} = {}
      BY DEF NoLines
    <3>. QED
      BY <1>1, <3>1, <3>2, <3>3
  <2>5. active' \subseteq Items /\ changed' \subseteq Items /\ stockFaults' \in 0 .. MaxStockFaults
    BY <1>1, <1>5, InventoryAssumption DEF CommitWork
  <2>. QED
    BY <2>2, <2>3, <2>4, <2>5
<1>6. ASSUME NEW s \in Takes, Abandon(s) PROVE TakeTyped(take')
  <2>1. take' = [take EXCEPT ![s] = [status |-> "abandoned", lines |-> NoLines]]
    BY <1>6 DEF Abandon
  <2>2. [status |-> "abandoned", lines |-> NoLines] \in
            [status : {"open", "committed", "abandoned"}, lines : [Items -> Observed \cup {NotCounted}]]
    BY NothingTyped
  <2>3. {i \in Items : NoLines[i] # NotCounted} = {}
    BY DEF NoLines
  <2>. QED
    BY <1>1, <2>1, <2>2, <2>3
<1>7. ASSUME NEW s \in Takes, NEW i \in Items, NEW q \in Observed, SaveLine(s, i, q) PROVE TakeTyped(take')
  <2>1. take' = [take EXCEPT ![s].lines[i] = q] /\ take[s].status = "open"
    BY <1>7 DEF SaveLine
  <2>2. \A t \in Takes : t # s => take'[t] = take[t]
    BY <1>1, <2>1
  <2>3. take'[s].status = "open"
    BY <1>1, <2>1
  <2>4. take' \in [Takes -> [status : {"open", "committed", "abandoned"},
                             lines : [Items -> Observed \cup {NotCounted}]]]
    BY <1>1, <2>1
  <2>. QED
    BY <1>1, <2>2, <2>3, <2>4
<1>8. ASSUME NEW i \in Items, Archive(i) PROVE active' \subseteq Items
  BY <1>1, <1>8 DEF Archive
<1>9. ASSUME NEW i \in Items, CloseRestock(i) PROVE restocks' \in [Items -> Nat]
  BY <1>1, <1>9 DEF CloseRestock
<1>. HIDE DEF TakeTyped
<1>10. ASSUME NEW s \in Takes, Abandon(s) \/ \E i \in Items, q \in Observed : SaveLine(s, i, q)
       PROVE  /\ stock' \in [Items -> Int] /\ active' \subseteq Items /\ TakeTyped(take')
              /\ restocks' \in [Items -> Nat] /\ changed' \subseteq Items
              /\ stockFaults' \in 0 .. MaxStockFaults
  <2>1. UNCHANGED <<stock, active, restocks, changed, stockFaults>>
    BY <1>10 DEF Abandon, SaveLine
  <2>. QED
    BY <1>1, <1>6, <1>7, <1>10, <2>1
<1>11. ASSUME NEW i \in Items, Archive(i)
       PROVE  /\ stock' \in [Items -> Int] /\ active' \subseteq Items /\ TakeTyped(take')
              /\ restocks' \in [Items -> Nat] /\ changed' \subseteq Items
              /\ stockFaults' \in 0 .. MaxStockFaults
  <2>1. UNCHANGED <<stock, take, restocks, changed, stockFaults>>
    BY <1>11 DEF Archive
  <2>. QED
    BY <1>1, <1>8, <1>11, <2>1
<1>12. ASSUME NEW i \in Items, CloseRestock(i)
       PROVE  /\ stock' \in [Items -> Int] /\ active' \subseteq Items /\ TakeTyped(take')
              /\ restocks' \in [Items -> Nat] /\ changed' \subseteq Items
              /\ stockFaults' \in 0 .. MaxStockFaults
  <2>1. UNCHANGED <<stock, active, take, changed, stockFaults>>
    BY <1>12 DEF CloseRestock
  <2>. QED
    BY <1>1, <1>9, <1>12, <2>1
<1>. QED
  BY <1>4, <1>5, <1>10, <1>11, <1>12, QuietSteps

LEMMA StockInitIInv ==
    ASSUME InventoryInit PROVE StockIInv
<1>1. \A c \in Actors : work[c] = IdleWork
  BY DEF InventoryInit, Actors
<1>2. /\ IdleWork.kind = "none" /\ IdleWork.held = {} /\ IdleWork.opens = {} /\ IdleWork.take = {}
      /\ IdleWork.delta = NoDelta
  BY DEF IdleWork
<1>3. WorkIsTyped
  BY <1>1, NothingTyped DEF InventoryInit, WorkIsTyped, Actors
<1>4. InventoryTypeOK
  <2>1. stock \in [Items -> Int] /\ active \subseteq Items /\ restocks \in [Items -> Nat] /\ changed \subseteq Items
    BY InventoryAssumption DEF InventoryInit
  <2>2. stockFaults \in 0 .. MaxStockFaults
    BY InventoryAssumption DEF InventoryInit
  <2>3. take \in [Takes -> [status : {"open", "committed", "abandoned"},
                            lines : [Items -> Observed \cup {NotCounted}]]]
    BY NothingTyped DEF InventoryInit
  <2>4. \A s \in Takes : take[s].status # "open" => Lines(s) = {}
    BY DEF InventoryInit
  <2>5. \A c \in Clients \cup Checkers : work[c].held \subseteq Items /\ work[c].opens \subseteq Items
    BY <1>1, <1>2 DEF Actors
  <2>. QED
    BY <2>1, <2>2, <2>3, <2>4, <2>5 DEF InventoryTypeOK
<1>5. HeldAlone /\ OpensAreWanted /\ TakesAreHeld
  BY <1>1, <1>2 DEF HeldAlone, OpensAreWanted, TakesAreHeld
<1>6. MovesAreHeld
  BY <1>1, <1>2 DEF MovesAreHeld, NoDelta
<1>7. CountsAreRead
  BY <1>1, <1>2 DEF CountsAreRead, Counting
<1>8. OneOpenRestock
  BY DEF InventoryInit, OneOpenRestock
<1>. QED
  BY <1>3, <1>4, <1>5, <1>6, <1>7, <1>8 DEF StockIInv

\* A commit moves each item it counted from what it is to what was counted.
LEMMA CommitsCount ==
    ASSUME StockIInv, [InventoryNext]_stockVars, NEW c \in Clients, Commits(c)
    PROVE  /\ \A s \in work[c].take :
                 take[s].status = "open" /\ \A i \in Lines(s) : stock'[i] = take[s].lines[i]
           /\ work[c].kind = "adjust" => \A i \in work[c].held : stock'[i] = work[c].counts[i]
<1>0. c \in Actors /\ WorkIsTyped
  BY DEF StockIInv, Actors
<1>1. work[c].kind \in Ongoing /\ work'[c].kind = "done"
  BY DEF Commits, Under, Ongoing
<1>2. CommitWork(c)
  <2>1. "done" \notin Ongoing
    BY DEF Ongoing, WorkKinds
  <2>2. ~Standing
    BY <1>1, <2>1 DEF Standing
  <2>3. ASSUME NEW d \in Actors, NEW w, Starts(d, w) PROVE FALSE
    BY <1>0, <1>1, <2>1, <2>3, Replaced DEF Starts
  <2>4. ASSUME NEW d \in Actors, ReadItem(d) PROVE FALSE
    <3>1. PICK w : work' = [work EXCEPT ![d] = w] /\ w.kind \in Ongoing
      BY <2>4, ReadEffect DEF ReadOf
    <3>. QED
      BY <1>0, <1>1, <2>1, <3>1, Replaced
  <2>5. ASSUME NEW d \in Actors, SkipItem(d) PROVE FALSE
    <3>1. PICK w : work' = [work EXCEPT ![d] = w] /\ w.kind \in {"effects", "check"}
      BY <2>5, SkipEffect
    <3>. QED
      BY <1>0, <1>1, <2>1, <3>1, Replaced
  <2>6. ASSUME NEW d \in Actors, Drops(d) PROVE FALSE
    <3>1. PICK w : work' = [work EXCEPT ![d] = w] /\ w.kind \in {"none", "refused"}
      BY <2>6, DropEffect
    <3>. QED
      BY <1>0, <1>1, <2>1, <3>1, Replaced
  <2>7. ASSUME NEW d \in Actors, CommitWork(d) PROVE d = c
    <3>1. PICK w : work' = [work EXCEPT ![d] = w]
      BY <2>7, CommitEffect
    <3>. QED
      BY <1>0, <1>1, <2>1, <3>1, Replaced
  <2>. QED
    BY <2>2, <2>3, <2>4, <2>5, <2>6, <2>7, StockSteps
<1>3. work[c].todo = <<>> /\ \A i \in Items : stock'[i] = stock[i] + work[c].delta[i]
  BY <1>0, <1>2, CommitEffect
<1>4. Left(work[c]) = {}
  BY <1>3 DEF Left
<1>5. ASSUME NEW i \in work[c].held, work[c].kind \in {"adjust", "commit"}
      PROVE  stock'[i] = work[c].counts[i]
  <2>1. i \in Items /\ stock[i] \in Int
    BY <1>0 DEF StockIInv, InventoryTypeOK, WorkIsTyped, WorkTyped
  <2>2. work[c].counts[i] \in Int
    <3>1. Observed \cup {NotCounted} \subseteq Int
      BY InventoryAssumption DEF NotCounted
    <3>2. work[c].counts \in [Items -> Observed \cup {NotCounted}]
      BY <1>0 DEF WorkIsTyped, WorkTyped
    <3>. QED
      BY <2>1, <3>1, <3>2
  <2>3. work[c].delta[i] = work[c].counts[i] - stock[i]
    BY <1>0, <1>5 DEF StockIInv, CountsAreRead, Counting
  <2>. QED
    BY <1>3, <2>1, <2>2, <2>3
<1>6. ASSUME NEW s \in work[c].take
      PROVE  take[s].status = "open" /\ \A i \in Lines(s) : stock'[i] = take[s].lines[i]
  <2>1. work[c].kind = "commit" /\ take[s].status = "open" /\ take[s].lines = work[c].counts
    BY <1>0 DEF StockIInv, TakesAreHeld
  <2>2. work[c].held = {i \in Items : work[c].counts[i] # NotCounted}
    BY <1>0, <1>4, <2>1 DEF StockIInv, CountsAreRead, Counting
  <2>3. Lines(s) = work[c].held
    BY <2>1, <2>2 DEF Lines
  <2>. QED
    BY <1>5, <2>1, <2>3
<1>. QED
  BY <1>5, <1>6

-----------------------------------------------------------------------------
(* The theorems.                                                           *)

LEMMA StockNextIInv == ASSUME StockIInv, [InventoryNext]_stockVars PROVE StockIInv'
BY StockTypeStep, WorkTypedStep, HeldStep, OpensStep, MovesStep, TakesStep, CountsStep DEF StockIInv

\* An item is held by one transaction, which alone moves it and opens its
\* restock task; a stocktake being committed is locked, with the lines that
\* were read; a count has read each of its items once, and what it computed
\* from one stands until it commits.
THEOREM InventoryInvariance == InventorySpec => []StockIInv
BY StockInitIInv, StockNextIInv, PTL DEF InventorySpec

\* The state keeps its types, and a stocktake that is committed or abandoned
\* has no draft line left.
THEOREM InventoryTypeCorrect == InventorySpec => []InventoryTypeOK
<1>1. StockIInv => InventoryTypeOK
  BY DEF StockIInv
<1>. QED
  BY <1>1, InventoryInvariance, PTL

\* However the hourly check, the checks after movements, deadlocks and crashes
\* interleave, an item has one open restock task at most.
THEOREM OneRestock == InventorySpec => []OneOpenRestock
<1>1. StockIInv => OneOpenRestock
  BY DEF StockIInv
<1>. QED
  BY <1>1, InventoryInvariance, PTL

\* A committed stocktake leaves every item it counted at the count on its line,
\* and an adjustment its item at the observed count, whatever moved since.
THEOREM CountsStand == InventorySpec => CountsHold
<1>1. ASSUME StockIInv, [InventoryNext]_stockVars
      PROVE  [\A c \in Clients : Commits(c) =>
                /\ \A s \in work[c].take :
                      take[s].status = "open" /\ \A i \in Lines(s) : stock'[i] = take[s].lines[i]
                /\ work[c].kind = "adjust" => \A i \in work[c].held : stock'[i] = work[c].counts[i]]_stockVars
  BY <1>1, CommitsCount
<1>. QED
  BY <1>1, InventoryInvariance, PTL DEF InventorySpec, CountsHold

-----------------------------------------------------------------------------
(* The five parts side by side, as MCWorkspace composes them.              *)

\* A behaviour of all is one of each, and keeps the types of all.
THEOREM PartsKeepTypes == MCSpec => []PartsTypeOK
<1>1. MCInit => Init /\ LlmInit /\ OwnerInit /\ PushInit /\ InventoryInit
  BY DEF MCInit
<1>2. [MCNext]_allVars => /\ [Next]_vars /\ [LlmNext]_llmVars /\ [OwnerNext]_ownerVars
                          /\ [PushNext]_pushVars /\ [InventoryNext]_stockVars
  BY DEF MCNext, Only, allVars
<1>3. MCSpec => Spec /\ OwnerSpec
  BY <1>1, <1>2, PTL DEF MCSpec, Spec, OwnerSpec
<1>4. MCSpec => []LlmIInv
  BY <1>1, <1>2, LlmInitInv, LlmNextInv, PTL DEF MCSpec
<1>5. MCSpec => []PushIInv
  BY <1>1, <1>2, PushInitIInv, PushNextIInv, PTL DEF MCSpec
<1>6. MCSpec => []StockIInv
  BY <1>1, <1>2, StockInitIInv, StockNextIInv, PTL DEF MCSpec
<1>7. LlmIInv /\ PushIInv /\ StockIInv => LlmTypeOK /\ PushTypeOK /\ InventoryTypeOK
  BY PushIsTyped DEF LlmIInv, StockIInv
<1>. QED
  BY <1>3, <1>4, <1>5, <1>6, <1>7, TypeCorrect, OwnerTypeCorrectness, PTL DEF PartsTypeOK
=============================================================================
