--------------------------- MODULE WebhooksProofs ---------------------------
(* Proofs about Webhooks, for any number of subscriptions and deliveries,  *)
(* any retry schedule and any crashes; for any number of overlapping       *)
(* dispatchers unless a property names one or two.                         *)
EXTENDS Webhooks, FiniteSetTheorems, TLAPS

-----------------------------------------------------------------------------
(* The inductive invariant.                                                *)

\* What a dispatcher carries from its POST to its commit.
FlightIsPosted ==
    \A w \in Dispatchers :
        /\ Posted(w) => flight[w] \in Flights /\ flight[w].d \in born
        /\ flight[w] # NoFlight =>
              /\ posts[flight[w].d] > 0
              /\ flight[w].outcome = "ok" => flight[w].d \in accepted

\* A row's id was minted: no insertion meets a row.
RowsAreBorn == \A d \in Deliveries : row[d] # Absent => d \in born

TickingAreKnown == \A w \in Dispatchers : pc[w] # "idle" => w \in ticked

\* Whoever has a POST of a terminal delivery made it before it was terminal.
StragglersAreKnown ==
    \A d \in Deliveries :
        row[d] # Absent /\ row[d].status \in Terminal => InAir(d) \subseteq stragglers[d]

\* Of two dispatchers, the one that made a delivery terminal is done with it.
LoneStraggler ==
    TwoDispatch => \A d \in Deliveries :
        row[d] # Absent /\ row[d].status \in Terminal =>
            \A v, w \in InAir(d) : v = w

\* What a dispatcher found when it read the row again, and will not write, still
\* stands when it flushes.
StillStands(w) ==
    LET f == flight[w]
        v == Verdicted(f)
        r == row[f.d]
    IN  /\ v.status = Pending => "next" \in f.dirty
        /\ TwoDispatch /\ r # Absent =>
              /\ v.status \in Terminal /\ "status" \notin f.dirty => r.status = v.status
              /\ v.status = Pending /\ "status" \in f.dirty =>
                    /\ r.status \in Terminal
                    /\ "attempt" \notin f.dirty => r.attempt = v.attempt
RereadsStand == \A w \in Dispatchers : pc[w] = "flush" => StillStands(w)

IInv ==
    /\ TypeOK
    /\ RowsAreBorn
    /\ TickingAreKnown
    /\ FlightIsPosted
    /\ StragglersAreKnown
    /\ LoneStraggler
    /\ RereadsStand
    /\ TerminalIsEarned
    /\ PendingIsScheduled

\* The constants of rows and flights, told apart by their status.
LEMMA Sentinels ==
    /\ \A r \in Rows : r # Absent
    /\ \A f \in Flights : f # NoFlight
<1>1. ASSUME NEW r \in Rows PROVE r # Absent
  BY <1>1 DEF Rows, Absent, Terminal, Pending
<1>2. ASSUME NEW f \in Flights PROVE f # NoFlight
  <2>1. "d" \in DOMAIN f
    BY DEF Flights
  <2>2. "d" \notin DOMAIN NoFlight
    BY DEF NoFlight
  <2>. QED
    BY <2>1, <2>2
<1>. QED
  BY <1>1, <1>2

\* What a verdict says, by how the POST ended and what the budget leaves.
LEMMA VerdictFacts ==
    ASSUME NEW f \in Flights
    PROVE  LET v == Verdicted(f)
           IN  /\ v.status \in {"succeeded", "dead_lettered", Pending}
               /\ v.status = "succeeded" => f.outcome = "ok"
               /\ v.status = Pending => f.attempt + 1 < MaxAttempts
               /\ v.status = "dead_lettered" =>
                     f.outcome = "refused" \/ f.attempt + 1 >= MaxAttempts
               /\ v.attempt = f.attempt + 1 /\ v.attempt \in Nat
               /\ v.code = (IF f.outcome = "timeout" THEN "none" ELSE f.outcome)
               /\ v.code \in {"none", "ok", "refused", "transient"}
               /\ v.next = (IF v.status = Pending THEN "waiting" ELSE "null")
<1>. USE AttemptsAssumption
<1>1. f.attempt \in Nat /\ f.outcome \in Outcomes
  BY DEF Flights
<1>. DEFINE status == Verdict(f.outcome, f.attempt + 1)
<1>2. /\ status \in {"succeeded", "dead_lettered", Pending}
      /\ status = "succeeded" => f.outcome = "ok"
      /\ status = Pending => f.attempt + 1 < MaxAttempts
      /\ status = "dead_lettered" => f.outcome = "refused" \/ f.attempt + 1 >= MaxAttempts
  BY <1>1 DEF Verdict, Exhausted, Pending, Outcomes
<1>3. /\ Verdicted(f).status = status
      /\ Verdicted(f).attempt = f.attempt + 1
      /\ Verdicted(f).code = (IF f.outcome = "timeout" THEN "none" ELSE f.outcome)
      /\ Verdicted(f).next = (IF status = Pending THEN "waiting" ELSE "null")
  BY DEF Verdicted
<1>. HIDE DEF status
<1>4. (IF f.outcome = "timeout" THEN "none" ELSE f.outcome) \in {"none", "ok", "refused", "transient"}
  BY <1>1 DEF Outcomes
<1>. QED
  BY <1>1, <1>2, <1>3, <1>4

\* The columns of a verdict that are not written are those that agree.
LEMMA ChangedColumns ==
    ASSUME NEW f, NEW r
    PROVE  /\ Changed(f, r) \in SUBSET Columns
           /\ "status" \in Changed(f, r) <=> Verdicted(f).status # r.status
           /\ "attempt" \in Changed(f, r) <=> Verdicted(f).attempt # r.attempt
           /\ "code" \in Changed(f, r) <=> Verdicted(f).code # r.code
           /\ "next" \in Changed(f, r) <=>
                 Verdicted(f).next # r.next \/ Verdicted(f).status = Pending
<1>. DEFINE v == Verdicted(f)
<1>. HIDE DEF v
<1>1. Changed(f, r) = {c \in Columns : v[c] # r[c]} \cup (IF v.status = Pending THEN {"next"} ELSE {})
  BY DEF Changed, v
<1>2. /\ Changed(f, r) \in SUBSET Columns
      /\ "status" \in Changed(f, r) <=> v.status # r.status
      /\ "attempt" \in Changed(f, r) <=> v.attempt # r.attempt
      /\ "code" \in Changed(f, r) <=> v.code # r.code
      /\ "next" \in Changed(f, r) <=> v.next # r.next \/ v.status = Pending
  BY <1>1 DEF Columns
<1>. QED
  BY <1>2 DEF v

\* The flushed row, column by column.
LEMMA WrittenRow ==
    ASSUME NEW r \in Rows, NEW f \in Flights
    PROVE  LET new == Written(r, f)
               v == Verdicted(f)
           IN  /\ new \in Rows
               /\ new.sub = r.sub
               /\ new.status = IF "status" \in f.dirty THEN v.status ELSE r.status
               /\ new.attempt = IF "attempt" \in f.dirty THEN v.attempt ELSE r.attempt
               /\ new.code = IF "code" \in f.dirty THEN v.code ELSE r.code
               /\ new.next = IF "next" \in f.dirty THEN v.next ELSE r.next
<1>. DEFINE v == Verdicted(f)
<1>1. /\ v.status \in {Pending} \cup Terminal /\ v.attempt \in Nat
      /\ v.code \in {"none", "ok", "refused", "transient"}
      /\ v.next \in {"null", "waiting", "due"}
  BY VerdictFacts DEF Terminal
<1>. HIDE DEF v
<1>2. Written(r, f) = [sub |-> r.sub, recent |-> TRUE,
        status  |-> IF "status"  \in f.dirty THEN v.status  ELSE r.status,
        attempt |-> IF "attempt" \in f.dirty THEN v.attempt ELSE r.attempt,
        code    |-> IF "code"    \in f.dirty THEN v.code    ELSE r.code,
        next    |-> IF "next"    \in f.dirty THEN v.next    ELSE r.next]
  BY DEF Written, v
<1>3. Written(r, f) \in Rows
  BY <1>1, <1>2 DEF Rows
<1>4. /\ Written(r, f).sub = r.sub
      /\ Written(r, f).status = IF "status" \in f.dirty THEN v.status ELSE r.status
      /\ Written(r, f).attempt = IF "attempt" \in f.dirty THEN v.attempt ELSE r.attempt
      /\ Written(r, f).code = IF "code" \in f.dirty THEN v.code ELSE r.code
      /\ Written(r, f).next = IF "next" \in f.dirty THEN v.next ELSE r.next
  BY <1>2
<1>. QED
  BY <1>3, <1>4 DEF v

\* A minted row is pending and due, or suppressed.
LEMMA InsertEffect ==
    ASSUME TypeOK, NEW d \in Deliveries, NEW s \in Subs, InsertDelivery(d, s)
    PROVE  /\ \E new \in Rows :
                 /\ row' = [row EXCEPT ![d] = new]
                 /\ new.status \in {Pending, "suppressed_demo"}
                 /\ new.status = Pending => new.next = "due" /\ new.attempt = 0
                 /\ new.status # Pending => new.next = "null"
                 /\ new.recent = FALSE
           /\ d \notin born /\ born' = born \cup {d}
           /\ born' \in SUBSET Deliveries
           /\ UNCHANGED <<subVars, audits, tickVars, pastVars, crashes>>
<1>. DEFINE new == [sub |-> s, attempt |-> 0, code |-> "none", recent |-> FALSE,
                    status |-> IF DemoMode THEN "suppressed_demo" ELSE Pending,
                    next |-> IF DemoMode THEN "null" ELSE "due"]
<1>1. new \in Rows
  BY DEF Rows, Pending, Terminal
<1>2. /\ new.status \in {Pending, "suppressed_demo"}
      /\ new.status = Pending => new.next = "due" /\ new.attempt = 0
      /\ new.status # Pending => new.next = "null"
      /\ new.recent = FALSE
  BY DEF Pending
<1>3. row' = [row EXCEPT ![d] = new]
  BY DEF InsertDelivery
<1>. HIDE DEF new
<1>. QED
  BY <1>1, <1>2, <1>3 DEF InsertDelivery, TypeOK

\* What a commit after a POST does: to the row of the delivery, and nothing else.
LEMMA StampEffect ==
    ASSUME TypeOK, FlightIsPosted, NEW w \in Dispatchers, Stamp(w)
    PROVE  LET f == flight[w]
               d == flight[w].d
               v == Verdicted(f)
               new == Written(row[d], f)
           IN  /\ pc[w] = "flush" /\ f \in Flights
               /\ d \in Deliveries /\ row[d] \in Rows /\ new \in Rows
               /\ row' = [row EXCEPT ![d] = new]
               /\ posts[d] > 0
               /\ v.status = "succeeded" => d \in accepted
               /\ v.status \in {"succeeded", "dead_lettered", Pending}
               /\ new.status \in {v.status, row[d].status}
               /\ audits' = IF v.status = "dead_lettered"
                              THEN [audits EXCEPT ![d] = @ + 1] ELSE audits
               /\ UNCHANGED <<born, posts, accepted, ticked, crashes>>
<1>. DEFINE f == flight[w]
<1>1. pc[w] = "flush" /\ f \in Flights /\ f # NoFlight /\ row[f.d] # Absent
  BY Sentinels DEF Stamp, FlightIsPosted, Posted
<1>2. f.d \in Deliveries /\ row[f.d] \in Rows
  BY <1>1 DEF Flights, TypeOK
<1>3. /\ row' = [row EXCEPT ![f.d] = Written(row[f.d], f)]
      /\ audits' = IF Verdicted(f).status = "dead_lettered"
                     THEN [audits EXCEPT ![f.d] = @ + 1] ELSE audits
      /\ UNCHANGED <<born, posts, accepted, ticked, crashes>>
  BY DEF Stamp, pastVars
<1>4. posts[f.d] > 0 /\ (f.outcome = "ok" => f.d \in accepted)
  BY <1>1 DEF FlightIsPosted
<1>. HIDE DEF f
<1>5. /\ Verdicted(f).status \in {"succeeded", "dead_lettered", Pending}
      /\ Verdicted(f).status = "succeeded" => f.d \in accepted
  BY <1>1, <1>4, VerdictFacts
<1>6. /\ Written(row[f.d], f) \in Rows
      /\ Written(row[f.d], f).status \in {Verdicted(f).status, row[f.d].status}
  BY <1>1, <1>2, WrittenRow
<1>. QED
  BY <1>1, <1>2, <1>3, <1>4, <1>5, <1>6 DEF f

\* A dispatcher that commits, gives up or dies has nothing in the air.
LEMMA Landing ==
    ASSUME TypeOK, NEW w \in Dispatchers, Stamp(w) \/ StampFails(w) \/ Crash(w)
    PROVE  /\ ~Posted(w)' /\ flight'[w] = NoFlight
           /\ \A v \in Dispatchers : v # w => pc'[v] = pc[v] /\ flight'[v] = flight[v]
           /\ \A d \in Deliveries : InAir(d)' = InAir(d) \ {w}
<1>1. /\ flight' = [flight EXCEPT ![w] = NoFlight]
      /\ pc' = [pc EXCEPT ![w] = "rows"] \/ pc' = [pc EXCEPT ![w] = "idle"]
  BY DEF Stamp, StampFails, Crash, Goto
<1>2. /\ pc'[w] \in {"rows", "idle"} /\ flight'[w] = NoFlight
      /\ \A v \in Dispatchers : v # w => pc'[v] = pc[v] /\ flight'[v] = flight[v]
  BY <1>1 DEF TypeOK
<1>. QED
  BY <1>2 DEF InAir, Posted

\* Reading the row again changes nothing but what is known of it.
LEMMA RereadEffect ==
    ASSUME TypeOK, FlightIsPosted, NEW w \in Dispatchers, Reread(w)
    PROVE  LET d == flight[w].d
               dirty == Changed(flight[w], row[d])
           IN  /\ pc[w] = "stamp" /\ row[d] # Absent
               /\ flight[w] \in Flights /\ flight'[w] \in Flights
               /\ flight' = [flight EXCEPT ![w] = [flight[w] EXCEPT !.dirty = dirty]]
               /\ flight'[w].d = d /\ flight'[w].dirty = dirty
               /\ flight'[w].outcome = flight[w].outcome
               /\ flight'[w].attempt = flight[w].attempt
               /\ Verdicted(flight'[w]) = Verdicted(flight[w])
               /\ pc' = [pc EXCEPT ![w] = "flush"]
               /\ UNCHANGED <<row, born, audits, posts, accepted, ticked, crashes, stragglers>>
<1>. DEFINE dirty == Changed(flight[w], row[flight[w].d])
<1>1. /\ pc[w] = "stamp" /\ row[flight[w].d] # Absent
      /\ flight' = [flight EXCEPT ![w] = [flight[w] EXCEPT !.dirty = dirty]]
      /\ pc' = [pc EXCEPT ![w] = "flush"]
      /\ UNCHANGED <<row, born, audits, posts, accepted, ticked, crashes, stragglers>>
  BY DEF Reread, Goto, rowVars, pastVars
<1>2. flight[w] \in Flights
  BY <1>1 DEF FlightIsPosted, Posted
<1>3. dirty \in SUBSET Columns
  BY ChangedColumns
<1>. HIDE DEF dirty
<1>4. flight'[w] = [flight[w] EXCEPT !.dirty = dirty]
  BY <1>1 DEF TypeOK
<1>5. /\ flight'[w] \in Flights
      /\ flight'[w].d = flight[w].d /\ flight'[w].dirty = dirty
      /\ flight'[w].outcome = flight[w].outcome
      /\ flight'[w].attempt = flight[w].attempt
  BY <1>2, <1>3, <1>4 DEF Flights
<1>6. Verdicted(flight'[w]) = Verdicted(flight[w])
  BY <1>5 DEF Verdicted
<1>. QED
  BY <1>1, <1>2, <1>5, <1>6 DEF dirty

\* A POST of a pending row.
LEMMA PostEffect ==
    ASSUME TypeOK, RowsAreBorn, NEW w \in Dispatchers, NEW d \in Deliveries,
           NEW outcome \in Outcomes, Post(w, d, outcome)
    PROVE  LET loaded == [d |-> d, attempt |-> row[d].attempt, outcome |-> outcome, dirty |-> {}]
           IN  /\ pc[w] = "rows" /\ row[d] \in Rows /\ row[d].status = Pending /\ d \in born
               /\ loaded \in Flights
               /\ flight' = [flight EXCEPT ![w] = loaded]
               /\ pc' = [pc EXCEPT ![w] = "stamp"]
               /\ posts' = [posts EXCEPT ![d] = @ + 1]
               /\ accepted' = IF outcome \in {"ok", "timeout"} THEN accepted \cup {d} ELSE accepted
               /\ UNCHANGED <<row, born, audits, ticked, crashes, stragglers>>
<1>1. /\ pc[w] = "rows" /\ row[d] # Absent /\ row[d].status \notin Terminal
      /\ pc' = [pc EXCEPT ![w] = "stamp"]
      /\ posts' = [posts EXCEPT ![d] = @ + 1]
      /\ accepted' = IF outcome \in {"ok", "timeout"} THEN accepted \cup {d} ELSE accepted
      /\ UNCHANGED <<row, born, audits, ticked, crashes, stragglers>>
  BY DEF Post, Goto, rowVars
<1>2. row[d] \in Rows
  BY <1>1 DEF TypeOK
<1>3. row[d].status = Pending /\ row[d].attempt \in Nat
  BY <1>1, <1>2 DEF Rows
<1>4. [d |-> d, attempt |-> row[d].attempt, outcome |-> outcome, dirty |-> {}] \in Flights
  BY <1>3 DEF Flights
<1>5. flight' = [flight EXCEPT ![w] =
          [d |-> d, attempt |-> row[d].attempt, outcome |-> outcome, dirty |-> {}]]
  BY DEF Post
<1>. QED
  BY <1>1, <1>2, <1>3, <1>4, <1>5 DEF RowsAreBorn

\* A row whose retry window opens or that leaves the health window.
LEMMA TimeEffect ==
    ASSUME TypeOK, NEW d \in Deliveries, RetryWindowOpens(d) \/ LeavesHealthWindow(d)
    PROVE  /\ \E new \in Rows :
                 /\ row' = [row EXCEPT ![d] = new]
                 /\ new.status = row[d].status
                 /\ new.attempt = row[d].attempt
                 /\ new.next \in {row[d].next, "due"}
                 /\ new.sub = row[d].sub /\ new.code = row[d].code
                 /\ new.next # row[d].next => row[d].next = "waiting"
                 /\ new.recent => row[d].recent
           /\ row[d] \in Rows
           /\ UNCHANGED <<subVars, born, audits, tickVars, pastVars, crashes>>
<1>1. row[d] \in Rows
  BY DEF RetryWindowOpens, LeavesHealthWindow, TypeOK
<1>2. CASE RetryWindowOpens(d)
  <2>. DEFINE new == [row[d] EXCEPT !.next = "due"]
  <2>1. /\ new \in Rows
        /\ new.status = row[d].status /\ new.attempt = row[d].attempt /\ new.next = "due"
        /\ new.sub = row[d].sub /\ new.code = row[d].code /\ new.recent = row[d].recent
    BY <1>1 DEF Rows
  <2>2. row' = [row EXCEPT ![d] = new] /\ row[d].next = "waiting"
    BY <1>2 DEF RetryWindowOpens
  <2>. HIDE DEF new
  <2>. QED
    BY <1>1, <1>2, <2>1, <2>2 DEF RetryWindowOpens
<1>3. CASE LeavesHealthWindow(d)
  <2>. DEFINE new == [row[d] EXCEPT !.recent = FALSE]
  <2>1. /\ new \in Rows
        /\ new.status = row[d].status /\ new.attempt = row[d].attempt /\ new.next = row[d].next
        /\ new.sub = row[d].sub /\ new.code = row[d].code /\ new.recent = FALSE
    BY <1>1 DEF Rows
  <2>2. row' = [row EXCEPT ![d] = new]
    BY <1>3 DEF LeavesHealthWindow
  <2>. HIDE DEF new
  <2>. QED
    BY <1>1, <1>3, <2>1, <2>2 DEF LeavesHealthWindow
<1>. QED
  BY <1>2, <1>3

\* The steps that touch neither the log nor what is in the air.
Quiet ==
    /\ UNCHANGED <<row, born, audits, posts, accepted, crashes, flight, stragglers>>
    /\ \A w \in Dispatchers : /\ (pc'[w] = "stamp") = (pc[w] = "stamp")
                             /\ (pc'[w] = "flush") = (pc[w] = "flush")

LEMMA LogSteps ==
    ASSUME TypeOK, [Next]_vars
    PROVE  \/ Quiet
           \/ \E d \in Deliveries, s \in Subs : InsertDelivery(d, s)
           \/ \E s \in Subs : DeleteSubscription(s)
           \/ \E w \in Dispatchers, d \in Deliveries, outcome \in Outcomes : Post(w, d, outcome)
           \/ \E w \in Dispatchers : Reread(w)
           \/ \E w \in Dispatchers : Stamp(w) \/ StampFails(w) \/ Crash(w)
           \/ \E d \in Deliveries : RetryWindowOpens(d) \/ LeavesHealthWindow(d)
<1>. USE DEF TypeOK, subVars, rowVars, tickVars, pastVars, vars
<1>1. ASSUME NEW s \in Subs, NEW active \in BOOLEAN,
             CreateSubscription(s, active) \/ UpdateSubscription(s, active) \/ EnableSubscription(s)
      PROVE  Quiet
  BY <1>1 DEF CreateSubscription, UpdateSubscription, EnableSubscription, Quiet
<1>2. ASSUME NEW d \in Deliveries, NEW s \in Subs, Enqueue(d, s) PROVE InsertDelivery(d, s)
  BY <1>2 DEF Enqueue
<1>3. ASSUME NEW source \in Deliveries, NEW d \in Deliveries, ReplayDelivery(source, d)
      PROVE  \E s \in Subs : InsertDelivery(d, s)
  <2>1. row[source].sub \in Subs
    BY <1>3 DEF ReplayDelivery, Rows
  <2>. QED
    BY <1>3, <2>1 DEF ReplayDelivery
<1>4. ASSUME NEW w \in Dispatchers,
             TickBegin(w) \/ PauseUnhealthy(w) \/ PauseFails(w) \/ SelectDue(w) \/ TickEnd(w)
      PROVE  Quiet
  BY <1>4 DEF TickBegin, PauseUnhealthy, PauseFails, SelectDue, TickEnd, Goto, Quiet
<1>5. ASSUME NEW w \in Dispatchers, NEW d \in Deliveries, SkipRow(w, d) PROVE Quiet
  BY <1>5 DEF SkipRow, Quiet
<1>6. CASE UNCHANGED vars
  BY <1>6 DEF Quiet
<1>7. CASE Request
  BY <1>1, <1>2, <1>3, <1>7 DEF Request
<1>8. ASSUME NEW w \in Dispatchers, Tick(w) \/ Crash(w)
      PROVE  \/ Quiet
             \/ \E d \in Deliveries, outcome \in Outcomes : Post(w, d, outcome)
             \/ Reread(w) \/ Stamp(w) \/ StampFails(w) \/ Crash(w)
  BY <1>4, <1>5, <1>8 DEF Tick
<1>. QED
  BY <1>6, <1>7, <1>8 DEF Next

-----------------------------------------------------------------------------
(* Every conjunct is preserved by every step.                              *)

\* Types are preserved.
LEMMA TypeStep ==
    ASSUME TypeOK, FlightIsPosted, [Next]_vars PROVE TypeOK'
<1>. USE AttemptsAssumption, CrashesAssumption, ModesAssumption
     DEF TypeOK,
         subVars, rowVars, tickVars, pastVars, vars
<1>1. ASSUME NEW s \in Subs, NEW active \in BOOLEAN, CreateSubscription(s, active)
      PROVE  TypeOK'
  BY <1>1 DEF CreateSubscription
<1>2. ASSUME NEW s \in Subs, NEW active \in BOOLEAN, UpdateSubscription(s, active)
      PROVE  TypeOK'
  BY <1>2 DEF UpdateSubscription, Exists
<1>3. ASSUME NEW s \in Subs, EnableSubscription(s)
      PROVE  TypeOK'
  BY <1>3 DEF EnableSubscription, Exists
<1>4. ASSUME NEW s \in Subs, DeleteSubscription(s)
      PROVE  TypeOK'
  BY <1>4 DEF DeleteSubscription, Exists
<1>5. ASSUME NEW d \in Deliveries, NEW s \in Subs, Enqueue(d, s)
      PROVE  TypeOK'
  <2>1. PICK new \in Rows :
            /\ row' = [row EXCEPT ![d] = new]
            /\ new.status \in {Pending, "suppressed_demo"}
            /\ new.status = Pending => new.next = "due" /\ new.attempt = 0
    BY <1>5, InsertEffect DEF Enqueue
  <2>2. /\ born' \in SUBSET Deliveries
        /\ UNCHANGED <<subVars, audits, tickVars, pastVars, crashes>>
    BY <1>5, InsertEffect DEF Enqueue
  <2>. QED
    BY <2>1, <2>2 DEF TypeOK
<1>6. ASSUME NEW source \in Deliveries, NEW d \in Deliveries, ReplayDelivery(source, d)
      PROVE  TypeOK'
  <2>0. row[source].sub \in Subs
    BY <1>6 DEF ReplayDelivery, Rows
  <2>1. PICK new \in Rows :
            /\ row' = [row EXCEPT ![d] = new]
            /\ new.status \in {Pending, "suppressed_demo"}
            /\ new.status = Pending => new.next = "due" /\ new.attempt = 0
    BY <1>6, <2>0, InsertEffect DEF ReplayDelivery
  <2>2. /\ born' \in SUBSET Deliveries
        /\ UNCHANGED <<subVars, audits, tickVars, pastVars, crashes>>
    BY <1>6, <2>0, InsertEffect DEF ReplayDelivery
  <2>. QED
    BY <2>1, <2>2 DEF TypeOK
<1>7. ASSUME NEW w \in Dispatchers, TickBegin(w)
      PROVE  TypeOK'
  BY <1>7 DEF TickBegin, Goto
<1>8. ASSUME NEW w \in Dispatchers, PauseUnhealthy(w)
      PROVE  TypeOK'
  BY <1>8 DEF PauseUnhealthy, Goto
<1>9. ASSUME NEW w \in Dispatchers, PauseFails(w)
      PROVE  TypeOK'
  BY <1>9 DEF PauseFails, Goto
<1>10. ASSUME NEW w \in Dispatchers, SelectDue(w)
      PROVE  TypeOK'
  BY <1>10 DEF SelectDue, Goto, IsDue
<1>11. ASSUME NEW w \in Dispatchers, NEW d \in Deliveries, SkipRow(w, d)
      PROVE  TypeOK'
  BY <1>11 DEF SkipRow, Handled
<1>12. ASSUME NEW w \in Dispatchers, NEW d \in Deliveries,
             NEW outcome \in Outcomes, Post(w, d, outcome)
      PROVE  TypeOK'
  <2>. DEFINE loaded == [d |-> d, attempt |-> row[d].attempt, outcome |-> outcome, dirty |-> {}]
  <2>0. /\ pc' = [pc EXCEPT ![w] = "stamp"]
        /\ flight' = [flight EXCEPT ![w] = loaded]
        /\ UNCHANGED <<row, born, audits, ticked, crashes, stragglers>>
    BY <1>12 DEF Post, Goto
  <2>. row[d] \in Rows
    BY <1>12 DEF Post
  <2>. loaded \in Flights
    BY DEF Rows, Flights
  <2>. HIDE DEF loaded
  <2>1. /\ pc' \in [Dispatchers -> {"idle", "pause", "select", "rows", "stamp", "flush"}]
        /\ flight' \in [Dispatchers -> Flights \cup {NoFlight}]
        /\ UNCHANGED <<row, born, audits, ticked, crashes, stragglers>>
    BY <2>0
  <2>2. posts' \in [Deliveries -> Nat] /\ accepted' \in SUBSET Deliveries
    BY <1>12 DEF Post
  <2>3. UNCHANGED <<sub, evidence, candidates, due>>
    BY <1>12 DEF Post
  <2>. QED
    BY <2>1, <2>2, <2>3
<1>13. ASSUME NEW w \in Dispatchers, Stamp(w)
      PROVE  TypeOK'
  <2>. DEFINE d == flight[w].d
              new == Written(row[d], flight[w])
  <2>1. /\ d \in Deliveries /\ row[d] \in Rows /\ new \in Rows
        /\ row' = [row EXCEPT ![d] = new]
        /\ audits' = IF Verdicted(flight[w]).status = "dead_lettered"
                       THEN [audits EXCEPT ![d] = @ + 1] ELSE audits
    BY <1>13, StampEffect
  <2>2. stragglers' = [stragglers EXCEPT ![d] =
             IF new.status \notin Terminal THEN {}
             ELSE (IF row[d].status \in Terminal THEN @ ELSE InAir(d)) \ {w}]
    BY <1>13 DEF Stamp
  <2>. HIDE DEF d, new
  <2>3. row' \in [Deliveries -> Rows \cup {Absent}] /\ audits' \in [Deliveries -> Nat]
    BY <2>1
  <2>4. InAir(d) \subseteq Dispatchers
    BY DEF InAir
  <2>5. stragglers' \in [Deliveries -> SUBSET Dispatchers]
    BY <2>1, <2>2, <2>4
  <2>6. row[d].sub \in Subs
    BY <2>1 DEF Rows
  <2>. QED
    BY <1>13, <2>3, <2>5, <2>6 DEF Stamp, Goto, Handled, d
<1>14. ASSUME NEW w \in Dispatchers, StampFails(w)
      PROVE  TypeOK'
  BY <1>14 DEF StampFails, Goto, Handled
<1>15. ASSUME NEW w \in Dispatchers, TickEnd(w)
      PROVE  TypeOK'
  BY <1>15 DEF TickEnd, Goto
<1>16. ASSUME NEW w \in Dispatchers, Crash(w)
      PROVE  TypeOK'
  BY <1>16 DEF Crash, Goto
<1>17. ASSUME NEW d \in Deliveries, RetryWindowOpens(d)
      PROVE  TypeOK'
  <2>1. PICK new \in Rows :
            /\ row' = [row EXCEPT ![d] = new]
            /\ new.status = row[d].status
            /\ new.attempt = row[d].attempt
            /\ new.next \in {row[d].next, "due"}
    BY <1>17, TimeEffect
  <2>2. /\ row[d] \in Rows
        /\ UNCHANGED <<subVars, born, audits, tickVars, pastVars, crashes>>
    BY <1>17, TimeEffect
  <2>. QED
    BY <2>1, <2>2, Sentinels DEF TypeOK
<1>18. ASSUME NEW d \in Deliveries, LeavesHealthWindow(d)
      PROVE  TypeOK'
  <2>1. PICK new \in Rows :
            /\ row' = [row EXCEPT ![d] = new]
            /\ new.status = row[d].status
            /\ new.attempt = row[d].attempt
            /\ new.next \in {row[d].next, "due"}
    BY <1>18, TimeEffect
  <2>2. /\ row[d] \in Rows
        /\ UNCHANGED <<subVars, born, audits, tickVars, pastVars, crashes>>
    BY <1>18, TimeEffect
  <2>. QED
    BY <2>1, <2>2, Sentinels DEF TypeOK
<1>19. ASSUME NEW w \in Dispatchers, Reread(w)
      PROVE  TypeOK'
  BY <1>19, RereadEffect DEF Reread
<1>20. CASE UNCHANGED vars
  BY <1>20
<1>. QED
  BY <1>1, <1>2, <1>3, <1>4, <1>5, <1>6, <1>7, <1>8, <1>9, <1>10, <1>11,
     <1>12, <1>13, <1>14, <1>15, <1>16, <1>17, <1>18, <1>19, <1>20
     DEF Next, Request, Tick

\* Whoever is in a tick has begun it, and a dispatcher once heard of stays known.
LEMMA TickingStep ==
    ASSUME TypeOK, TickingAreKnown, [Next]_vars PROVE TickingAreKnown' /\ ticked \subseteq ticked'
<1>. USE DEF TypeOK, TickingAreKnown, subVars, rowVars, tickVars, pastVars, vars, Goto
<1>1. CASE Request
  BY <1>1 DEF Request, CreateSubscription, UpdateSubscription, EnableSubscription, DeleteSubscription,
              Enqueue, ReplayDelivery, InsertDelivery
<1>2. ASSUME NEW w \in Dispatchers, TickBegin(w) PROVE TickingAreKnown' /\ ticked \subseteq ticked'
  BY <1>2 DEF TickBegin
<1>3. ASSUME NEW w \in Dispatchers, PauseUnhealthy(w) \/ PauseFails(w) \/ SelectDue(w)
      PROVE  TickingAreKnown' /\ ticked' = ticked
  BY <1>3 DEF PauseUnhealthy, PauseFails, SelectDue
<1>4. ASSUME NEW w \in Dispatchers, NEW d \in Deliveries,
             SkipRow(w, d) \/ \E outcome \in Outcomes : Post(w, d, outcome)
      PROVE  TickingAreKnown' /\ ticked' = ticked
  BY <1>4 DEF SkipRow, Post
<1>5. ASSUME NEW w \in Dispatchers,
             Reread(w) \/ Stamp(w) \/ StampFails(w) \/ TickEnd(w) \/ Crash(w)
      PROVE  TickingAreKnown' /\ ticked' = ticked
  BY <1>5 DEF Reread, Stamp, StampFails, TickEnd, Crash, Posted
<1>6. ASSUME NEW d \in Deliveries, RetryWindowOpens(d) \/ LeavesHealthWindow(d)
      PROVE  TickingAreKnown' /\ ticked' = ticked
  BY <1>6 DEF RetryWindowOpens, LeavesHealthWindow
<1>7. CASE UNCHANGED vars
  BY <1>7
<1>. QED
  BY <1>1, <1>2, <1>3, <1>4, <1>5, <1>6, <1>7 DEF Next, Tick

\* A flight begins with its POST, and POSTs are not undone.
LEMMA FlightIsPostedStep ==
    ASSUME TypeOK, RowsAreBorn, FlightIsPosted, [Next]_vars PROVE FlightIsPosted'
<1>. USE DEF FlightIsPosted, Posted
<1>1. CASE Quiet
  <2>1. flight' = flight /\ UNCHANGED <<born, posts, accepted>>
    BY <1>1 DEF Quiet
  <2>2. \A w \in Dispatchers : pc'[w] \in {"stamp", "flush"} => pc[w] \in {"stamp", "flush"}
    BY <1>1 DEF Quiet
  <2>. QED
    BY <2>1, <2>2
<1>2. ASSUME NEW d \in Deliveries, NEW s \in Subs, InsertDelivery(d, s) PROVE FlightIsPosted'
  <2>1. born' = born \cup {d} /\ UNCHANGED <<pc, flight, posts, accepted>>
    BY <1>2 DEF InsertDelivery, tickVars, pastVars
  <2>. QED
    BY <2>1
<1>3. ASSUME NEW s \in Subs, DeleteSubscription(s) PROVE FlightIsPosted'
  BY <1>3 DEF DeleteSubscription, tickVars, pastVars
<1>4. ASSUME NEW w \in Dispatchers, NEW d \in Deliveries, NEW outcome \in Outcomes,
             Post(w, d, outcome)
      PROVE  FlightIsPosted'
  <2>. DEFINE loaded == [d |-> d, attempt |-> row[d].attempt, outcome |-> outcome, dirty |-> {}]
  <2>1. /\ d \in born /\ loaded \in Flights
        /\ flight' = [flight EXCEPT ![w] = loaded] /\ pc' = [pc EXCEPT ![w] = "stamp"]
        /\ posts' = [posts EXCEPT ![d] = @ + 1]
        /\ accepted' = IF outcome \in {"ok", "timeout"} THEN accepted \cup {d} ELSE accepted
        /\ UNCHANGED born
    BY <1>4, PostEffect
  <2>2. loaded.d = d /\ loaded.outcome = outcome
    OBVIOUS
  <2>. HIDE DEF loaded
  <2>3. posts' \in [Deliveries -> Nat] /\ posts'[d] > 0
        /\ \A e \in Deliveries : posts[e] > 0 => posts'[e] > 0
    BY <2>1 DEF TypeOK
  <2>4. flight'[w] = loaded /\ \A v \in Dispatchers : v # w => pc'[v] = pc[v] /\ flight'[v] = flight[v]
    BY <2>1 DEF TypeOK
  <2>5. \A v \in Dispatchers : flight[v] # NoFlight => flight[v].d \in Deliveries
    BY DEF TypeOK, Flights
  <2>6. ASSUME NEW v \in Dispatchers
        PROVE  /\ pc'[v] \in {"stamp", "flush"} => flight'[v] \in Flights /\ flight'[v].d \in born'
               /\ flight'[v] # NoFlight =>
                     /\ posts'[flight'[v].d] > 0
                     /\ flight'[v].outcome = "ok" => flight'[v].d \in accepted'
    <3>1. CASE v = w
      BY <2>1, <2>2, <2>3, <2>4, <3>1
    <3>2. CASE v # w
      BY <2>1, <2>3, <2>4, <2>5, <3>2
    <3>. QED
      BY <3>1, <3>2
  <2>. QED
    BY <2>6
<1>5. ASSUME NEW w \in Dispatchers, Reread(w) PROVE FlightIsPosted'
  <2>1. /\ flight'[w] \in Flights /\ flight[w] \in Flights
        /\ flight'[w].d = flight[w].d /\ flight'[w].outcome = flight[w].outcome
        /\ pc[w] = "stamp" /\ UNCHANGED <<born, posts, accepted>>
    BY <1>5, RereadEffect
  <2>2. \A v \in Dispatchers : v # w => pc'[v] = pc[v] /\ flight'[v] = flight[v]
    BY <1>5 DEF Reread, Goto, TypeOK
  <2>3. flight[w] # NoFlight
    BY <2>1, Sentinels
  <2>. QED
    BY <2>1, <2>2, <2>3
<1>6. ASSUME NEW w \in Dispatchers, Stamp(w) \/ StampFails(w) \/ Crash(w) PROVE FlightIsPosted'
  <2>1. /\ ~Posted(w)' /\ flight'[w] = NoFlight
        /\ \A v \in Dispatchers : v # w => pc'[v] = pc[v] /\ flight'[v] = flight[v]
    BY <1>6, Landing
  <2>2. UNCHANGED <<born, posts, accepted>>
    BY <1>6 DEF Stamp, StampFails, Crash, rowVars, pastVars
  <2>. QED
    BY <2>1, <2>2
<1>7. ASSUME NEW d \in Deliveries, RetryWindowOpens(d) \/ LeavesHealthWindow(d) PROVE FlightIsPosted'
  BY <1>7 DEF RetryWindowOpens, LeavesHealthWindow, tickVars, pastVars
<1>. QED
  BY <1>1, <1>2, <1>3, <1>4, <1>5, <1>6, <1>7, LogSteps

\* Rows come and go, an id stays minted.
LEMMA RowsAreBornStep ==
    ASSUME TypeOK, FlightIsPosted, RowsAreBorn, [Next]_vars PROVE RowsAreBorn'
<1>. USE DEF RowsAreBorn
<1>0. row \in [Deliveries -> Rows \cup {Absent}]
  BY DEF TypeOK
<1>1. CASE Quiet
  BY <1>1 DEF Quiet
<1>2. ASSUME NEW d \in Deliveries, NEW s \in Subs, InsertDelivery(d, s) PROVE RowsAreBorn'
  BY <1>0, <1>2 DEF InsertDelivery
<1>3. ASSUME NEW s \in Subs, DeleteSubscription(s) PROVE RowsAreBorn'
  BY <1>3 DEF DeleteSubscription
<1>4. ASSUME NEW w \in Dispatchers, NEW d \in Deliveries, NEW outcome \in Outcomes,
             Post(w, d, outcome)
      PROVE  RowsAreBorn'
  BY <1>4 DEF Post, rowVars
<1>5. ASSUME NEW w \in Dispatchers, Reread(w) \/ StampFails(w) \/ Crash(w) PROVE RowsAreBorn'
  BY <1>5 DEF Reread, StampFails, Crash, rowVars
<1>6. ASSUME NEW w \in Dispatchers, Stamp(w) PROVE RowsAreBorn'
  BY <1>0, <1>6 DEF Stamp
<1>7. ASSUME NEW d \in Deliveries, RetryWindowOpens(d) \/ LeavesHealthWindow(d) PROVE RowsAreBorn'
  BY <1>0, <1>7 DEF RetryWindowOpens, LeavesHealthWindow
<1>. QED
  BY <1>1, <1>2, <1>3, <1>4, <1>5, <1>6, <1>7, LogSteps

\* A terminal status is written by a commit that follows its POST.
LEMMA TerminalIsEarnedStep ==
    ASSUME TypeOK, RowsAreBorn, FlightIsPosted, TerminalIsEarned, [Next]_vars
    PROVE  TerminalIsEarned'
<1>. USE DEF TerminalIsEarned
<1>0. /\ row \in [Deliveries -> Rows \cup {Absent}]
      /\ posts \in [Deliveries -> Nat] /\ audits \in [Deliveries -> Nat]
  BY DEF TypeOK
<1>1. CASE Quiet
  BY <1>1 DEF Quiet
<1>2. ASSUME NEW d \in Deliveries, NEW s \in Subs, InsertDelivery(d, s) PROVE TerminalIsEarned'
  <2>1. PICK new \in Rows : row' = [row EXCEPT ![d] = new] /\ new.status \in {Pending, "suppressed_demo"}
    BY <1>2, InsertEffect
  <2>2. UNCHANGED <<audits, posts, accepted>>
    BY <1>2 DEF InsertDelivery, pastVars
  <2>. QED
    BY <1>0, <2>1, <2>2 DEF Pending
<1>3. ASSUME NEW s \in Subs, DeleteSubscription(s) PROVE TerminalIsEarned'
  BY <1>3 DEF DeleteSubscription, pastVars
<1>4. ASSUME NEW w \in Dispatchers, NEW d \in Deliveries, NEW outcome \in Outcomes,
             Post(w, d, outcome)
      PROVE  TerminalIsEarned'
  <2>1. /\ posts' = [posts EXCEPT ![d] = @ + 1] /\ UNCHANGED <<row, audits>>
        /\ accepted \subseteq accepted'
    BY <1>4 DEF Post, rowVars
  <2>. QED
    BY <1>0, <2>1
<1>5. ASSUME NEW w \in Dispatchers, Reread(w) \/ StampFails(w) \/ Crash(w) PROVE TerminalIsEarned'
  BY <1>5 DEF Reread, StampFails, Crash, rowVars, pastVars
<1>6. ASSUME NEW w \in Dispatchers, Stamp(w) PROVE TerminalIsEarned'
  <2>. DEFINE d == flight[w].d
              status == Verdicted(flight[w]).status
              new == Written(row[d], flight[w])
  <2>1. /\ d \in Deliveries /\ row[d] \in Rows
        /\ row' = [row EXCEPT ![d] = new]
        /\ posts[d] > 0
        /\ status = "succeeded" => d \in accepted
        /\ new.status \in {status, row[d].status}
        /\ audits' = IF status = "dead_lettered" THEN [audits EXCEPT ![d] = @ + 1] ELSE audits
        /\ UNCHANGED <<posts, accepted>>
    BY <1>6, StampEffect
  <2>. HIDE DEF d, status, new
  <2>2. row[d] # Absent
    BY <2>1, Sentinels
  <2>. QED
    BY <1>0, <2>1, <2>2
<1>7. ASSUME NEW d \in Deliveries, RetryWindowOpens(d) \/ LeavesHealthWindow(d) PROVE TerminalIsEarned'
  <2>1. PICK new \in Rows : row' = [row EXCEPT ![d] = new] /\ new.status = row[d].status
    BY <1>7, TimeEffect
  <2>2. row[d] # Absent /\ UNCHANGED <<audits, posts, accepted>>
    BY <1>7 DEF RetryWindowOpens, LeavesHealthWindow, pastVars
  <2>. QED
    BY <1>0, <2>1, <2>2
<1>. QED
  BY <1>1, <1>2, <1>3, <1>4, <1>5, <1>6, <1>7, LogSteps

\* A POST adds its dispatcher to those of its delivery.
LEMMA PostInAir ==
    ASSUME TypeOK, RowsAreBorn, NEW w \in Dispatchers, NEW d \in Deliveries,
           NEW outcome \in Outcomes, Post(w, d, outcome)
    PROVE  /\ InAir(d)' = InAir(d) \cup {w}
           /\ \A e \in Deliveries : e # d => InAir(e)' = InAir(e)
<1>. DEFINE loaded == [d |-> d, attempt |-> row[d].attempt, outcome |-> outcome, dirty |-> {}]
<1>1. /\ pc[w] = "rows" /\ loaded.d = d
      /\ flight' = [flight EXCEPT ![w] = loaded] /\ pc' = [pc EXCEPT ![w] = "stamp"]
  BY DEF Post, Goto
<1>. HIDE DEF loaded
<1>2. /\ pc'[w] = "stamp" /\ flight'[w].d = d
      /\ \A v \in Dispatchers : v # w => pc'[v] = pc[v] /\ flight'[v] = flight[v]
  BY <1>1 DEF TypeOK
<1>. QED
  BY <1>1, <1>2 DEF InAir, Posted

\* To read the row again is not to land.
LEMMA RereadInAir ==
    ASSUME TypeOK, FlightIsPosted, NEW w \in Dispatchers, Reread(w)
    PROVE  \A e \in Deliveries : InAir(e)' = InAir(e)
<1>1. pc[w] = "stamp" /\ flight'[w].d = flight[w].d
  BY RereadEffect
<1>2. /\ pc'[w] = "flush"
      /\ \A v \in Dispatchers : v # w => pc'[v] = pc[v] /\ flight'[v] = flight[v]
  BY DEF Reread, Goto, TypeOK
<1>. QED
  BY <1>1, <1>2 DEF InAir, Posted

\* What a step may do to a terminal delivery.
LEMMA TerminalSteps ==
    ASSUME TypeOK, RowsAreBorn, FlightIsPosted, [Next]_vars,
           NEW d \in Deliveries, row'[d] # Absent, row'[d].status \in Terminal
    PROVE  \/ InAir(d)' = {} /\ row[d] = Absent
           \/ /\ row[d] # Absent /\ row[d].status \in Terminal
              /\ InAir(d)' = InAir(d) /\ stragglers'[d] = stragglers[d]
           \/ \E w \in Dispatchers :
                 /\ row[d] # Absent /\ row[d].status \in Terminal
                 /\ InAir(d)' = InAir(d) \ {w}
                 /\ stragglers[d] \ {w} \subseteq stragglers'[d]
           \/ \E w \in InAir(d) :
                 /\ InAir(d)' = InAir(d) \ {w} /\ row[d] # Absent
                 /\ row[d].status \notin Terminal /\ stragglers'[d] = InAir(d) \ {w}
<1>0. /\ row \in [Deliveries -> Rows \cup {Absent}]
      /\ stragglers \in [Deliveries -> SUBSET Dispatchers]
  BY DEF TypeOK
<1>. DEFINE Same == /\ row[d] # Absent /\ row[d].status \in Terminal
                    /\ InAir(d)' = InAir(d) /\ stragglers'[d] = stragglers[d]
            Less == \E w \in Dispatchers :
                 /\ row[d] # Absent /\ row[d].status \in Terminal
                 /\ InAir(d)' = InAir(d) \ {w}
                 /\ stragglers[d] \ {w} \subseteq stragglers'[d]
            New == \E w \in InAir(d) :
                 /\ InAir(d)' = InAir(d) \ {w} /\ row[d] # Absent
                 /\ row[d].status \notin Terminal /\ stragglers'[d] = InAir(d) \ {w}
<1>1. ASSUME Quiet PROVE Same
  <2>1. row' = row /\ stragglers' = stragglers
    BY <1>1 DEF Quiet
  <2>2. flight' = flight
    BY <1>1 DEF Quiet
  <2>3. \A w \in Dispatchers : Posted(w)' = Posted(w)
    BY <1>1 DEF Quiet, Posted
  <2>4. InAir(d)' = InAir(d)
    BY <2>2, <2>3 DEF InAir
  <2>. QED
    BY <2>1, <2>4
<1>2. ASSUME NEW e \in Deliveries, NEW s \in Subs, InsertDelivery(e, s)
      PROVE  Same \/ (InAir(d)' = {} /\ row[d] = Absent)
  <2>1. /\ e \notin born /\ UNCHANGED <<pc, flight, stragglers>>
        /\ \E new \in Rows : row' = [row EXCEPT ![e] = new]
    BY <1>2, InsertEffect DEF tickVars
  <2>2. InAir(d)' = InAir(d)
    BY <2>1 DEF InAir, Posted
  <2>3. CASE e = d
    BY <2>1, <2>2, <2>3 DEF InAir, FlightIsPosted, RowsAreBorn
  <2>4. CASE e # d
    BY <1>0, <2>1, <2>2, <2>4
  <2>. QED
    BY <2>3, <2>4
<1>3. ASSUME NEW s \in Subs, DeleteSubscription(s) PROVE Same
  <2>1. row'[d] = row[d] /\ UNCHANGED <<pc, flight, stragglers>>
    BY <1>3 DEF DeleteSubscription, tickVars
  <2>2. InAir(d)' = InAir(d)
    BY <2>1 DEF InAir, Posted
  <2>. QED
    BY <2>1, <2>2
<1>4. ASSUME NEW w \in Dispatchers, NEW e \in Deliveries, NEW outcome \in Outcomes,
             Post(w, e, outcome)
      PROVE  Same
  <2>1. row[e].status = Pending /\ UNCHANGED <<row, stragglers>>
    BY <1>4, PostEffect
  <2>2. e # d
    BY <2>1 DEF Terminal, Pending
  <2>3. InAir(d)' = InAir(d)
    BY <1>4, <2>2, PostInAir
  <2>. QED
    BY <2>1, <2>3
<1>5. ASSUME NEW w \in Dispatchers, Reread(w) PROVE Same
  <2>1. InAir(d)' = InAir(d)
    BY <1>5, RereadInAir
  <2>. QED
    BY <1>5, <2>1 DEF Reread, rowVars
<1>6. ASSUME NEW w \in Dispatchers, Stamp(w) PROVE Same \/ Less \/ New
  <2>. DEFINE e == flight[w].d
              new == Written(row[e], flight[w])
  <2>1. pc[w] = "flush" /\ e \in Deliveries /\ row[e] \in Rows /\ row' = [row EXCEPT ![e] = new]
    BY <1>6, StampEffect
  <2>2. stragglers' = [stragglers EXCEPT ![e] =
             IF new.status \notin Terminal THEN {}
             ELSE (IF row[e].status \in Terminal THEN @ ELSE InAir(e)) \ {w}]
    BY <1>6 DEF Stamp
  <2>3. InAir(d)' = InAir(d) \ {w} /\ w \in InAir(e)
    BY <1>6, <2>1, Landing DEF InAir, Posted
  <2>4. \A f \in Deliveries : f # e => w \notin InAir(f)
    BY DEF InAir
  <2>. HIDE DEF e, new
  <2>5. CASE d = e
    <3>1. row[e] # Absent
      BY <2>1, Sentinels
    <3>2. row'[d] = new
      BY <1>0, <2>1, <2>5
    <3>3. stragglers'[d] = (IF row[e].status \in Terminal THEN stragglers[e] ELSE InAir(e)) \ {w}
      BY <1>0, <2>2, <2>5, <3>2
    <3>. QED
      BY <2>3, <2>5, <3>1, <3>3
  <2>6. CASE d # e
    <3>1. row'[d] = row[d] /\ stragglers'[d] = stragglers[d]
      BY <1>0, <2>1, <2>2, <2>6
    <3>2. InAir(d)' = InAir(d)
      BY <2>3, <2>4, <2>6
    <3>. QED
      BY <3>1, <3>2
  <2>. QED
    BY <2>5, <2>6
<1>7. ASSUME NEW w \in Dispatchers, StampFails(w) \/ Crash(w) PROVE Less
  <2>1. row' = row
    BY <1>7 DEF StampFails, Crash, rowVars
  <2>2. stragglers[d] \ {w} \subseteq stragglers'[d]
    BY <1>0, <1>7 DEF StampFails, Crash
  <2>3. InAir(d)' = InAir(d) \ {w}
    BY <1>7, Landing
  <2>. QED
    BY <2>1, <2>2, <2>3
<1>8. ASSUME NEW e \in Deliveries, RetryWindowOpens(e) \/ LeavesHealthWindow(e) PROVE Same
  <2>1. PICK new \in Rows : row' = [row EXCEPT ![e] = new] /\ new.status = row[e].status
    BY <1>8, TimeEffect
  <2>2. row[e] # Absent /\ UNCHANGED <<pc, flight, stragglers>>
    BY <1>8 DEF RetryWindowOpens, LeavesHealthWindow, tickVars
  <2>3. InAir(d)' = InAir(d)
    BY <2>2 DEF InAir, Posted
  <2>. QED
    BY <1>0, <2>1, <2>2, <2>3
<1>. HIDE DEF Same, Less, New
<1>9. Same \/ Less \/ New \/ (InAir(d)' = {} /\ row[d] = Absent)
  BY <1>1, <1>2, <1>3, <1>4, <1>5, <1>6, <1>7, <1>8, LogSteps
<1>. QED
  BY <1>9 DEF Same, Less, New

\* Whoever has a terminal delivery in the air was there when it became so.
LEMMA StragglersStep ==
    ASSUME TypeOK, RowsAreBorn, FlightIsPosted, StragglersAreKnown, [Next]_vars
    PROVE  StragglersAreKnown'
<1>1. ASSUME NEW d \in Deliveries, row'[d] # Absent, row'[d].status \in Terminal
      PROVE  InAir(d)' \subseteq stragglers'[d]
  BY <1>1, TerminalSteps DEF StragglersAreKnown
<1>. QED
  BY <1>1 DEF StragglersAreKnown

\* A second process is not unseen again, nor a third one.
LEMMA FewerDispatch ==
    ASSUME ticked \subseteq ticked'
    PROVE  (OneDispatches' => OneDispatches) /\ (TwoDispatch' => TwoDispatch)
BY DEF OneDispatches, TwoDispatch

\* Of two that have a delivery in the air, one makes it terminal and lands.
LEMMA LoneStragglerStep ==
    ASSUME TypeOK, RowsAreBorn, FlightIsPosted, TickingAreKnown, LoneStraggler, [Next]_vars
    PROVE  LoneStraggler'
<1>1. TwoDispatch' => TwoDispatch
  BY TickingStep, FewerDispatch
<1>2. \A d \in Deliveries : InAir(d) \subseteq ticked
  BY DEF InAir, Posted, TickingAreKnown
<1>3. ASSUME TwoDispatch, NEW d \in Deliveries, row'[d] # Absent, row'[d].status \in Terminal
      PROVE  \A u, v \in InAir(d)' : u = v
  <2>1. ASSUME NEW w \in InAir(d), InAir(d)' = InAir(d) \ {w} PROVE \A u, v \in InAir(d)' : u = v
    BY <1>2, <1>3, <2>1 DEF TwoDispatch
  <2>2. ASSUME row[d] # Absent, row[d].status \in Terminal PROVE \A u, v \in InAir(d) : u = v
    BY <1>3, <2>2 DEF LoneStraggler
  <2>. QED
    BY <1>3, <2>1, <2>2, TerminalSteps
<1>. QED
  BY <1>1, <1>3 DEF LoneStraggler

\* The verdict still stands on a row whose status and attempt are as before.
LEMMA StandsOn ==
    ASSUME NEW v \in Dispatchers, StillStands(v), flight'[v] = flight[v],
           TwoDispatch' => TwoDispatch,
           row'[flight[v].d] # Absent =>
               /\ row[flight[v].d] # Absent
               /\ row'[flight[v].d].status = row[flight[v].d].status
               /\ row'[flight[v].d].attempt = row[flight[v].d].attempt
    PROVE  StillStands(v)'
BY DEF StillStands

\* A row that was terminal when it was read again is left alone by the others.
LEMMA RereadsStandStep ==
    ASSUME TypeOK, RowsAreBorn, TickingAreKnown, FlightIsPosted, LoneStraggler, RereadsStand,
           [Next]_vars
    PROVE  RereadsStand'
<1>0. TwoDispatch' => TwoDispatch
  BY TickingStep, FewerDispatch
<1>1. row \in [Deliveries -> Rows \cup {Absent}]
  BY DEF TypeOK
<1>. SUFFICES ASSUME NEW v \in Dispatchers, pc'[v] = "flush" PROVE StillStands(v)'
  BY DEF RereadsStand
<1>. DEFINE d == flight[v].d
            Aside == /\ pc[v] = "flush" /\ flight'[v] = flight[v]
                     /\ row'[d] # Absent => /\ row[d] # Absent
                                            /\ row'[d].status = row[d].status
                                            /\ row'[d].attempt = row[d].attempt
<1>2. ASSUME Aside PROVE StillStands(v)'
  BY <1>0, <1>2, StandsOn DEF RereadsStand
<1>3. ASSUME pc[v] = "flush" PROVE flight[v] \in Flights /\ d \in Deliveries /\ d \in born
  BY <1>3 DEF FlightIsPosted, Posted, Flights
<1>4. ASSUME Quiet PROVE Aside
  <2>1. flight' = flight /\ row' = row
    BY <1>4 DEF Quiet
  <2>2. pc[v] = "flush"
    BY <1>4 DEF Quiet
  <2>. QED
    BY <2>1, <2>2
<1>5. ASSUME NEW e \in Deliveries, NEW s \in Subs, InsertDelivery(e, s) PROVE Aside
  <2>1. /\ e \notin born /\ UNCHANGED <<pc, flight>>
        /\ \E new \in Rows : row' = [row EXCEPT ![e] = new]
    BY <1>5, InsertEffect DEF tickVars
  <2>2. pc[v] = "flush" /\ d # e
    BY <1>3, <2>1
  <2>. QED
    BY <1>1, <1>3, <2>1, <2>2
<1>6. ASSUME NEW s \in Subs, DeleteSubscription(s) PROVE Aside
  <2>1. /\ UNCHANGED <<pc, flight>>
        /\ \A e \in Deliveries : row'[e] # Absent => row'[e] = row[e]
    BY <1>6 DEF DeleteSubscription, tickVars
  <2>. QED
    BY <1>3, <2>1
<1>7. ASSUME NEW w \in Dispatchers, NEW e \in Deliveries, NEW outcome \in Outcomes,
             Post(w, e, outcome)
      PROVE  Aside
  <2>1. /\ pc' = [pc EXCEPT ![w] = "stamp"] /\ row' = row
        /\ \A u \in Dispatchers : u # w => flight'[u] = flight[u]
    BY <1>7 DEF Post, Goto, rowVars, TypeOK
  <2>2. v # w /\ pc[v] = "flush"
    BY <2>1 DEF TypeOK
  <2>. QED
    BY <2>1, <2>2
<1>8. ASSUME NEW w \in Dispatchers, Reread(w) PROVE StillStands(v)'
  <2>1. CASE v = w
    <3>1. /\ flight[v] \in Flights /\ flight'[v].dirty = Changed(flight[v], row[d])
          /\ flight'[v].d = d /\ Verdicted(flight'[v]) = Verdicted(flight[v])
          /\ row' = row
      BY <1>8, <2>1, RereadEffect
    <3>2. /\ "status" \in flight'[v].dirty <=> Verdicted(flight[v]).status # row[d].status
          /\ "attempt" \in flight'[v].dirty <=> Verdicted(flight[v]).attempt # row[d].attempt
          /\ Verdicted(flight[v]).status = Pending => "next" \in flight'[v].dirty
      BY <3>1, ChangedColumns
    <3>3. d \in Deliveries
      BY <3>1 DEF Flights
    <3>4. row[d] # Absent => row[d].status \in Terminal \cup {Pending}
      BY <1>1, <3>3 DEF Rows
    <3>. QED
      BY <3>1, <3>2, <3>4 DEF StillStands
  <2>2. CASE v # w
    <3>1. pc[v] = "flush" /\ flight'[v] = flight[v] /\ row' = row
      BY <1>8, <2>2 DEF Reread, Goto, rowVars, TypeOK
    <3>. QED
      BY <1>2, <3>1
  <2>. QED
    BY <2>1, <2>2
<1>9. ASSUME NEW w \in Dispatchers, Stamp(w) PROVE StillStands(v)'
  <2>1. /\ v # w /\ pc[v] = "flush" /\ flight'[v] = flight[v]
        /\ pc[w] = "flush" /\ flight[w].d \in Deliveries
        /\ row[flight[w].d] \in Rows /\ row[flight[w].d] # Absent
        /\ \E new \in Rows : row' = [row EXCEPT ![flight[w].d] = new]
    BY <1>9, Landing, StampEffect, Sentinels DEF Posted
  <2>2. CASE flight[w].d # d
    BY <1>1, <1>2, <1>3, <2>1, <2>2
  <2>3. CASE flight[w].d = d
    <3>1. v \in InAir(d) /\ w \in InAir(d)
      BY <2>1, <2>3 DEF InAir, Posted
    <3>2. TwoDispatch => row[d].status \notin Terminal
      BY <2>1, <2>3, <3>1 DEF LoneStraggler
    <3>3. StillStands(v)
      BY <2>1 DEF RereadsStand
    <3>. QED
      BY <1>0, <2>1, <2>3, <3>2, <3>3 DEF StillStands
  <2>. QED
    BY <2>2, <2>3
<1>10. ASSUME NEW w \in Dispatchers, StampFails(w) \/ Crash(w) PROVE Aside
  <2>1. v # w /\ pc[v] = "flush" /\ flight'[v] = flight[v]
    BY <1>10, Landing DEF Posted
  <2>2. row' = row
    BY <1>10 DEF StampFails, Crash, rowVars
  <2>. QED
    BY <2>1, <2>2
<1>11. ASSUME NEW e \in Deliveries, RetryWindowOpens(e) \/ LeavesHealthWindow(e) PROVE Aside
  <2>1. PICK new \in Rows :
            /\ row' = [row EXCEPT ![e] = new]
            /\ new.status = row[e].status /\ new.attempt = row[e].attempt
    BY <1>11, TimeEffect
  <2>2. row[e] # Absent /\ UNCHANGED <<pc, flight>>
    BY <1>11 DEF RetryWindowOpens, LeavesHealthWindow, tickVars
  <2>. QED
    BY <1>1, <1>3, <2>1, <2>2
<1>. HIDE DEF Aside
<1>. QED
  BY <1>2, <1>4, <1>5, <1>6, <1>7, <1>8, <1>9, <1>10, <1>11, LogSteps

\* A commit that leaves a row pending schedules it within the budget.
LEMMA PendingIsScheduledStep ==
    ASSUME IInv, [Next]_vars PROVE PendingIsScheduled'
<1>0. /\ TypeOK /\ RowsAreBorn /\ FlightIsPosted /\ RereadsStand /\ (TwoDispatch' => TwoDispatch)
      /\ row \in [Deliveries -> Rows \cup {Absent}]
  BY TickingStep, FewerDispatch DEF IInv, TypeOK
<1>. DEFINE Scheduled(r) == r # Absent /\ r.status = Pending =>
                                r.next # "null" /\ r.attempt < MaxAttempts
<1>. SUFFICES ASSUME TwoDispatch, NEW d \in Deliveries PROVE Scheduled(row'[d])
  BY <1>0 DEF PendingIsScheduled
<1>1. \A e \in Deliveries : Scheduled(row[e])
  BY DEF IInv, PendingIsScheduled
<1>. HIDE DEF Scheduled
<1>2. ASSUME row' = row PROVE Scheduled(row'[d])
  BY <1>1, <1>2
<1>3. ASSUME NEW e \in Deliveries, NEW new, row' = [row EXCEPT ![e] = new], Scheduled(new)
      PROVE  Scheduled(row'[d])
  BY <1>0, <1>1, <1>3
<1>4. ASSUME NEW e \in Deliveries, NEW s \in Subs, InsertDelivery(e, s) PROVE Scheduled(row'[d])
  <2>1. PICK new \in Rows : /\ row' = [row EXCEPT ![e] = new]
                            /\ new.status = Pending => new.next = "due" /\ new.attempt = 0
    BY <1>0, <1>4, InsertEffect
  <2>2. Scheduled(new)
    BY <2>1, AttemptsAssumption DEF Scheduled
  <2>. QED
    BY <1>3, <2>1, <2>2
<1>5. ASSUME NEW s \in Subs, DeleteSubscription(s) PROVE Scheduled(row'[d])
  <2>1. row'[d] = Absent \/ row'[d] = row[d]
    BY <1>5 DEF DeleteSubscription
  <2>. QED
    BY <1>1, <2>1 DEF Scheduled
<1>6. ASSUME NEW w \in Dispatchers, Stamp(w) PROVE Scheduled(row'[d])
  <2>. DEFINE f == flight[w]
              e == flight[w].d
              v == Verdicted(flight[w])
              new == Written(row[flight[w].d], flight[w])
  <2>1. /\ pc[w] = "flush" /\ f \in Flights /\ e \in Deliveries /\ row[e] \in Rows
        /\ row' = [row EXCEPT ![e] = new]
    BY <1>0, <1>6, StampEffect
  <2>2. row[e] # Absent
    BY <2>1, Sentinels
  <2>3. StillStands(w)
    BY <1>0, <2>1 DEF RereadsStand
  <2>4. /\ v.status \in {"succeeded", "dead_lettered", Pending}
        /\ v.status = Pending => f.attempt + 1 < MaxAttempts
        /\ v.attempt = f.attempt + 1
        /\ v.next = (IF v.status = Pending THEN "waiting" ELSE "null")
    BY <2>1, VerdictFacts
  <2>5. /\ new.status = IF "status" \in f.dirty THEN v.status ELSE row[e].status
        /\ new.attempt = IF "attempt" \in f.dirty THEN v.attempt ELSE row[e].attempt
        /\ new.next = IF "next" \in f.dirty THEN v.next ELSE row[e].next
    BY <2>1, WrittenRow
  <2>6. /\ v.status = Pending => "next" \in f.dirty
        /\ v.status \in Terminal /\ "status" \notin f.dirty => row[e].status = v.status
        /\ v.status = Pending /\ "status" \in f.dirty /\ "attempt" \notin f.dirty =>
              row[e].attempt = v.attempt
    BY <2>2, <2>3 DEF StillStands
  <2>7. row[e].status = Pending => row[e].attempt < MaxAttempts
    BY <1>1, <2>1, <2>2 DEF Scheduled
  <2>. HIDE DEF f, e, v, new
  <2>8. ASSUME new.status = Pending PROVE v.status = Pending
    BY <2>4, <2>5, <2>6, <2>8 DEF Terminal, Pending
  <2>9. ASSUME new.status = Pending PROVE new.next = "waiting" /\ new.attempt < MaxAttempts
    BY <2>4, <2>5, <2>6, <2>7, <2>8, <2>9
  <2>10. Scheduled(new)
    BY <2>9 DEF Scheduled
  <2>. QED
    BY <1>3, <2>1, <2>10
<1>7. ASSUME NEW e \in Deliveries, RetryWindowOpens(e) \/ LeavesHealthWindow(e) PROVE Scheduled(row'[d])
  <2>1. PICK new \in Rows :
            /\ row' = [row EXCEPT ![e] = new]
            /\ new.status = row[e].status /\ new.attempt = row[e].attempt
            /\ new.next \in {row[e].next, "due"}
    BY <1>0, <1>7, TimeEffect
  <2>2. row[e] # Absent
    BY <1>7 DEF RetryWindowOpens, LeavesHealthWindow
  <2>3. Scheduled(new)
    BY <1>1, <2>1, <2>2 DEF Scheduled
  <2>. QED
    BY <1>3, <2>1, <2>3
<1>8. ASSUME \/ Quiet
             \/ \E w \in Dispatchers, e \in Deliveries, outcome \in Outcomes : Post(w, e, outcome)
             \/ \E w \in Dispatchers : Reread(w) \/ StampFails(w) \/ Crash(w)
      PROVE  row' = row
  BY <1>8 DEF Quiet, Post, Reread, StampFails, Crash, rowVars
<1>. QED
  BY <1>0, <1>2, <1>4, <1>5, <1>6, <1>7, <1>8, LogSteps

-----------------------------------------------------------------------------
(* The invariant holds of every behaviour.                                 *)

\* Initially nothing was sent.
LEMMA InitIInv == Init => IInv
<1>. SUFFICES ASSUME Init PROVE IInv
  OBVIOUS
<1>1. TypeOK /\ RowsAreBorn /\ TickingAreKnown
  BY CrashesAssumption DEF Init, TypeOK, RowsAreBorn, TickingAreKnown
<1>2. FlightIsPosted /\ RereadsStand
  BY DEF Init, FlightIsPosted, RereadsStand, Posted, NoFlight
<1>3. StragglersAreKnown /\ LoneStraggler /\ TerminalIsEarned /\ PendingIsScheduled
  BY DEF Init, StragglersAreKnown, LoneStraggler, TerminalIsEarned, PendingIsScheduled
<1>. QED
  BY <1>1, <1>2, <1>3 DEF IInv

\* IInv is inductive.
LEMMA NextIInv == IInv /\ [Next]_vars => IInv'
BY TypeStep, RowsAreBornStep, TickingStep, FlightIsPostedStep, StragglersStep,
   LoneStragglerStep, RereadsStandStep, TerminalIsEarnedStep, PendingIsScheduledStep
   DEF IInv

\* Every reachable state satisfies the inductive invariant.
THEOREM Invariance == Spec => []IInv
BY InitIInv, NextIInv, PTL DEF Spec

\* Types, for every number of dispatchers, subscriptions and deliveries.
THEOREM TypeCorrect == Spec => []TypeOK
BY Invariance, PTL DEF IInv

\* A delivery marked succeeded was processed by its receiver, a dead letter was
\* attempted and audited: _classify_response and deliver, with any overlap of
\* dispatchers and any crashes.
THEOREM EarnedTerminals == Spec => []TerminalIsEarned
BY Invariance, PTL DEF IInv

\* No interleaving of two dispatchers' commits leaves a pending delivery without
\* a next attempt, or with its budget used up: _stamp_transient and
\* update_delivery_attempt.
THEOREM ScheduledPendings == Spec => []PendingIsScheduled
BY Invariance, PTL DEF IInv

\* The log is honest about finished and pending deliveries.
THEOREM HonestLog == Spec => []LogIsHonest
BY EarnedTerminals, ScheduledPendings, PTL DEF LogIsHonest

\* What OnlyStragglersReopen says of a step.
LEMMA ReopeningStep ==
    ASSUME IInv, [Next]_vars, NEW d \in Deliveries, row[d] # Absent, row[d].status \in Terminal
    PROVE  \/ row'[d] = Absent
           \/ /\ posts'[d] = posts[d]
              /\ \/ row'[d].status \in Terminal
                 \/ \E w \in stragglers[d] :
                       /\ w \in InAir(d) /\ w \notin InAir(d)'
                       /\ Verdicted(flight[w]).status = Pending
<1>0. /\ TypeOK /\ RowsAreBorn /\ FlightIsPosted /\ InAir(d) \subseteq stragglers[d]
      /\ row \in [Deliveries -> Rows \cup {Absent}] /\ posts \in [Deliveries -> Nat]
  BY DEF IInv, StragglersAreKnown, TypeOK
<1>1. ASSUME Quiet PROVE row'[d] = row[d] /\ posts'[d] = posts[d]
  BY <1>1 DEF Quiet
<1>2. ASSUME NEW e \in Deliveries, NEW s \in Subs, InsertDelivery(e, s)
      PROVE  row'[d] = row[d] /\ posts'[d] = posts[d]
  <2>1. /\ e \notin born /\ UNCHANGED posts /\ \E new \in Rows : row' = [row EXCEPT ![e] = new]
    BY <1>0, <1>2, InsertEffect DEF pastVars
  <2>. QED
    BY <1>0, <2>1 DEF RowsAreBorn
<1>3. ASSUME NEW s \in Subs, DeleteSubscription(s)
      PROVE  row'[d] = Absent \/ (row'[d] = row[d] /\ posts'[d] = posts[d])
  BY <1>3 DEF DeleteSubscription, pastVars
<1>4. ASSUME NEW w \in Dispatchers, NEW e \in Deliveries, NEW outcome \in Outcomes,
             Post(w, e, outcome)
      PROVE  row'[d] = row[d] /\ posts'[d] = posts[d]
  <2>1. row' = row /\ posts' = [posts EXCEPT ![e] = @ + 1] /\ e # d
    BY <1>4 DEF Post, rowVars
  <2>. QED
    BY <1>0, <2>1
<1>5. ASSUME NEW w \in Dispatchers, Reread(w) \/ StampFails(w) \/ Crash(w)
      PROVE  row'[d] = row[d] /\ posts'[d] = posts[d]
  BY <1>5 DEF Reread, StampFails, Crash, rowVars, pastVars
<1>6. ASSUME NEW w \in Dispatchers, Stamp(w)
      PROVE  /\ posts'[d] = posts[d]
             /\ \/ row'[d].status \in Terminal
                \/ /\ w \in InAir(d) /\ w \notin InAir(d)'
                   /\ Verdicted(flight[w]).status = Pending
  <2>. DEFINE e == flight[w].d
              status == Verdicted(flight[w]).status
              new == Written(row[flight[w].d], flight[w])
  <2>1. /\ pc[w] = "flush" /\ e \in Deliveries
        /\ row' = [row EXCEPT ![e] = new] /\ posts' = posts
        /\ status \in {"succeeded", "dead_lettered", Pending}
        /\ new.status \in {status, row[e].status}
    BY <1>0, <1>6, StampEffect
  <2>2. InAir(d)' = InAir(d) \ {w}
    BY <1>0, <1>6, Landing
  <2>3. e = d => w \in InAir(d)
    BY <2>1 DEF InAir, Posted
  <2>. HIDE DEF e, new
  <2>4. CASE e = d
    <3>1. row'[d].status \in {status, row[d].status}
      BY <1>0, <2>1, <2>4
    <3>2. row'[d].status \in Terminal \/ status = Pending
      BY <2>1, <3>1 DEF Terminal
    <3>. QED
      BY <2>1, <2>2, <2>3, <2>4, <3>2
  <2>5. CASE e # d
    BY <1>0, <2>1, <2>5
  <2>. QED
    BY <2>4, <2>5
<1>7. ASSUME NEW e \in Deliveries, RetryWindowOpens(e) \/ LeavesHealthWindow(e)
      PROVE  row'[d].status = row[d].status /\ posts'[d] = posts[d]
  <2>1. PICK new \in Rows : row' = [row EXCEPT ![e] = new] /\ new.status = row[e].status
    BY <1>0, <1>7, TimeEffect
  <2>2. posts' = posts
    BY <1>7 DEF RetryWindowOpens, LeavesHealthWindow, pastVars
  <2>. QED
    BY <1>0, <2>1, <2>2
<1>. QED
  BY <1>0, <1>1, <1>2, <1>3, <1>4, <1>5, <1>6, <1>7, LogSteps

\* No step POSTs a terminal delivery, and only the late commit of a POST that was
\* in the air when it became terminal reopens it: deliver's terminal check and
\* update_delivery_attempt.
THEOREM StragglersOnly == Spec => OnlyStragglersReopen
<1>1. IInv /\ [Next]_vars =>
        [\A d \in Deliveries :
            row[d] # Absent /\ row[d].status \in Terminal =>
                \/ row'[d] = Absent
                \/ /\ posts'[d] = posts[d]
                   /\ \/ row'[d].status \in Terminal
                      \/ \E w \in stragglers[d] :
                            /\ w \in InAir(d) /\ w \notin InAir(d)'
                            /\ Verdicted(flight[w]).status = Pending]_vars
  BY ReopeningStep
<1>. QED
  BY <1>1, Invariance, PTL DEF Spec, OnlyStragglersReopen

-----------------------------------------------------------------------------
(* One dispatcher: what it has read still stands when it writes.           *)

\* Deliveries are minted one by one, and nothing happens to one before.
Minted ==
    /\ IsFiniteSet(born)
    /\ \A d \in Deliveries : d \notin born => row[d] = Absent /\ posts[d] = 0 /\ audits[d] = 0

\* The row in the air is still as it was loaded, unless it was deleted, and what
\* its dispatcher will not write is in it already.
Fresh(w) ==
    LET f == flight[w]
        v == Verdicted(f)
        r == row[f.d]
    IN  /\ r.status = Pending /\ r.attempt = f.attempt
        /\ pc[w] = "flush" =>
              /\ v.status = r.status \/ "status" \in f.dirty
              /\ v.code = r.code \/ "code" \in f.dirty
              /\ "attempt" \in f.dirty /\ "next" \in f.dirty
FlightsAreFresh ==
    OneDispatches => \A w \in Dispatchers :
        Posted(w) /\ row[flight[w].d] # Absent => Fresh(w)

TerminalsAreDone ==
    OneDispatches => \A d \in Deliveries :
        row[d] # Absent /\ row[d].status \in Terminal => row[d].next = "null"

\* Every POST but the one in the air has been counted, or its process has died.
Flying(d) == InAir(d) # {}
PostsAreCounted ==
    OneDispatches => \A d \in Deliveries : row[d] # Absent =>
        posts[d] <= row[d].attempt + crashes + (IF Flying(d) THEN 1 ELSE 0)

\* What a pause stands on: it outlives the health window, in which it was found.
Failing(s) ==
    {d \in Deliveries :
        /\ row[d] # Absent /\ row[d].sub = s
        /\ row[d].attempt > 0
        /\ ~(row[d].code = "ok" /\ row[d].attempt = 1)}
RecentWereAttempted ==
    OneDispatches => \A d \in Deliveries :
        row[d] # Absent /\ row[d].recent => row[d].attempt > 0
CandidatesAreFailing ==
    OneDispatches => \A w \in Dispatchers : \A s \in candidates[w] :
        sub[s] # "deleted" => MinDeliveries <= Cardinality(Failing(s))

ExactIInv ==
    /\ Minted
    /\ FlightsAreFresh
    /\ TerminalsAreDone
    /\ PostsAreCounted
    /\ PostsAreBounded
    /\ DeadLettersAreExact
    /\ RecentWereAttempted
    /\ CandidatesAreFailing
    /\ PauseIsEarned

\* One dispatcher is at most two.
LEMMA OneIsTwo == OneDispatches => TwoDispatch
BY DEF OneDispatches, TwoDispatch

\* The commit of the one dispatcher, for which the row is as it was loaded.
LEMMA FreshStamp ==
    ASSUME IInv, FlightsAreFresh, OneDispatches, NEW w \in Dispatchers, Stamp(w)
    PROVE  \E d \in Deliveries, new \in Rows :
              /\ d = flight[w].d /\ row[d] \in Rows /\ row[d].status = Pending
              /\ row' = [row EXCEPT ![d] = new]
              /\ new.sub = row[d].sub
              /\ new.attempt = row[d].attempt + 1 /\ new.attempt <= MaxAttempts
              /\ new.status \in {"succeeded", "dead_lettered", Pending}
              /\ new.status # Pending => new.next = "null"
              /\ new.status = "dead_lettered" =>
                    new.code = "refused" \/ new.attempt = MaxAttempts
              /\ audits' = IF new.status = "dead_lettered"
                             THEN [audits EXCEPT ![d] = @ + 1] ELSE audits
<1>. USE AttemptsAssumption
<1>. DEFINE f == flight[w]
            v == Verdicted(flight[w])
            r == row[flight[w].d]
            new == Written(row[flight[w].d], flight[w])
<1>1. /\ pc[w] = "flush" /\ f \in Flights /\ f.d \in Deliveries /\ r \in Rows /\ new \in Rows
      /\ row' = [row EXCEPT ![f.d] = new]
      /\ audits' = IF v.status = "dead_lettered" THEN [audits EXCEPT ![f.d] = @ + 1] ELSE audits
  BY StampEffect DEF IInv
<1>2. r # Absent
  BY <1>1, Sentinels
<1>3. Fresh(w)
  BY <1>1, <1>2 DEF FlightsAreFresh, Posted
<1>4. /\ r.status = Pending /\ r.attempt = f.attempt
      /\ v.status = r.status \/ "status" \in f.dirty
      /\ v.code = r.code \/ "code" \in f.dirty
      /\ "attempt" \in f.dirty /\ "next" \in f.dirty
  BY <1>1, <1>3 DEF Fresh
<1>5. /\ v.status \in {"succeeded", "dead_lettered", Pending}
      /\ v.status = "dead_lettered" => f.outcome = "refused" \/ f.attempt + 1 >= MaxAttempts
      /\ v.attempt = f.attempt + 1
      /\ v.code = (IF f.outcome = "timeout" THEN "none" ELSE f.outcome)
      /\ v.next = (IF v.status = Pending THEN "waiting" ELSE "null")
  BY <1>1, VerdictFacts
<1>6. /\ new.sub = r.sub
      /\ new.status = IF "status" \in f.dirty THEN v.status ELSE r.status
      /\ new.attempt = IF "attempt" \in f.dirty THEN v.attempt ELSE r.attempt
      /\ new.code = IF "code" \in f.dirty THEN v.code ELSE r.code
      /\ new.next = IF "next" \in f.dirty THEN v.next ELSE r.next
  BY <1>1, WrittenRow
<1>7. f.attempt \in Nat /\ f.attempt < MaxAttempts
  <2>1. r.attempt \in Nat
    BY <1>1 DEF Rows
  <2>2. r.attempt < MaxAttempts
    BY <1>1, <1>2, <1>4, OneIsTwo DEF IInv, PendingIsScheduled
  <2>. QED
    BY <1>4, <2>1, <2>2
<1>. HIDE DEF f, v, r, new
<1>8. /\ new.status = v.status /\ new.code = v.code
      /\ new.attempt = f.attempt + 1 /\ new.next = v.next
  BY <1>4, <1>5, <1>6
<1>9. new.attempt = r.attempt + 1 /\ new.attempt <= MaxAttempts
  BY <1>4, <1>7, <1>8
<1>10. new.status = "dead_lettered" => new.code = "refused" \/ new.attempt = MaxAttempts
  BY <1>5, <1>7, <1>8
<1>11. /\ new.status \in {"succeeded", "dead_lettered", Pending}
       /\ new.status # Pending => new.next = "null"
  BY <1>5, <1>8
<1>12. audits' = IF new.status = "dead_lettered" THEN [audits EXCEPT ![f.d] = @ + 1] ELSE audits
  BY <1>1, <1>8
<1>. QED
  BY <1>1, <1>4, <1>6, <1>9, <1>10, <1>11, <1>12 DEF f, r

LEMMA MintedStep ==
    ASSUME TypeOK, RowsAreBorn, FlightIsPosted, Minted, [Next]_vars PROVE Minted'
<1>. USE DEF TypeOK, Minted, subVars, rowVars, tickVars, pastVars, vars
<1>1. CASE Quiet
  BY <1>1 DEF Quiet
<1>2. ASSUME NEW d \in Deliveries, NEW s \in Subs, InsertDelivery(d, s) PROVE Minted'
  <2>1. PICK new \in Rows : row' = [row EXCEPT ![d] = new]
    BY ZenonT(40), <1>2, InsertEffect
  <2>2. born' = born \cup {d} /\ UNCHANGED <<audits, tickVars, pastVars>>
    BY <1>2, InsertEffect
  <2>3. IsFiniteSet(born')
    BY <2>2, FS_AddElement
  <2>. QED
    BY <2>1, <2>2, <2>3
<1>3. ASSUME NEW s \in Subs, DeleteSubscription(s) PROVE Minted'
  BY <1>3 DEF DeleteSubscription
<1>4. ASSUME NEW w \in Dispatchers, NEW d \in Deliveries, NEW outcome \in Outcomes,
             Post(w, d, outcome)
      PROVE  Minted'
  <2>1. d \in born
    BY <1>4 DEF Post
  <2>2. posts' = [posts EXCEPT ![d] = @ + 1] /\ UNCHANGED <<row, born, audits>>
    BY <1>4 DEF Post
  <2>. QED
    BY <2>1, <2>2
<1>5. ASSUME NEW w \in Dispatchers, Stamp(w) PROVE Minted'
  <2>. DEFINE d == flight[w].d
              new == Written(row[d], flight[w])
  <2>1. /\ d \in Deliveries /\ row' = [row EXCEPT ![d] = new]
        /\ audits' = IF Verdicted(flight[w]).status = "dead_lettered"
                       THEN [audits EXCEPT ![d] = @ + 1] ELSE audits
        /\ UNCHANGED <<born, posts>> /\ posts[d] > 0
    BY ZenonT(40), <1>5, StampEffect
  <2>. HIDE DEF d, new
  <2>2. d \in born
    BY <2>1
  <2>. QED
    BY <2>1, <2>2
<1>6. ASSUME NEW w \in Dispatchers, Reread(w) \/ StampFails(w) \/ Crash(w) PROVE Minted'
  BY <1>6 DEF Reread, StampFails, Crash
<1>7. ASSUME NEW d \in Deliveries, RetryWindowOpens(d) \/ LeavesHealthWindow(d) PROVE Minted'
  <2>1. PICK new \in Rows : row' = [row EXCEPT ![d] = new]
    BY <1>7, TimeEffect
  <2>2. row[d] \in Rows /\ UNCHANGED <<born, audits, tickVars, pastVars>>
    BY <1>7, TimeEffect
  <2>3. d \in born
    BY <2>2, Sentinels
  <2>. QED
    BY <2>1, <2>2, <2>3
<1>. QED
  BY <1>1, <1>2, <1>3, <1>4, <1>5, <1>6, <1>7, LogSteps

\* There is one tick at a time.
LEMMA Alone ==
    ASSUME TickingAreKnown, OneDispatches, NEW v \in Dispatchers, NEW w \in Dispatchers,
           pc[v] # "idle", pc[w] # "idle"
    PROVE  v = w
BY DEF TickingAreKnown, OneDispatches

LEMMA RecentStep ==
    ASSUME IInv, FlightsAreFresh, RecentWereAttempted, OneDispatches, [Next]_vars PROVE RecentWereAttempted'
<1>. USE DEF IInv, TypeOK, RecentWereAttempted, subVars, rowVars, tickVars, pastVars, vars
<1>1. CASE Quiet
  BY <1>1 DEF Quiet
<1>2. ASSUME NEW d \in Deliveries, NEW s \in Subs, InsertDelivery(d, s) PROVE RecentWereAttempted'
  <2>1. PICK new \in Rows : row' = [row EXCEPT ![d] = new] /\ new.recent = FALSE
    BY <1>2, InsertEffect
  <2>. QED
    BY <2>1
<1>3. ASSUME NEW s \in Subs, DeleteSubscription(s) PROVE RecentWereAttempted'
  BY <1>3 DEF DeleteSubscription
<1>4. ASSUME NEW w \in Dispatchers, NEW d \in Deliveries, NEW outcome \in Outcomes,
             Post(w, d, outcome)
      PROVE  RecentWereAttempted'
  BY <1>4 DEF Post
<1>5. ASSUME NEW w \in Dispatchers, Stamp(w) PROVE RecentWereAttempted'
  <2>1. PICK d \in Deliveries, new \in Rows :
            /\ row[d] \in Rows /\ row' = [row EXCEPT ![d] = new]
            /\ new.attempt = row[d].attempt + 1
    BY <1>5, FreshStamp
  <2>2. new.attempt > 0
    BY <2>1 DEF Rows
  <2>. QED
    BY <2>1, <2>2
<1>6. ASSUME NEW w \in Dispatchers, Reread(w) \/ StampFails(w) \/ Crash(w)
      PROVE  RecentWereAttempted'
  BY <1>6 DEF Reread, StampFails, Crash
<1>7. ASSUME NEW d \in Deliveries, RetryWindowOpens(d) \/ LeavesHealthWindow(d)
      PROVE  RecentWereAttempted'
  <2>1. PICK new \in Rows :
            row' = [row EXCEPT ![d] = new] /\ new.attempt = row[d].attempt /\ (new.recent => row[d].recent)
    BY <1>7, TimeEffect
  <2>2. row[d] # Absent
    BY <1>7, TimeEffect, Sentinels
  <2>. QED
    BY <2>1, <2>2
<1>. QED
  BY <1>1, <1>2, <1>3, <1>4, <1>5, <1>6, <1>7, LogSteps

\* What the one dispatcher holds is the row, and finished rows have no next attempt.
LEMMA FreshStep ==
    ASSUME IInv, FlightsAreFresh, OneDispatches, [Next]_vars
    PROVE  FlightsAreFresh'
<1>0. /\ TypeOK /\ RowsAreBorn /\ FlightIsPosted
      /\ row \in [Deliveries -> Rows \cup {Absent}]
  BY DEF IInv, TypeOK
<1>. SUFFICES ASSUME NEW v \in Dispatchers, Posted(v)', row'[flight'[v].d] # Absent
              PROVE  Fresh(v)'
  BY DEF FlightsAreFresh
<1>. DEFINE d == flight[v].d
            Aside == /\ flight'[v] = flight[v] /\ Posted(v)
                     /\ pc'[v] = "flush" => pc[v] = "flush"
                     /\ row[d] # Absent
                     /\ row'[d].status = row[d].status
                     /\ row'[d].attempt = row[d].attempt
                     /\ row'[d].code = row[d].code
<1>1. ASSUME Aside PROVE Fresh(v)'
  <2>1. Fresh(v)
    BY <1>1 DEF FlightsAreFresh
  <2>. QED
    BY <1>1, <2>1 DEF Fresh
<1>2. ASSUME Posted(v) PROVE d \in Deliveries /\ d \in born
  BY <1>0, <1>2 DEF FlightIsPosted, Flights
<1>3. ASSUME Quiet PROVE Aside
  <2>1. flight' = flight /\ row' = row
    BY <1>3 DEF Quiet
  <2>2. Posted(v) /\ (pc'[v] = "flush" => pc[v] = "flush")
    BY <1>3 DEF Quiet, Posted
  <2>. QED
    BY <2>1, <2>2
<1>4. ASSUME NEW e \in Deliveries, NEW s \in Subs, InsertDelivery(e, s) PROVE Aside
  <2>1. /\ e \notin born /\ UNCHANGED <<pc, flight>>
        /\ \E new \in Rows : row' = [row EXCEPT ![e] = new]
    BY <1>0, <1>4, InsertEffect DEF tickVars
  <2>2. Posted(v)
    BY <2>1 DEF Posted
  <2>3. d # e /\ row'[d] = row[d]
    BY <1>0, <1>2, <2>1, <2>2
  <2>. QED
    BY <2>1, <2>2, <2>3
<1>5. ASSUME NEW s \in Subs, DeleteSubscription(s) PROVE Aside
  <2>1. /\ UNCHANGED <<pc, flight>>
        /\ \A e \in Deliveries : row'[e] # Absent => row'[e] = row[e]
    BY <1>5 DEF DeleteSubscription, tickVars
  <2>2. Posted(v)
    BY <2>1 DEF Posted
  <2>. QED
    BY <1>2, <2>1, <2>2
<1>6. ASSUME NEW w \in Dispatchers, NEW e \in Deliveries, NEW outcome \in Outcomes,
             Post(w, e, outcome)
      PROVE  Fresh(v)'
  <2>. DEFINE loaded == [d |-> e, attempt |-> row[e].attempt, outcome |-> outcome, dirty |-> {}]
  <2>1. /\ pc[w] = "rows" /\ row[e].status = Pending /\ row' = row
        /\ flight' = [flight EXCEPT ![w] = loaded] /\ pc' = [pc EXCEPT ![w] = "stamp"]
    <3>1. row[e].status = Pending
      BY <1>0, <1>6, PostEffect
    <3>. QED
      BY <1>6, <3>1 DEF Post, Goto, rowVars
  <2>2. loaded.d = e /\ loaded.attempt = row[e].attempt
    OBVIOUS
  <2>. HIDE DEF loaded
  <2>3. v # w => pc'[v] = pc[v]
    BY <1>0, <2>1 DEF TypeOK
  <2>4. pc'[v] # "idle"
    BY DEF Posted
  <2>5. v = w
    BY <2>1, <2>3, <2>4, Alone DEF IInv
  <2>6. pc'[v] = "stamp" /\ flight'[v] = loaded
    BY <1>0, <2>1, <2>5 DEF TypeOK
  <2>. QED
    BY <2>1, <2>2, <2>6 DEF Fresh
<1>7. ASSUME NEW w \in Dispatchers, Reread(w) PROVE Fresh(v)'
  <2>1. pc[w] = "stamp" /\ row' = row
    BY <1>0, <1>7, RereadEffect
  <2>2. v # w => pc'[v] = pc[v]
    BY <1>0, <1>7 DEF Reread, Goto, TypeOK
  <2>3. v = w
    <3>1. pc'[v] # "idle"
      BY DEF Posted
    <3>. QED
      BY <2>1, <2>2, <3>1, Alone DEF IInv
  <2>4. /\ flight[v] \in Flights /\ flight'[v].dirty = Changed(flight[v], row[d])
        /\ flight'[v].d = d /\ flight'[v].attempt = flight[v].attempt
        /\ Verdicted(flight'[v]) = Verdicted(flight[v])
    BY <1>0, <1>7, <2>3, RereadEffect
  <2>5. Posted(v) /\ row[d] # Absent
    BY <2>1, <2>3, <2>4 DEF Posted
  <2>6. Fresh(v)
    BY <2>5 DEF FlightsAreFresh
  <2>7. row[d].status = Pending /\ row[d].attempt = flight[v].attempt
    BY <2>6 DEF Fresh
  <2>8. row[d].next # "null"
    BY <1>2, <2>5, <2>7, OneIsTwo DEF IInv, PendingIsScheduled
  <2>9. /\ Verdicted(flight[v]).attempt = flight[v].attempt + 1 /\ flight[v].attempt \in Nat
        /\ Verdicted(flight[v]).next =
              (IF Verdicted(flight[v]).status = Pending THEN "waiting" ELSE "null")
    BY <2>4, VerdictFacts DEF Flights
  <2>10. /\ "status" \in flight'[v].dirty <=> Verdicted(flight[v]).status # row[d].status
         /\ "attempt" \in flight'[v].dirty <=> Verdicted(flight[v]).attempt # row[d].attempt
         /\ "code" \in flight'[v].dirty <=> Verdicted(flight[v]).code # row[d].code
         /\ "next" \in flight'[v].dirty <=>
               Verdicted(flight[v]).next # row[d].next \/ Verdicted(flight[v]).status = Pending
    BY <2>4, ChangedColumns
  <2>11. "attempt" \in flight'[v].dirty /\ "next" \in flight'[v].dirty
    BY <2>7, <2>8, <2>9, <2>10
  <2>. QED
    BY <2>1, <2>4, <2>7, <2>10, <2>11 DEF Fresh
<1>8. ASSUME NEW w \in Dispatchers, Stamp(w) \/ StampFails(w) \/ Crash(w) PROVE Fresh(v)'
  <2>1. v # w /\ pc'[v] = pc[v]
    BY <1>0, <1>8, Landing
  <2>2. pc[w] # "idle" /\ pc[v] # "idle"
    BY <1>8, <2>1 DEF Stamp, StampFails, Crash, Posted
  <2>. QED
    BY <2>1, <2>2, Alone DEF IInv
<1>9. ASSUME NEW e \in Deliveries, RetryWindowOpens(e) \/ LeavesHealthWindow(e) PROVE Aside
  <2>1. PICK new \in Rows :
            /\ row' = [row EXCEPT ![e] = new]
            /\ new.status = row[e].status /\ new.attempt = row[e].attempt /\ new.code = row[e].code
    BY <1>0, <1>9, TimeEffect
  <2>2. row[e] # Absent /\ UNCHANGED <<pc, flight>>
    BY <1>9 DEF RetryWindowOpens, LeavesHealthWindow, tickVars
  <2>3. Posted(v) /\ row'[d] # Absent
    BY <2>2 DEF Posted
  <2>. QED
    BY <1>0, <1>2, <2>1, <2>2, <2>3
<1>. HIDE DEF Aside
<1>. QED
  BY <1>0, <1>1, <1>3, <1>4, <1>5, <1>6, <1>7, <1>8, <1>9, LogSteps

LEMMA DoneStep ==
    ASSUME IInv, Minted, FlightsAreFresh, TerminalsAreDone, OneDispatches, [Next]_vars
    PROVE  TerminalsAreDone'
<1>. USE DEF IInv, TypeOK, TerminalsAreDone, subVars, rowVars, tickVars, pastVars, vars
<1>1. CASE Quiet
  BY <1>1 DEF Quiet
<1>2. ASSUME NEW d \in Deliveries, NEW s \in Subs, InsertDelivery(d, s) PROVE TerminalsAreDone'
  <2>1. PICK new \in Rows :
            row' = [row EXCEPT ![d] = new] /\ (new.status # Pending => new.next = "null")
    BY <1>2, InsertEffect
  <2>. QED
    BY <2>1 DEF Terminal, Pending
<1>3. ASSUME NEW s \in Subs, DeleteSubscription(s) PROVE TerminalsAreDone'
  BY <1>3 DEF DeleteSubscription
<1>4. ASSUME NEW w \in Dispatchers, NEW d \in Deliveries, NEW outcome \in Outcomes,
             Post(w, d, outcome)
      PROVE  TerminalsAreDone'
  BY <1>4 DEF Post
<1>5. ASSUME NEW w \in Dispatchers, Stamp(w) PROVE TerminalsAreDone'
  <2>1. PICK d \in Deliveries, new \in Rows :
            row' = [row EXCEPT ![d] = new] /\ (new.status # Pending => new.next = "null")
    BY <1>5, FreshStamp
  <2>. QED
    BY <2>1 DEF Terminal, Pending
<1>6. ASSUME NEW w \in Dispatchers, Reread(w) \/ StampFails(w) \/ Crash(w) PROVE TerminalsAreDone'
  BY <1>6 DEF Reread, StampFails, Crash
<1>7. ASSUME NEW d \in Deliveries, RetryWindowOpens(d) \/ LeavesHealthWindow(d)
      PROVE  TerminalsAreDone'
  <2>1. PICK new \in Rows :
            /\ row' = [row EXCEPT ![d] = new]
            /\ new.status = row[d].status
            /\ new.next # row[d].next => row[d].next = "waiting"
    BY <1>7, TimeEffect
  <2>2. row[d] # Absent
    BY <1>7, TimeEffect, Sentinels
  <2>. QED
    BY <2>1, <2>2
<1>. QED
  BY <1>1, <1>2, <1>3, <1>4, <1>5, <1>6, <1>7, LogSteps

\* Every POST is followed by a count of it in the row, a death or a deletion.
LEMMA CountedStep ==
    ASSUME IInv, Minted, FlightsAreFresh, PostsAreCounted, PostsAreBounded,
           OneDispatches, [Next]_vars
    PROVE  PostsAreCounted' /\ PostsAreBounded'
<1>. USE AttemptsAssumption
     DEF PostsAreCounted, PostsAreBounded, subVars, rowVars, tickVars, pastVars, vars
<1>0. /\ row \in [Deliveries -> Rows \cup {Absent}] /\ posts \in [Deliveries -> Nat] /\ crashes \in Nat
      /\ pc \in [Dispatchers -> {"idle", "pause", "select", "rows", "stamp", "flush"}]
      /\ flight \in [Dispatchers -> Flights \cup {NoFlight}]
      /\ \A d \in Deliveries : row[d] # Absent => row[d] \in Rows /\ row[d].attempt \in Nat
  BY DEF IInv, TypeOK, Rows
<1>1. CASE Quiet
  <2>1. UNCHANGED <<row, posts, crashes>> /\ flight' = flight
    BY <1>1 DEF Quiet
  <2>2. \A w \in Dispatchers : Posted(w)' = Posted(w)
    BY <1>1 DEF Quiet, Posted
  <2>3. \A d \in Deliveries : Flying(d)' = Flying(d)
    BY <2>1, <2>2 DEF Flying, InAir
  <2>. HIDE DEF Flying
  <2>. QED
    BY <2>1, <2>3
<1>2. ASSUME NEW d \in Deliveries, NEW s \in Subs, InsertDelivery(d, s)
      PROVE  PostsAreCounted' /\ PostsAreBounded'
  <2>1. PICK new \in Rows : row' = [row EXCEPT ![d] = new]
    BY <1>2, InsertEffect DEF IInv
  <2>2. d \notin born /\ UNCHANGED <<posts, crashes, pc, flight>>
    BY <1>2, InsertEffect DEF IInv
  <2>3. posts[d] = 0 /\ new.attempt \in Nat
    BY <2>2 DEF Minted, Rows
  <2>4. \A e \in Deliveries : Flying(e)' = Flying(e)
    BY <2>2 DEF Flying, InAir, Posted
  <2>. HIDE DEF Flying
  <2>. QED
    BY <1>0, <2>1, <2>2, <2>3, <2>4
<1>3. ASSUME NEW s \in Subs, DeleteSubscription(s) PROVE PostsAreCounted' /\ PostsAreBounded'
  <2>1. /\ UNCHANGED <<posts, crashes, pc, flight>>
        /\ \A d \in Deliveries : row'[d] # Absent => row'[d] = row[d]
    BY <1>0, <1>3 DEF DeleteSubscription
  <2>2. \A e \in Deliveries : Flying(e)' = Flying(e)
    BY <2>1 DEF Flying, InAir, Posted
  <2>. QED
    BY <2>1, <2>2
<1>4. ASSUME NEW w \in Dispatchers, NEW d \in Deliveries, NEW outcome \in Outcomes,
             Post(w, d, outcome)
      PROVE  PostsAreCounted' /\ PostsAreBounded'
  <2>1. row[d] # Absent /\ row[d].status = Pending /\ pc[w] = "rows"
    BY <1>0, <1>4 DEF Post, Rows
  <2>2. row[d].attempt < MaxAttempts
    BY <2>1, OneIsTwo DEF IInv, PendingIsScheduled
  <2>3. \A e \in Deliveries : ~Flying(e)
    BY <2>1, Alone DEF Flying, InAir, Posted, IInv
  <2>4. /\ UNCHANGED <<row, crashes>> /\ posts' = [posts EXCEPT ![d] = @ + 1]
    BY <1>4 DEF Post
  <2>5. Flying(d)'
    BY <1>4, PostInAir DEF Flying, IInv
  <2>6. ASSUME NEW e \in Deliveries, row[e] # Absent PROVE posts[e] <= row[e].attempt + crashes
    BY <1>0, <2>3, <2>6
  <2>7. posts'[d] <= row[d].attempt + crashes + 1 /\ row[d].attempt + 1 <= MaxAttempts
    BY <1>0, <2>1, <2>2, <2>4, <2>6
  <2>8. ASSUME NEW e \in Deliveries PROVE posts'[e] <= MaxAttempts + crashes'
    BY <1>0, <2>1, <2>4, <2>7
  <2>9. ASSUME NEW e \in Deliveries, row'[e] # Absent
        PROVE  posts'[e] <= row'[e].attempt + crashes' + (IF Flying(e)' THEN 1 ELSE 0)
    <3>1. CASE e = d
      BY <2>4, <2>5, <2>7, <3>1
    <3>2. CASE e # d
      BY <1>0, <2>4, <2>6, <2>9, <3>2
    <3>. QED
      BY <3>1, <3>2
  <2>. QED
    BY <2>8, <2>9
<1>5. ASSUME NEW w \in Dispatchers, Stamp(w) PROVE PostsAreCounted' /\ PostsAreBounded'
  <2>1. PICK d \in Deliveries, new \in Rows :
            /\ d = flight[w].d /\ row[d] \in Rows
            /\ row' = [row EXCEPT ![d] = new]
            /\ new.attempt = row[d].attempt + 1
    BY <1>5, FreshStamp
  <2>2. UNCHANGED <<posts, crashes>> /\ pc[w] = "flush"
    BY <1>5 DEF Stamp
  <2>3. \A e \in Deliveries : Flying(e) => e = d
    BY <2>1, <2>2, Alone DEF Flying, InAir, Posted, IInv
  <2>4. row[d] # Absent
    BY <2>1, Sentinels
  <2>5. posts[d] <= row[d].attempt + crashes + 1
    BY <1>0, <2>4
  <2>6. ASSUME NEW e \in Deliveries, row'[e] # Absent PROVE posts'[e] <= row'[e].attempt + crashes'
    <3>1. CASE e = d
      BY <1>0, <2>1, <2>2, <2>4, <2>5, <3>1
    <3>2. CASE e # d
      BY <1>0, <2>1, <2>2, <2>3, <2>6, <3>2
    <3>. QED
      BY <3>1, <3>2
  <2>7. ASSUME NEW e \in Deliveries, row'[e] # Absent PROVE row'[e].attempt \in Nat
    BY <1>0, <2>1, <2>7 DEF Rows
  <2>8. PostsAreCounted'
    BY <1>0, <2>2, <2>6, <2>7
  <2>. QED
    BY <2>2, <2>8
<1>6. ASSUME NEW w \in Dispatchers, StampFails(w) \/ Crash(w)
      PROVE  PostsAreCounted' /\ PostsAreBounded'
  <2>1. UNCHANGED <<row, posts>> /\ crashes' \in {crashes, crashes + 1}
    BY <1>6 DEF StampFails, Crash
  <2>2. CASE StampFails(w)
    <3>1. row[flight[w].d] = Absent /\ crashes' = crashes /\ pc[w] # "idle"
      BY <2>2 DEF StampFails, Posted
    <3>2. \A e \in Deliveries : row[e] # Absent => ~Flying(e)
      BY <3>1, Alone DEF Flying, InAir, Posted, IInv
    <3>3. \A e \in Deliveries : row[e] # Absent => posts[e] <= row[e].attempt + crashes
      BY <1>0, <3>2
    <3>. HIDE DEF Flying
    <3>. QED
      BY <1>0, <2>1, <3>1, <3>3
  <2>3. CASE Crash(w)
    <3>1. crashes' = crashes + 1
      BY <2>3 DEF Crash
    <3>. HIDE DEF Flying
    <3>. QED
      BY <1>0, <2>1, <3>1
  <2>. QED
    BY <1>6, <2>2, <2>3
<1>8. ASSUME NEW w \in Dispatchers, Reread(w) PROVE PostsAreCounted' /\ PostsAreBounded'
  <2>1. UNCHANGED <<row, posts, crashes>>
    BY <1>8 DEF Reread
  <2>2. \A e \in Deliveries : Flying(e)' = Flying(e)
    BY <1>8, RereadInAir DEF Flying, IInv
  <2>. HIDE DEF Flying
  <2>. QED
    BY <2>1, <2>2
<1>7. ASSUME NEW d \in Deliveries, RetryWindowOpens(d) \/ LeavesHealthWindow(d)
      PROVE  PostsAreCounted' /\ PostsAreBounded'
  <2>1. PICK new \in Rows : row' = [row EXCEPT ![d] = new] /\ new.attempt = row[d].attempt
    BY <1>7, TimeEffect DEF IInv
  <2>2. row[d] # Absent /\ UNCHANGED <<posts, crashes, pc, flight>>
    BY <1>7, TimeEffect, Sentinels DEF IInv
  <2>3. \A e \in Deliveries : Flying(e)' = Flying(e)
    BY <2>2 DEF Flying, InAir, Posted
  <2>. HIDE DEF Flying
  <2>. QED
    BY <1>0, <2>1, <2>2, <2>3
<1>. QED
  BY <1>1, <1>2, <1>3, <1>4, <1>5, <1>6, <1>7, <1>8, LogSteps DEF IInv

LEMMA DeadLettersStep ==
    ASSUME IInv, Minted, FlightsAreFresh, DeadLettersAreExact, OneDispatches, [Next]_vars
    PROVE  DeadLettersAreExact'
<1>. USE DEF IInv, TypeOK, DeadLettersAreExact, subVars, rowVars, tickVars, pastVars, vars
<1>1. CASE Quiet
  BY <1>1 DEF Quiet
<1>2. ASSUME NEW d \in Deliveries, NEW s \in Subs, InsertDelivery(d, s) PROVE DeadLettersAreExact'
  <2>1. PICK new \in Rows :
            row' = [row EXCEPT ![d] = new] /\ new.status \in {Pending, "suppressed_demo"}
    BY <1>2, InsertEffect
  <2>2. d \notin born /\ UNCHANGED audits
    BY <1>2, InsertEffect
  <2>. QED
    BY <2>1, <2>2 DEF Minted, Pending
<1>3. ASSUME NEW s \in Subs, DeleteSubscription(s) PROVE DeadLettersAreExact'
  BY <1>3 DEF DeleteSubscription
<1>4. ASSUME NEW w \in Dispatchers, NEW d \in Deliveries, NEW outcome \in Outcomes,
             Post(w, d, outcome)
      PROVE  DeadLettersAreExact'
  BY <1>4 DEF Post
<1>5. ASSUME NEW w \in Dispatchers, Stamp(w) PROVE DeadLettersAreExact'
  <2>1. PICK d \in Deliveries, new \in Rows :
            /\ row[d] \in Rows /\ row[d].status = Pending
            /\ row' = [row EXCEPT ![d] = new]
            /\ new.status = "dead_lettered" => new.code = "refused" \/ new.attempt = MaxAttempts
            /\ audits' = IF new.status = "dead_lettered"
                           THEN [audits EXCEPT ![d] = @ + 1] ELSE audits
    BY <1>5, FreshStamp
  <2>2. row[d] # Absent
    BY <2>1, Sentinels
  <2>3. audits[d] = 0
    BY <2>1, <2>2 DEF Pending
  <2>4. audits'[d] = IF new.status = "dead_lettered" THEN 1 ELSE 0
    BY <2>1, <2>3
  <2>5. \A e \in Deliveries : e # d => audits'[e] = audits[e] /\ row'[e] = row[e]
    BY <2>1
  <2>6. row'[d] = new
    BY <2>1
  <2>. QED
    BY <2>1, <2>4, <2>5, <2>6
<1>6. ASSUME NEW w \in Dispatchers, Reread(w) \/ StampFails(w) \/ Crash(w) PROVE DeadLettersAreExact'
  BY <1>6 DEF Reread, StampFails, Crash
<1>7. ASSUME NEW d \in Deliveries, RetryWindowOpens(d) \/ LeavesHealthWindow(d)
      PROVE  DeadLettersAreExact'
  <2>1. PICK new \in Rows :
            /\ row' = [row EXCEPT ![d] = new]
            /\ new.status = row[d].status /\ new.attempt = row[d].attempt /\ new.code = row[d].code
    BY <1>7, TimeEffect
  <2>2. row[d] # Absent /\ UNCHANGED audits
    BY <1>7, TimeEffect, Sentinels
  <2>. QED
    BY <2>1, <2>2
<1>. QED
  BY <1>1, <1>2, <1>3, <1>4, <1>5, <1>6, <1>7, LogSteps

-----------------------------------------------------------------------------
(* Pauses.                                                                 *)

Enough(s) == MinDeliveries <= Cardinality(Failing(s))

\* The failures of a subscription are finitely many, as all its deliveries are.
LEMMA EnoughInMore ==
    ASSUME Minted, NEW s \in Subs, NEW S \in SUBSET Failing(s), MinDeliveries <= Cardinality(S)
    PROVE  Enough(s)
<1>1. Failing(s) \subseteq born
  BY DEF Failing, Minted
<1>2. IsFiniteSet(Failing(s))
  BY <1>1, FS_Subset DEF Minted
<1>3. IsFiniteSet(S) /\ Cardinality(S) <= Cardinality(Failing(s))
  BY <1>2, FS_Subset
<1>4. Cardinality(S) \in Nat /\ Cardinality(Failing(s)) \in Nat
  BY <1>2, <1>3, FS_CardinalityType
<1>. QED
  BY <1>3, <1>4, MinDeliveriesAssumption DEF Enough

\* What is in the health window without a 2xx has failed.
LEMMA UnhealthyIsFailing ==
    ASSUME TypeOK, Minted, RecentWereAttempted, OneDispatches, NEW s \in Subs, Unhealthy(s)
    PROVE  Enough(s)
<1>. DEFINE window == {d \in Deliveries : row[d] # Absent /\ row[d].sub = s /\ row[d].recent}
<1>1. window \subseteq Failing(s)
  BY DEF Unhealthy, Failing, RecentWereAttempted
<1>2. MinDeliveries <= Cardinality(window)
  <2>1. Cardinality(window) >= MinDeliveries
    BY DEF Unhealthy
  <2>2. IsFiniteSet(window)
    <3>1. window \subseteq born
      BY DEF Minted
    <3>. QED
      BY <3>1, FS_Subset DEF Minted
  <2>3. Cardinality(window) \in Nat
    BY <2>2, FS_CardinalityType
  <2>. QED
    BY <2>1, <2>3, MinDeliveriesAssumption
<1>. QED
  BY <1>1, <1>2, EnoughInMore

\* A delivery that has failed stays so: a later success is not its first attempt.
LEMMA FailingGrows ==
    ASSUME IInv, Minted, FlightsAreFresh, OneDispatches, [Next]_vars,
           NEW s \in Subs, sub'[s] # "deleted"
    PROVE  Failing(s) \subseteq Failing(s)'
<1>. USE DEF IInv, TypeOK, Failing, subVars, rowVars, tickVars, pastVars, vars
<1>1. CASE Quiet
  BY <1>1 DEF Quiet
<1>2. ASSUME NEW d \in Deliveries, NEW t \in Subs, InsertDelivery(d, t)
      PROVE  Failing(s) \subseteq Failing(s)'
  <2>1. PICK new \in Rows : row' = [row EXCEPT ![d] = new]
    BY <1>2, InsertEffect
  <2>2. row[d] = Absent
    BY <1>2, InsertEffect DEF Minted
  <2>. QED
    BY <2>1, <2>2
<1>3. ASSUME NEW t \in Subs, DeleteSubscription(t) PROVE Failing(s) \subseteq Failing(s)'
  <2>1. t # s
    BY <1>3 DEF DeleteSubscription
  <2>. QED
    BY <1>3, <2>1 DEF DeleteSubscription
<1>4. ASSUME NEW w \in Dispatchers, NEW d \in Deliveries, NEW outcome \in Outcomes,
             Post(w, d, outcome)
      PROVE  Failing(s) \subseteq Failing(s)'
  BY <1>4 DEF Post
<1>5. ASSUME NEW w \in Dispatchers, Stamp(w) PROVE Failing(s) \subseteq Failing(s)'
  <2>1. PICK d \in Deliveries, new \in Rows :
            /\ row[d] \in Rows
            /\ row' = [row EXCEPT ![d] = new]
            /\ new.sub = row[d].sub /\ new.attempt = row[d].attempt + 1
    BY <1>5, FreshStamp
  <2>2. new # Absent /\ row'[d] = new /\ row[d].attempt \in Nat
    BY <2>1, Sentinels DEF Rows
  <2>3. d \in Failing(s) => d \in Failing(s)'
    BY <2>1, <2>2
  <2>. QED
    BY <2>1, <2>3
<1>6. ASSUME NEW w \in Dispatchers, Reread(w) \/ StampFails(w) \/ Crash(w)
      PROVE  Failing(s) \subseteq Failing(s)'
  BY <1>6 DEF Reread, StampFails, Crash
<1>7. ASSUME NEW d \in Deliveries, RetryWindowOpens(d) \/ LeavesHealthWindow(d)
      PROVE  Failing(s) \subseteq Failing(s)'
  <2>1. PICK new \in Rows :
            /\ row' = [row EXCEPT ![d] = new]
            /\ new.sub = row[d].sub /\ new.attempt = row[d].attempt /\ new.code = row[d].code
    BY <1>7, TimeEffect
  <2>2. new # Absent
    BY Sentinels
  <2>. QED
    BY <2>1, <2>2
<1>. QED
  BY <1>1, <1>2, <1>3, <1>4, <1>5, <1>6, <1>7, LogSteps

\* The steps that neither find candidates nor pause anything.
Calm ==
    /\ \A w \in Dispatchers : candidates'[w] \subseteq candidates[w]
    /\ \A s \in Subs : /\ sub'[s] = "paused" => sub[s] = "paused"
                       /\ sub[s] = "deleted" => sub'[s] = "deleted"

LEMMA PauseSteps ==
    ASSUME TypeOK, [Next]_vars
    PROVE  Calm \/ \E w \in Dispatchers : TickBegin(w) \/ PauseUnhealthy(w)
<1>. USE DEF TypeOK, Calm, subVars, rowVars, tickVars, pastVars, vars
<1>1. ASSUME NEW s \in Subs, NEW active \in BOOLEAN,
             \/ CreateSubscription(s, active) \/ UpdateSubscription(s, active)
             \/ EnableSubscription(s) \/ DeleteSubscription(s)
      PROVE  Calm
  BY <1>1 DEF CreateSubscription, UpdateSubscription, EnableSubscription, DeleteSubscription, Exists
<1>2. ASSUME NEW d \in Deliveries, NEW s \in Subs, InsertDelivery(d, s) PROVE Calm
  BY <1>2 DEF InsertDelivery
<1>3. ASSUME NEW source \in Deliveries, NEW d \in Deliveries, ReplayDelivery(source, d) PROVE Calm
  BY <1>3 DEF ReplayDelivery, InsertDelivery
<1>4. ASSUME NEW w \in Dispatchers,
             \/ PauseFails(w) \/ SelectDue(w) \/ TickEnd(w)
             \/ Reread(w) \/ Stamp(w) \/ StampFails(w) \/ Crash(w)
      PROVE  Calm
  BY <1>4 DEF PauseFails, SelectDue, TickEnd, Reread, Stamp, StampFails, Crash
<1>5. ASSUME NEW w \in Dispatchers, NEW d \in Deliveries, NEW outcome \in Outcomes,
             Post(w, d, outcome)
      PROVE  Calm
  BY <1>5 DEF Post
<1>6. ASSUME NEW d \in Deliveries, RetryWindowOpens(d) \/ LeavesHealthWindow(d) PROVE Calm
  BY <1>6 DEF RetryWindowOpens, LeavesHealthWindow
<1>7. CASE UNCHANGED vars
  BY <1>7
<1>8. CASE Request
  BY <1>1, <1>2, <1>3, <1>8 DEF Request, Enqueue
<1>9. ASSUME NEW w \in Dispatchers, NEW d \in Deliveries, SkipRow(w, d) PROVE Calm
  BY <1>9 DEF SkipRow
<1>10. ASSUME NEW w \in Dispatchers, Tick(w) PROVE Calm \/ TickBegin(w) \/ PauseUnhealthy(w)
  BY <1>4, <1>5, <1>9, <1>10 DEF Tick
<1>. QED
  BY <1>4, <1>6, <1>7, <1>8, <1>10 DEF Next

LEMMA PausesStep ==
    ASSUME IInv, Minted, Minted', FlightsAreFresh, RecentWereAttempted, CandidatesAreFailing,
           PauseIsEarned, OneDispatches, [Next]_vars
    PROVE  CandidatesAreFailing' /\ PauseIsEarned'
<1>1. ASSUME NEW s \in Subs, Enough(s), sub'[s] # "deleted" PROVE Enough(s)'
  <2>1. Failing(s) \in SUBSET Failing(s)'
    BY <1>1, FailingGrows
  <2>2. Failing(s)' \subseteq born'
    BY DEF Failing, Minted
  <2>3. IsFiniteSet(Failing(s)')
    BY <2>2, FS_Subset DEF Minted
  <2>4. IsFiniteSet(Failing(s)) /\ Cardinality(Failing(s)) <= Cardinality(Failing(s)')
    BY <2>1, <2>3, FS_Subset
  <2>5. Cardinality(Failing(s)) \in Nat /\ Cardinality(Failing(s)') \in Nat
    BY <2>3, <2>4, FS_CardinalityType
  <2>6. MinDeliveries <= Cardinality(Failing(s)')
    BY <1>1, <2>4, <2>5, MinDeliveriesAssumption DEF Enough
  <2>. QED
    BY <2>6 DEF Enough
<1>2. \A w \in Dispatchers : \A s \in Subs : s \in candidates[w] /\ sub[s] # "deleted" => Enough(s)
  BY DEF CandidatesAreFailing, Enough
<1>3. \A s \in Subs : sub[s] = "paused" => Enough(s)
  BY DEF PauseIsEarned, Enough, Failing
<1>4. /\ sub \in [Subs -> {"unborn", "active", "disabled", "paused", "deleted"}]
      /\ candidates \in [Dispatchers -> SUBSET Subs] /\ candidates' \in [Dispatchers -> SUBSET Subs]
  BY TypeStep DEF IInv, TypeOK
<1>5. ASSUME NEW s \in Subs, sub'[s] # "deleted",
             (sub'[s] = "paused") \/ (\E w \in Dispatchers : s \in candidates'[w])
      PROVE  Enough(s)
  <2>1. CASE Calm
    BY <1>2, <1>3, <1>5, <2>1 DEF Calm
  <2>2. ASSUME NEW w \in Dispatchers, TickBegin(w) PROVE Enough(s)
    <3>1. /\ sub' = sub
          /\ candidates' = [candidates EXCEPT ![w] = {t \in Subs : sub[t] = "active" /\ Unhealthy(t)}]
      BY <2>2 DEF TickBegin, subVars
    <3>2. CASE Unhealthy(s)
      BY <3>2, UnhealthyIsFailing DEF IInv
    <3>3. CASE ~Unhealthy(s)
      BY <1>2, <1>3, <1>4, <1>5, <3>1, <3>3
    <3>. QED
      BY <3>2, <3>3
  <2>3. ASSUME NEW w \in Dispatchers, PauseUnhealthy(w) PROVE Enough(s)
    <3>1. /\ \A t \in candidates[w] : sub[t] # "deleted"
          /\ sub' = [t \in Subs |-> IF t \in candidates[w] THEN "paused" ELSE sub[t]]
          /\ candidates' = [candidates EXCEPT ![w] = {}]
      BY <2>3 DEF PauseUnhealthy, Exists
    <3>. QED
      BY <1>2, <1>3, <1>4, <1>5, <3>1
  <2>. QED
    BY <2>1, <2>2, <2>3, PauseSteps DEF IInv
<1>6. \A s \in Subs : /\ sub'[s] = "paused" => Enough(s)'
                      /\ \A w \in Dispatchers : s \in candidates'[w] /\ sub'[s] # "deleted" => Enough(s)'
  BY <1>1, <1>5
<1>7. CandidatesAreFailing'
  BY <1>4, <1>6 DEF CandidatesAreFailing, Enough
<1>8. PauseIsEarned'
  BY <1>6 DEF PauseIsEarned, Enough, Failing
<1>. QED
  BY <1>7, <1>8

\* What TerminalIsFinal says of a step.
LEMMA TerminalIsFinalStep ==
    ASSUME IInv, FlightsAreFresh, TerminalsAreDone, OneDispatches, [Next]_vars,
           NEW d \in Deliveries, row[d] # Absent, row[d].status \in Terminal
    PROVE  \/ row'[d] = Absent
           \/ /\ [row'[d] EXCEPT !.recent = row[d].recent] = row[d]
              /\ posts'[d] = posts[d]
<1>. USE DEF subVars, rowVars, tickVars, pastVars, vars
<1>0. /\ row[d] \in Rows /\ row \in [Deliveries -> Rows \cup {Absent}] /\ posts \in [Deliveries -> Nat]
      /\ [row[d] EXCEPT !.recent = row[d].recent] = row[d]
  BY DEF IInv, TypeOK, Rows
<1>1. CASE Quiet
  BY <1>0, <1>1 DEF Quiet
<1>2. ASSUME NEW e \in Deliveries, NEW s \in Subs, InsertDelivery(e, s)
      PROVE  row'[d] = row[d] /\ posts'[d] = posts[d]
  <2>1. e \notin born /\ UNCHANGED posts /\ \E new \in Rows : row' = [row EXCEPT ![e] = new]
    BY <1>2, InsertEffect DEF IInv
  <2>. QED
    BY <1>0, <2>1 DEF IInv, RowsAreBorn
<1>3. ASSUME NEW s \in Subs, DeleteSubscription(s)
      PROVE  row'[d] = Absent \/ (row'[d] = row[d] /\ posts'[d] = posts[d])
  BY <1>3 DEF DeleteSubscription
<1>4. ASSUME NEW w \in Dispatchers, NEW e \in Deliveries, NEW outcome \in Outcomes,
             Post(w, e, outcome)
      PROVE  row'[d] = row[d] /\ posts'[d] = posts[d]
  BY <1>0, <1>4 DEF Post
<1>5. ASSUME NEW w \in Dispatchers, Stamp(w) PROVE row'[d] = row[d] /\ posts'[d] = posts[d]
  <2>1. PICK e \in Deliveries, new \in Rows :
            row[e].status = Pending /\ row' = [row EXCEPT ![e] = new]
    BY <1>5, FreshStamp
  <2>2. UNCHANGED posts /\ e # d
    BY <1>5, <2>1 DEF Stamp, Terminal, Pending
  <2>. QED
    BY <1>0, <2>1, <2>2
<1>6. ASSUME NEW w \in Dispatchers, Reread(w) \/ StampFails(w) \/ Crash(w)
      PROVE  row'[d] = row[d] /\ posts'[d] = posts[d]
  BY <1>6 DEF Reread, StampFails, Crash
<1>7. ASSUME NEW e \in Deliveries, RetryWindowOpens(e)
      PROVE  row'[d] = row[d] /\ posts'[d] = posts[d]
  <2>1. e # d
    BY <1>7 DEF RetryWindowOpens, TerminalsAreDone
  <2>. QED
    BY <1>0, <1>7, <2>1 DEF RetryWindowOpens
<1>8. ASSUME NEW e \in Deliveries, LeavesHealthWindow(e)
      PROVE  [row'[d] EXCEPT !.recent = row[d].recent] = row[d] /\ posts'[d] = posts[d]
  <2>1. row' = [row EXCEPT ![e].recent = FALSE] /\ UNCHANGED posts
    BY <1>8 DEF LeavesHealthWindow
  <2>2. CASE e = d
    <3>1. row'[d] = [row[d] EXCEPT !.recent = FALSE]
      BY <1>0, <2>1, <2>2
    <3>. QED
      BY <1>0, <2>1, <3>1 DEF Rows
  <2>3. CASE e # d
    BY <1>0, <2>1, <2>3
  <2>. QED
    BY <2>2, <2>3
<1>. QED
  BY <1>0, <1>1, <1>2, <1>3, <1>4, <1>5, <1>6, <1>7, <1>8, LogSteps DEF IInv

-----------------------------------------------------------------------------

LEMMA InitExactIInv == Init => ExactIInv
<1>. SUFFICES ASSUME Init PROVE ExactIInv
  OBVIOUS
<1>. USE DEF Init
<1>1. Minted
  BY FS_EmptySet DEF Minted
<1>2. FlightsAreFresh
  BY DEF FlightsAreFresh, Posted
<1>3. TerminalsAreDone /\ PostsAreCounted /\ DeadLettersAreExact /\ RecentWereAttempted
  BY DEF TerminalsAreDone, PostsAreCounted, DeadLettersAreExact, RecentWereAttempted
<1>4. PostsAreBounded
  BY AttemptsAssumption DEF PostsAreBounded
<1>5. CandidatesAreFailing /\ PauseIsEarned
  BY DEF CandidatesAreFailing, PauseIsEarned
<1>. QED
  BY <1>1, <1>2, <1>3, <1>4, <1>5 DEF ExactIInv

LEMMA NextExactIInv == IInv /\ ExactIInv /\ [Next]_vars => ExactIInv'
<1>. SUFFICES ASSUME IInv, ExactIInv, [Next]_vars PROVE ExactIInv'
  OBVIOUS
<1>1. Minted' /\ (OneDispatches' => OneDispatches)
  BY MintedStep, TickingStep, FewerDispatch DEF IInv, ExactIInv
<1>2. CASE OneDispatches
  BY <1>1, <1>2, RecentStep, FreshStep, DoneStep, CountedStep, DeadLettersStep, PausesStep DEF ExactIInv
<1>3. CASE ~OneDispatches
  <2>1. ~OneDispatches'
    BY <1>1, <1>3
  <2>. QED
    BY <1>1, <2>1 DEF ExactIInv, FlightsAreFresh, RecentWereAttempted, TerminalsAreDone, PostsAreCounted, PostsAreBounded,
          DeadLettersAreExact, CandidatesAreFailing, PauseIsEarned
<1>. QED
  BY <1>2, <1>3

\* While one process dispatches, what it has loaded stands until it commits,
\* whatever managers edit and however often it dies.
THEOREM ExactInvariance == Spec => []ExactIInv
BY Invariance, InitExactIInv, NextExactIInv, PTL DEF Spec

\* The accounting of one dispatcher is exact: no delivery is POSTed more often
\* than its budget and the deaths allow, dead letters are audited once, and
\* pauses are earned.
THEOREM ExactAccounting == Spec => []OneDispatcherIsExact
<1>1. ExactIInv => OneDispatcherIsExact
  BY DEF ExactIInv, OneDispatcherIsExact
<1>. QED
  BY <1>1, ExactInvariance, PTL

\* While one process dispatches, no tick touches a delivery that is terminal.
THEOREM FinalTerminals == Spec => TerminalIsFinal
<1>1. IInv /\ ExactIInv /\ [Next]_vars =>
        [\A d \in Deliveries :
            OneDispatches /\ row[d] # Absent /\ row[d].status \in Terminal =>
                \/ row'[d] = Absent
                \/ /\ [row'[d] EXCEPT !.recent = row[d].recent] = row[d]
                   /\ posts'[d] = posts[d]]_vars
  BY TerminalIsFinalStep DEF ExactIInv
<1>. QED
  BY <1>1, Invariance, ExactInvariance, PTL DEF Spec, TerminalIsFinal
=============================================================================
