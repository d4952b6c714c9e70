---------------------------- MODULE TasksProofs ------------------------------
(* Proofs about TaskLifecycle and Generator, for any number of requests,   *)
(* users, schedules, ticks and edits.  The two share no variable.          *)
EXTENDS MCTasks, TLAPS

-----------------------------------------------------------------------------
(* TaskLifecycle: the inductive invariant.                                 *)

\* A completion's request is over, and a time on the row or on a copy is one of
\* a completion.
TimesArePast ==
    /\ \A c \in completions : pc[c.at] = "done"
    /\ row.at # Null => \E c \in completions : c.at = row.at
    /\ \A r \in Requests : copy[r].at # Null => \E c \in completions : c.at = copy[r].at

\* A user on the row has completed the task, and stays on the row once there.
UsersAreReal ==
    /\ row.by # Null => \E c \in completions : c.by = row.by
    /\ \A r \in Requests : copy[r].by # Null => row.by # Null

\* Whoever completes the task signs and dates it.
CompletedIsSigned ==
    /\ row.state = "completed" => row.at # Null /\ row.by # Null
    /\ \A r \in Requests :
          copy[r].state = "completed" => copy[r].at # Null /\ copy[r].by # Null

\* Those who can still leave a terminal state are known.
StragglersAreKnown ==
    row.state \in Terminal =>
        \A r \in Requests : InFlight(r) /\ copy[r].state \notin Terminal => r \in stale

\* Without overlap there is one request in flight, and its copy is the row, up to
\* a flip by the sweep.
SerialCopyIsCurrent ==
    ~parallel =>
        \A r \in Requests : InFlight(r) =>
            /\ \A q \in Requests : InFlight(q) => q = r
            /\ \/ copy[r] = row
               \/ /\ crossed /\ copy[r].state \in Flippable
                  /\ row = [copy[r] EXCEPT !.state = "overdue", !.marked = TRUE]

\* Without overlap the item is as it was read, and a completed task stays so.
SerialTasksAreClosed ==
    ~parallel =>
        /\ \A r \in Requests : pc[r] = "sawTicked" => ticked
        /\ completions # {} => row.state = "completed"
        /\ row.at # Null => \E c \in completions : c.at = row.at /\ c.by = row.by

IInv ==
    /\ TypeOK
    /\ TimesArePast
    /\ UsersAreReal
    /\ CompletedIsSigned
    /\ StragglersAreKnown
    /\ SerialCopyIsCurrent
    /\ SerialTasksAreClosed
    /\ OverdueIsMarked
    /\ SerialCompletionsAreKept
    /\ CompletedIsTicked

-----------------------------------------------------------------------------
(* What the requests do to the row.                                        *)

\* No edge leaves a terminal state, and none is a loop.
LEMMA EdgesLeaveOpenStates ==
    ASSUME NEW s \in States, NEW t \in AllowedEdges[s]
    PROVE  s \notin Terminal /\ t # s
<1>1. AllowedEdges[s] = CASE s = "scheduled" -> {"pending", "in_progress"} \cup Terminal
                          [] s = "pending" -> {"in_progress"} \cup Terminal
                          [] s = "in_progress" -> Terminal
                          [] s = "overdue" -> {"pending", "in_progress"} \cup Terminal
                          [] OTHER -> {}
  BY DEF AllowedEdges, States, Terminal, Flippable
<1>. QED
  BY <1>1 DEF States, Terminal, Flippable

\* start, skip, cancel, delete and update_task: a request that writes the row
\* without completing it.
Moves(r) ==
    \/ Start(r)
    \/ \E target \in {"skipped", "cancelled"} : Close(r, target)
    \/ DeleteSchedule(r)
    \/ \E begun, over \in BOOLEAN : Reschedule(r, begun, over)

\* They leave the completion on the row alone, and write a state of their own only
\* from an open copy; they clear the mark, unless they leave the row as it is or
\* the copy was scheduled or pending.
LEMMA MoveEffect ==
    ASSUME TypeOK, NEW r \in Requests, Moves(r)
    PROVE  \E new \in Rows :
              /\ InFlight(r) /\ Commit(r, new)
              /\ new.at = copy[r].at /\ new.by = copy[r].by
              /\ row'.at = row.at /\ row'.by = row.by
              /\ new.state # "completed" \/ new = copy[r]
              /\ new.state # "overdue" \/ new = copy[r]
              /\ copy[r].state \in Terminal => new = copy[r]
              /\ \/ new.state # copy[r].state /\ new.marked = FALSE
                 \/ new = copy[r]
                 \/ copy[r].state \in {"scheduled", "pending"} /\ new.marked = copy[r].marked
              /\ UNCHANGED <<completions, superseded>>
<1>. USE DEF TypeOK, Rows, States, Terminal, Flippable
<1>1. copy[r] \in Rows /\ row \in Rows
  OBVIOUS
<1>2. CASE Start(r)
  <2>1. copy[r].state \notin Terminal /\ copy[r].state # "in_progress"
    BY <1>1, <1>2, EdgesLeaveOpenStates DEF Start, Allowed
  <2>. DEFINE new == [copy[r] EXCEPT !.state = "in_progress", !.marked = FALSE]
  <2>2. new \in Rows /\ new.at = copy[r].at /\ new.by = copy[r].by
        /\ new.state = "in_progress" /\ new.marked = FALSE
    BY <1>1
  <2>. QED
    BY <1>1, <1>2, <2>1, <2>2 DEF Start, Commit, Merged
<1>3. ASSUME NEW target \in {"skipped", "cancelled"}, Close(r, target)
      PROVE  \E new \in Rows :
              /\ InFlight(r) /\ Commit(r, new)
              /\ new.at = copy[r].at /\ new.by = copy[r].by
              /\ row'.at = row.at /\ row'.by = row.by
              /\ new.state \notin {"completed", "overdue"}
              /\ copy[r].state \notin Terminal
              /\ new.state # copy[r].state /\ new.marked = FALSE
              /\ UNCHANGED <<completions, superseded>>
  <2>1. copy[r].state \notin Terminal /\ copy[r].state # target
    BY <1>1, <1>3, EdgesLeaveOpenStates DEF Close, Allowed
  <2>. DEFINE new == [copy[r] EXCEPT !.state = target, !.marked = FALSE]
  <2>2. new \in Rows /\ new.at = copy[r].at /\ new.by = copy[r].by
        /\ new.state = target /\ new.marked = FALSE
    BY <1>1, <1>3
  <2>. QED
    BY <1>1, <1>3, <2>1, <2>2 DEF Close, Commit, Merged
<1>4. CASE DeleteSchedule(r)
  <2>. DEFINE new == [copy[r] EXCEPT !.state = "cancelled"]
  <2>1. new \in Rows /\ new.at = copy[r].at /\ new.by = copy[r].by
        /\ new.state = "cancelled" /\ new.marked = copy[r].marked
    BY <1>1
  <2>. QED
    BY <1>1, <1>4, <2>1 DEF DeleteSchedule, Commit, Merged
<1>5. ASSUME NEW begun \in BOOLEAN, NEW over \in BOOLEAN, Reschedule(r, begun, over)
      PROVE  \E new \in Rows :
              /\ InFlight(r) /\ Commit(r, new)
              /\ new.at = copy[r].at /\ new.by = copy[r].by
              /\ row'.at = row.at /\ row'.by = row.by
              /\ \/ new = copy[r]
                 \/ /\ copy[r].state \in {"scheduled", "pending"}
                    /\ new.state \notin {"completed", "overdue"}
                    /\ new.marked = copy[r].marked
              /\ UNCHANGED <<completions, superseded>>
  <2>1. CASE copy[r].state \in {"scheduled", "pending"}
    <3>. DEFINE new == [copy[r] EXCEPT !.state = IF begun THEN "pending" ELSE "scheduled"]
    <3>1. new \in Rows /\ new.at = copy[r].at /\ new.by = copy[r].by
          /\ new.state \in {"scheduled", "pending"} /\ new.marked = copy[r].marked
      BY <1>1
    <3>. QED
      BY <1>1, <1>5, <2>1, <3>1 DEF Reschedule, Commit, Merged
  <2>2. CASE copy[r].state \notin {"scheduled", "pending"}
    BY <1>1, <1>5, <2>2 DEF Reschedule, Commit, Merged
  <2>. QED
    BY <2>1, <2>2
<1>. QED
  BY <1>2, <1>3, <1>4, <1>5 DEF Moves

\* What that means for the row and the rest of the state.
LEMMA MoveFacts ==
    ASSUME TypeOK, NEW r \in Requests, Moves(r)
    PROVE  /\ InFlight(r)
           /\ pc' = [pc EXCEPT ![r] = "done"]
           /\ row' \in Rows /\ row'.at = row.at /\ row'.by = row.by
           /\ row'.state \in {"completed", "overdue"} => row'.state = row.state
           /\ row'.state = "overdue" => row'.marked = row.marked
           /\ copy[r].state \in Terminal => row' = row
           /\ copy[r] = row /\ row'.marked => row' = row \/ row.state \in {"scheduled", "pending"}
           /\ row'.marked => row.marked
           /\ pastDue' \in BOOLEAN
           /\ stale' = IF row'.state \in Terminal /\ row.state \notin Terminal
                         THEN {q \in Requests \ {r} : InFlight(q)} ELSE stale
           /\ UNCHANGED <<ticked, copy, completions, superseded, aborts, parallel, crossed>>
<1>. USE DEF Rows
<1>1. copy[r] \in Rows /\ row \in Rows /\ pastDue \in BOOLEAN
  BY DEF TypeOK
<1>2. PICK new \in Rows :
              /\ InFlight(r) /\ Commit(r, new)
              /\ new.at = copy[r].at /\ new.by = copy[r].by
              /\ row'.at = row.at /\ row'.by = row.by
              /\ new.state # "completed" \/ new = copy[r]
              /\ new.state # "overdue" \/ new = copy[r]
              /\ copy[r].state \in Terminal => new = copy[r]
              /\ \/ new.state # copy[r].state /\ new.marked = FALSE
                 \/ new = copy[r]
                 \/ copy[r].state \in {"scheduled", "pending"} /\ new.marked = copy[r].marked
              /\ UNCHANGED <<completions, superseded>>
  BY MoveEffect
<1>3. row' = Merged(copy[r], new)
  BY <1>2 DEF Commit
<1>4. row' \in Rows
      /\ row'.state = (IF new.state # copy[r].state THEN new.state ELSE row.state)
      /\ row'.marked = (IF new.marked # copy[r].marked THEN new.marked ELSE row.marked)
  BY <1>1, <1>2, <1>3 DEF Merged
<1>5. new = copy[r] => row' = row
  BY <1>1, <1>3 DEF Merged
<1>6. pastDue' \in BOOLEAN
  BY <1>1 DEF Moves, Start, Close, DeleteSchedule, Reschedule
<1>. QED
  BY <1>1, <1>2, <1>4, <1>5, <1>6 DEF Commit, Goto

\* A completion is dated by its own request, which no copy shows yet.
LEMMA CompleteFacts ==
    ASSUME TypeOK, TimesArePast, NEW r \in Requests, NEW u \in Users, Complete(r, u)
    PROVE  /\ pc[r] = "sawTicked"
           /\ pc' = [pc EXCEPT ![r] = "done"]
           /\ copy[r].state \in Terminal => copy[r].state = "completed"
           /\ row' \in Rows /\ row'.at = r
           /\ row'.by = IF u = copy[r].by THEN row.by ELSE u
           /\ row'.state = IF copy[r].state = "completed" THEN row.state ELSE "completed"
           /\ row'.marked = (row.marked /\ ~copy[r].marked)
           /\ completions' = completions \cup {[at |-> r, by |-> u, ticked |-> ticked]}
           /\ superseded' = IF copy[r].state = "completed"
                              THEN superseded \cup {[at |-> copy[r].at, by |-> copy[r].by]}
                              ELSE superseded
           /\ stale' = IF row'.state \in Terminal /\ row.state \notin Terminal
                         THEN {q \in Requests \ {r} : InFlight(q)} ELSE stale
           /\ UNCHANGED <<ticked, pastDue, copy, aborts, parallel, crossed>>
<1>. DEFINE new == [state |-> "completed", at |-> r, by |-> u, marked |-> FALSE]
<1>1. copy[r] \in Rows /\ row \in Rows
  BY DEF TypeOK
<1>2. copy[r].at # r
  <2>1. CASE copy[r].at = Null
    BY <2>1, NullAssumption
  <2>2. CASE copy[r].at # Null
    BY <2>2 DEF TimesArePast, Complete
  <2>. QED
    BY <2>1, <2>2
<1>3. copy[r].state \in Terminal => copy[r].state = "completed"
  BY <1>1, EdgesLeaveOpenStates DEF Complete, Allowed, Rows
<1>4. row' = Merged(copy[r], new)
  BY DEF Complete, Commit
<1>5. /\ row' \in Rows /\ row'.at = r
      /\ row'.by = IF u = copy[r].by THEN row.by ELSE u
      /\ row'.state = IF copy[r].state = "completed" THEN row.state ELSE "completed"
  BY <1>1, <1>2, <1>4 DEF Merged, Rows, States, Terminal
<1>6. row'.marked = (row.marked /\ ~copy[r].marked)
  BY <1>1, <1>4 DEF Merged, Rows
<1>. QED
  BY <1>3, <1>5, <1>6 DEF Complete, Commit, Goto

\* The steps of a request that do not touch the row.
LEMMA QuietFacts ==
    ASSUME TypeOK, NEW r \in Requests, ReadItem(r) \/ Tick(r) \/ Untick(r) \/ Abort(r)
    PROVE  /\ InFlight(r)
           /\ \/ ticked /\ pc' = [pc EXCEPT ![r] = "sawTicked"]
              \/ pc' = [pc EXCEPT ![r] = "sawUnticked"]
              \/ pc' = [pc EXCEPT ![r] = "done"]
           /\ ticked' \in BOOLEAN
           /\ \/ ticked' = ticked
              \/ copy[r].state \notin Terminal /\ pc' = [pc EXCEPT ![r] = "done"]
           /\ UNCHANGED <<row, pastDue, copy, completions, superseded, aborts, parallel,
                          crossed, stale>>
<1>. USE DEF TypeOK, InFlight, Goto
<1>1. CASE ReadItem(r)
  BY <1>1 DEF ReadItem
<1>2. CASE Tick(r)
  BY <1>2 DEF Tick
<1>3. CASE Untick(r)
  BY <1>3 DEF Untick
<1>4. CASE Abort(r)
  BY <1>4 DEF Abort
<1>. QED
  BY <1>1, <1>2, <1>3, <1>4

-----------------------------------------------------------------------------
(* Every conjunct is preserved by every step.                              *)

\* Types are preserved; a displaced completion is a signed one.
LEMMA TypeStep ==
    ASSUME TypeOK, TimesArePast, CompletedIsSigned, [Next]_vars PROVE TypeOK'
<1>. USE NullAssumption, ActorsAssumption
          DEF TypeOK, Rows, States, Terminal, Flippable, Actors, InFlight, vars,
              CompletedIsSigned
<1>1. ASSUME NEW r \in Requests, Load(r) PROVE TypeOK'
  BY <1>1 DEF Load, Goto
<1>2. ASSUME NEW r \in Requests, ReadItem(r) \/ Tick(r) \/ Untick(r) \/ Abort(r)
      PROVE  TypeOK'
  BY <1>2, QuietFacts
<1>3. ASSUME NEW r \in Requests, Moves(r) PROVE TypeOK'
  BY <1>3, MoveFacts
<1>4. ASSUME NEW r \in Requests, NEW u \in Users, Complete(r, u) PROVE TypeOK'
  BY <1>4, CompleteFacts
<1>5. ASSUME NEW s \in Sweepers, SweepFlip(s) PROVE TypeOK'
  BY <1>5 DEF SweepFlip, Goto
<1>6. ASSUME NEW s \in Sweepers, SweepSelect(s) \/ SweepSkip(s) \/ SweepAbort(s)
      PROVE  TypeOK'
  BY <1>6 DEF SweepSelect, SweepSkip, SweepAbort, Goto
<1>7. CASE BecomePastDue
  BY <1>7 DEF BecomePastDue
<1>8. CASE UNCHANGED vars
  BY <1>8
<1>. QED
  BY <1>1, <1>2, <1>3, <1>4, <1>5, <1>6, <1>7, <1>8
     DEF Next, Request, Sweep, Moves

\* A request completes the task as it ends, and dates it by itself.
LEMMA TimesArePastStep ==
    ASSUME TypeOK, TimesArePast, [Next]_vars PROVE TimesArePast'
<1>. USE NullAssumption, ActorsAssumption
          DEF TypeOK, Rows, States, Terminal, Flippable, Actors, InFlight, vars,
              TimesArePast
<1>1. ASSUME NEW r \in Requests, Load(r) PROVE TimesArePast'
  BY <1>1 DEF Load, Goto
<1>2. ASSUME NEW r \in Requests, ReadItem(r) \/ Tick(r) \/ Untick(r) \/ Abort(r)
      PROVE  TimesArePast'
  BY <1>2, QuietFacts
<1>3. ASSUME NEW r \in Requests, Moves(r) PROVE TimesArePast'
  BY <1>3, MoveFacts
<1>4. ASSUME NEW r \in Requests, NEW u \in Users, Complete(r, u) PROVE TimesArePast'
  <2>. DEFINE c == [at |-> r, by |-> u, ticked |-> ticked]
  <2>1. c \in completions' /\ completions \subseteq completions' /\ c.at = r /\ c.by = u
        /\ \A d \in completions' : d \in completions \/ d = c
    BY <1>4, CompleteFacts
  <2>2. \A d \in completions' : pc'[d.at] = "done"
    BY <1>4, <2>1, CompleteFacts
  <2>3. copy' = copy /\ row'.at = r
    BY <1>4, CompleteFacts
  <2>. QED
    BY <2>1, <2>2, <2>3
<1>5. ASSUME NEW s \in Sweepers, SweepFlip(s) PROVE TimesArePast'
  BY <1>5 DEF SweepFlip, Goto
<1>6. ASSUME NEW s \in Sweepers, SweepSelect(s) \/ SweepSkip(s) \/ SweepAbort(s)
      PROVE  TimesArePast'
  BY <1>6 DEF SweepSelect, SweepSkip, SweepAbort, Goto
<1>7. CASE BecomePastDue
  BY <1>7 DEF BecomePastDue
<1>8. CASE UNCHANGED vars
  BY <1>8
<1>. QED
  BY <1>1, <1>2, <1>3, <1>4, <1>5, <1>6, <1>7, <1>8
     DEF Next, Request, Sweep, Moves

\* Only a completion writes a user, and none is removed.
LEMMA UsersAreRealStep ==
    ASSUME TypeOK, TimesArePast, UsersAreReal, [Next]_vars PROVE UsersAreReal'
<1>. USE NullAssumption, ActorsAssumption
          DEF TypeOK, Rows, States, Terminal, Flippable, Actors, InFlight, vars,
              UsersAreReal
<1>1. ASSUME NEW r \in Requests, Load(r) PROVE UsersAreReal'
  BY <1>1 DEF Load, Goto
<1>2. ASSUME NEW r \in Requests, ReadItem(r) \/ Tick(r) \/ Untick(r) \/ Abort(r)
      PROVE  UsersAreReal'
  BY <1>2, QuietFacts
<1>3. ASSUME NEW r \in Requests, Moves(r) PROVE UsersAreReal'
  BY <1>3, MoveFacts
<1>4. ASSUME NEW r \in Requests, NEW u \in Users, Complete(r, u) PROVE UsersAreReal'
  <2>. DEFINE c == [at |-> r, by |-> u, ticked |-> ticked]
  <2>1. c \in completions' /\ completions \subseteq completions' /\ c.at = r /\ c.by = u
        /\ \A d \in completions' : d \in completions \/ d = c
    BY <1>4, CompleteFacts
  <2>2. copy' = copy /\ row'.by = IF u = copy[r].by THEN row.by ELSE u
    BY <1>4, CompleteFacts
  <2>3. u # Null
    BY NullAssumption
  <2>. QED
    BY <2>1, <2>2, <2>3
<1>5. ASSUME NEW s \in Sweepers, SweepFlip(s) PROVE UsersAreReal'
  BY <1>5 DEF SweepFlip, Goto
<1>6. ASSUME NEW s \in Sweepers, SweepSelect(s) \/ SweepSkip(s) \/ SweepAbort(s)
      PROVE  UsersAreReal'
  BY <1>6 DEF SweepSelect, SweepSkip, SweepAbort, Goto
<1>7. CASE BecomePastDue
  BY <1>7 DEF BecomePastDue
<1>8. CASE UNCHANGED vars
  BY <1>8
<1>. QED
  BY <1>1, <1>2, <1>3, <1>4, <1>5, <1>6, <1>7, <1>8
     DEF Next, Request, Sweep, Moves

\* The state that a completion writes comes with its time and a user.
LEMMA CompletedIsSignedStep ==
    ASSUME TypeOK, TimesArePast, UsersAreReal, CompletedIsSigned, [Next]_vars
    PROVE  CompletedIsSigned'
<1>. USE NullAssumption, ActorsAssumption
          DEF TypeOK, Rows, States, Terminal, Flippable, Actors, InFlight, vars,
              TimesArePast, UsersAreReal, CompletedIsSigned
<1>1. ASSUME NEW r \in Requests, Load(r) PROVE CompletedIsSigned'
  BY <1>1 DEF Load, Goto
<1>2. ASSUME NEW r \in Requests, ReadItem(r) \/ Tick(r) \/ Untick(r) \/ Abort(r)
      PROVE  CompletedIsSigned'
  BY <1>2, QuietFacts
<1>3. ASSUME NEW r \in Requests, Moves(r) PROVE CompletedIsSigned'
  BY <1>3, MoveFacts
<1>4. ASSUME NEW r \in Requests, NEW u \in Users, Complete(r, u)
      PROVE  CompletedIsSigned'
  BY <1>4, CompleteFacts
<1>5. ASSUME NEW s \in Sweepers, SweepFlip(s) PROVE CompletedIsSigned'
  BY <1>5 DEF SweepFlip, Goto
<1>6. ASSUME NEW s \in Sweepers, SweepSelect(s) \/ SweepSkip(s) \/ SweepAbort(s)
      PROVE  CompletedIsSigned'
  BY <1>6 DEF SweepSelect, SweepSkip, SweepAbort, Goto
<1>7. CASE BecomePastDue
  BY <1>7 DEF BecomePastDue
<1>8. CASE UNCHANGED vars
  BY <1>8
<1>. QED
  BY <1>1, <1>2, <1>3, <1>4, <1>5, <1>6, <1>7, <1>8
     DEF Next, Request, Sweep, Moves

\* Those in flight when the task closes are noted, and later ones load it closed.
LEMMA StragglersAreKnownStep ==
    ASSUME TypeOK, TimesArePast, StragglersAreKnown, [Next]_vars
    PROVE  StragglersAreKnown'
<1>. USE NullAssumption, ActorsAssumption
          DEF TypeOK, Rows, States, Terminal, Flippable, Actors, InFlight, vars,
              StragglersAreKnown
<1>1. ASSUME NEW r \in Requests, Load(r) PROVE StragglersAreKnown'
  BY <1>1 DEF Load, Goto
<1>2. ASSUME NEW r \in Requests, ReadItem(r) \/ Tick(r) \/ Untick(r) \/ Abort(r)
      PROVE  StragglersAreKnown'
  BY <1>2, QuietFacts
<1>3. ASSUME NEW r \in Requests, Moves(r) PROVE StragglersAreKnown'
  BY <1>3, MoveFacts
<1>4. ASSUME NEW r \in Requests, NEW u \in Users, Complete(r, u)
      PROVE  StragglersAreKnown'
  BY <1>4, CompleteFacts
<1>5. ASSUME NEW s \in Sweepers, SweepFlip(s) PROVE StragglersAreKnown'
  BY <1>5 DEF SweepFlip, Goto
<1>6. ASSUME NEW s \in Sweepers, SweepSelect(s) \/ SweepSkip(s) \/ SweepAbort(s)
      PROVE  StragglersAreKnown'
  BY <1>6 DEF SweepSelect, SweepSkip, SweepAbort, Goto
<1>7. CASE BecomePastDue
  BY <1>7 DEF BecomePastDue
<1>8. CASE UNCHANGED vars
  BY <1>8
<1>. QED
  BY <1>1, <1>2, <1>3, <1>4, <1>5, <1>6, <1>7, <1>8
     DEF Next, Request, Sweep, Moves

\* Only the sweep changes the row under the one request in flight.
LEMMA SerialCopyIsCurrentStep ==
    ASSUME TypeOK, TimesArePast, SerialCopyIsCurrent, [Next]_vars
    PROVE  SerialCopyIsCurrent'
<1>1. ASSUME NEW r \in Requests, Load(r) PROVE SerialCopyIsCurrent'
  BY <1>1, ActorsAssumption
     DEF Load, Goto, TypeOK, Rows, States, Terminal, Flippable, Actors, InFlight,
         vars, SerialCopyIsCurrent
<1>2. ASSUME NEW r \in Requests, ReadItem(r) \/ Tick(r) \/ Untick(r) \/ Abort(r)
      PROVE  SerialCopyIsCurrent'
  <2>. SUFFICES ASSUME ~parallel'
                PROVE  SerialCopyIsCurrent'
    BY DEF SerialCopyIsCurrent
  <2>1. ~parallel /\ InFlight(r) /\ \A q \in Requests \ {r} : ~InFlight(q)
    BY <1>2, QuietFacts DEF SerialCopyIsCurrent, InFlight
  <2>3. \A q \in Requests \ {r} : ~InFlight(q)'
    BY <1>2, <2>1, QuietFacts DEF InFlight, TypeOK, Actors
  <2>4. copy' = copy /\ row' = row /\ crossed' = crossed
    BY <1>2, QuietFacts
  <2>. QED
    BY <2>1, <2>3, <2>4 DEF SerialCopyIsCurrent
<1>3. ASSUME NEW r \in Requests, Moves(r) PROVE SerialCopyIsCurrent'
  <2>. SUFFICES ASSUME ~parallel'
                PROVE  SerialCopyIsCurrent'
    BY DEF SerialCopyIsCurrent
  <2>1. ~parallel /\ InFlight(r) /\ \A q \in Requests \ {r} : ~InFlight(q)
    BY <1>3, MoveFacts DEF SerialCopyIsCurrent, InFlight
  <2>3. \A q \in Requests : ~InFlight(q)'
    BY <1>3, <2>1, MoveFacts DEF InFlight, TypeOK, Actors
  <2>. QED
    BY <2>3 DEF SerialCopyIsCurrent
<1>4. ASSUME NEW r \in Requests, NEW u \in Users, Complete(r, u)
      PROVE  SerialCopyIsCurrent'
  <2>. SUFFICES ASSUME ~parallel'
                PROVE  SerialCopyIsCurrent'
    BY DEF SerialCopyIsCurrent
  <2>1. ~parallel /\ InFlight(r) /\ \A q \in Requests \ {r} : ~InFlight(q)
    BY <1>4, CompleteFacts DEF SerialCopyIsCurrent, InFlight
  <2>3. \A q \in Requests : ~InFlight(q)'
    BY <1>4, <2>1, CompleteFacts DEF InFlight, TypeOK, Actors
  <2>. QED
    BY <2>3 DEF SerialCopyIsCurrent
<1>5. ASSUME NEW s \in Sweepers, SweepFlip(s) PROVE SerialCopyIsCurrent'
  BY <1>5, ActorsAssumption
     DEF SweepFlip, Goto, TypeOK, Rows, States, Terminal, Flippable, Actors,
         InFlight, vars, SerialCopyIsCurrent
<1>6. ASSUME NEW s \in Sweepers, SweepSelect(s) \/ SweepSkip(s) \/ SweepAbort(s)
      PROVE  SerialCopyIsCurrent'
  <2>1. row' = row /\ copy' = copy /\ parallel' = parallel /\ crossed' = crossed
    BY <1>6 DEF SweepSelect, SweepSkip, SweepAbort
  <2>2. \A r \in Requests : pc'[r] = pc[r]
    BY <1>6, ActorsAssumption DEF SweepSelect, SweepSkip, SweepAbort, Goto, TypeOK, Actors
  <2>3. \A r \in Requests : InFlight(r)' <=> InFlight(r)
    BY <2>2 DEF InFlight
  <2>. QED
    BY <2>1, <2>2, <2>3 DEF SerialCopyIsCurrent
<1>7. CASE BecomePastDue
  BY <1>7
     DEF BecomePastDue, TypeOK, Rows, States, Terminal, Flippable, Actors, InFlight,
         vars, SerialCopyIsCurrent
<1>8. CASE UNCHANGED vars
  BY <1>8
     DEF TypeOK, Rows, States, Terminal, Flippable, Actors, InFlight, vars,
         SerialCopyIsCurrent
<1>. QED
  BY <1>1, <1>2, <1>3, <1>4, <1>5, <1>6, <1>7, <1>8
     DEF Next, Request, Sweep, Moves

\* With a current copy a completed task is only completed again.
LEMMA SerialTasksAreClosedStep ==
    ASSUME TypeOK, TimesArePast, CompletedIsSigned, SerialCopyIsCurrent,
           SerialTasksAreClosed, [Next]_vars
    PROVE  SerialTasksAreClosed'
<1>1. ASSUME NEW r \in Requests, Load(r) PROVE SerialTasksAreClosed'
  BY <1>1, ActorsAssumption
     DEF Load, Goto, TypeOK, Rows, States, Terminal, Flippable, Actors, InFlight,
         vars, CompletedIsSigned, SerialCopyIsCurrent, SerialTasksAreClosed
<1>2. ASSUME NEW r \in Requests, ReadItem(r) \/ Tick(r) \/ Untick(r) \/ Abort(r)
      PROVE  SerialTasksAreClosed'
  <2>. SUFFICES ASSUME ~parallel'
                PROVE  SerialTasksAreClosed'
    BY DEF SerialTasksAreClosed
  <2>1. ~parallel /\ InFlight(r) /\ \A q \in Requests \ {r} : ~InFlight(q)
    BY <1>2, QuietFacts DEF SerialCopyIsCurrent, InFlight
  <2>3. \A q \in Requests \ {r} : ~InFlight(q)'
    BY <1>2, <2>1, QuietFacts DEF InFlight, TypeOK, Actors
  <2>4. pc'[r] = "sawTicked" => ticked'
    BY <1>2, <2>1, QuietFacts DEF InFlight, TypeOK, Actors
  <2>5. row' = row /\ completions' = completions
    BY <1>2, QuietFacts
  <2>. QED
    BY <2>1, <2>3, <2>4, <2>5 DEF SerialTasksAreClosed, InFlight
<1>3. ASSUME NEW r \in Requests, Moves(r) PROVE SerialTasksAreClosed'
  <2>. SUFFICES ASSUME ~parallel'
                PROVE  SerialTasksAreClosed'
    BY DEF SerialTasksAreClosed
  <2>1. ~parallel /\ InFlight(r) /\ \A q \in Requests \ {r} : ~InFlight(q)
    BY <1>3, MoveFacts DEF SerialCopyIsCurrent, InFlight
  <2>2. /\ \/ copy[r] = row
           \/ crossed /\ copy[r].state \in Flippable /\ row.state = "overdue" /\ row.marked
        /\ row.at = copy[r].at /\ row.by = copy[r].by
    BY <2>1 DEF SerialCopyIsCurrent, TypeOK, Rows
  <2>3. \A q \in Requests : ~InFlight(q)'
    BY <1>3, <2>1, MoveFacts DEF InFlight, TypeOK, Actors
  <2>4. completions # {} => row' = row
    BY <1>3, <2>1, <2>2, MoveFacts
       DEF SerialTasksAreClosed, TypeOK, Rows, Terminal, Flippable
  <2>5. row'.at = row.at /\ row'.by = row.by /\ completions' = completions
    BY <1>3, MoveFacts
  <2>. QED
    BY <2>1, <2>3, <2>4, <2>5 DEF SerialTasksAreClosed, InFlight
<1>4. ASSUME NEW r \in Requests, NEW u \in Users, Complete(r, u)
      PROVE  SerialTasksAreClosed'
  <2>. SUFFICES ASSUME ~parallel'
                PROVE  SerialTasksAreClosed'
    BY DEF SerialTasksAreClosed
  <2>1. ~parallel /\ InFlight(r) /\ \A q \in Requests \ {r} : ~InFlight(q)
    BY <1>4, CompleteFacts DEF SerialCopyIsCurrent, InFlight
  <2>2. /\ \/ copy[r] = row
           \/ crossed /\ copy[r].state \in Flippable /\ row.state = "overdue" /\ row.marked
        /\ row.at = copy[r].at /\ row.by = copy[r].by
    BY <2>1 DEF SerialCopyIsCurrent, TypeOK, Rows
  <2>3. \A q \in Requests : ~InFlight(q)'
    BY <1>4, <2>1, CompleteFacts DEF InFlight, TypeOK, Actors
  <2>4. row'.at = r /\ row'.by = u /\ row'.state = "completed"
    BY <1>4, <2>2, CompleteFacts DEF Flippable
  <2>. DEFINE new == [at |-> r, by |-> u, ticked |-> ticked]
  <2>5. new \in completions' /\ new.at = r /\ new.by = u
    BY <1>4, CompleteFacts
  <2>. QED
    BY <2>3, <2>4, <2>5 DEF SerialTasksAreClosed, InFlight
<1>5. ASSUME NEW s \in Sweepers, SweepFlip(s) PROVE SerialTasksAreClosed'
  BY <1>5, ActorsAssumption
     DEF SweepFlip, Goto, TypeOK, Rows, States, Terminal, Flippable, Actors,
         InFlight, vars, CompletedIsSigned, SerialCopyIsCurrent, SerialTasksAreClosed
<1>6. ASSUME NEW s \in Sweepers, SweepSelect(s) \/ SweepSkip(s) \/ SweepAbort(s)
      PROVE  SerialTasksAreClosed'
  BY <1>6, ActorsAssumption
     DEF SweepSelect, SweepSkip, SweepAbort, Goto, TypeOK, Rows, States, Terminal,
         Flippable, Actors, InFlight, vars, CompletedIsSigned, SerialCopyIsCurrent,
         SerialTasksAreClosed
<1>7. CASE BecomePastDue
  BY <1>7
     DEF BecomePastDue, TypeOK, Rows, States, Terminal, Flippable, Actors, InFlight,
         vars, CompletedIsSigned, SerialCopyIsCurrent, SerialTasksAreClosed
<1>8. CASE UNCHANGED vars
  BY <1>8
     DEF TypeOK, Rows, States, Terminal, Flippable, Actors, InFlight, vars,
         CompletedIsSigned, SerialCopyIsCurrent, SerialTasksAreClosed
<1>. QED
  BY <1>1, <1>2, <1>3, <1>4, <1>5, <1>6, <1>7, <1>8
     DEF Next, Request, Sweep, Moves

\* The mark comes and goes with the state.
LEMMA OverdueIsMarkedStep ==
    ASSUME TypeOK, TimesArePast, SerialCopyIsCurrent, OverdueIsMarked, [Next]_vars
    PROVE  OverdueIsMarked'
<1>1. ASSUME NEW r \in Requests, Load(r) PROVE OverdueIsMarked'
  BY <1>1, ActorsAssumption
     DEF Load, Goto, TypeOK, Rows, States, Terminal, Flippable, Actors, InFlight,
         vars, SerialCopyIsCurrent, OverdueIsMarked
<1>2. ASSUME NEW r \in Requests, ReadItem(r) \/ Tick(r) \/ Untick(r) \/ Abort(r)
      PROVE  OverdueIsMarked'
  <2>1. row' = row /\ parallel' = parallel /\ crossed' = crossed
    BY <1>2, QuietFacts
  <2>. QED
    BY <2>1 DEF OverdueIsMarked
<1>3. ASSUME NEW r \in Requests, Moves(r) PROVE OverdueIsMarked'
  <2>. SUFFICES ASSUME ~parallel'
                PROVE  OverdueIsMarked'
    BY DEF OverdueIsMarked
  <2>1. ~parallel /\ InFlight(r) /\ \A q \in Requests \ {r} : ~InFlight(q)
    BY <1>3, MoveFacts DEF SerialCopyIsCurrent, InFlight
  <2>2. /\ \/ copy[r] = row
           \/ crossed /\ copy[r].state \in Flippable /\ row.state = "overdue" /\ row.marked
        /\ row.at = copy[r].at /\ row.by = copy[r].by
    BY <2>1 DEF SerialCopyIsCurrent, TypeOK, Rows
  <2>3. row'.state = "overdue" => row'.marked
    BY <1>3, <2>1, MoveFacts DEF OverdueIsMarked
  <2>4. ASSUME ~crossed, row'.marked PROVE row'.state = "overdue"
    BY <1>3, <2>1, <2>2, <2>4, MoveFacts DEF OverdueIsMarked
  <2>5. crossed' = crossed
    BY <1>3, MoveFacts
  <2>. QED
    BY <2>3, <2>4, <2>5 DEF OverdueIsMarked
<1>4. ASSUME NEW r \in Requests, NEW u \in Users, Complete(r, u)
      PROVE  OverdueIsMarked'
  <2>. SUFFICES ASSUME ~parallel'
                PROVE  OverdueIsMarked'
    BY DEF OverdueIsMarked
  <2>1. ~parallel /\ InFlight(r) /\ \A q \in Requests \ {r} : ~InFlight(q)
    BY <1>4, CompleteFacts DEF SerialCopyIsCurrent, InFlight
  <2>2. /\ \/ copy[r] = row
           \/ crossed /\ copy[r].state \in Flippable /\ row.state = "overdue" /\ row.marked
        /\ row.at = copy[r].at /\ row.by = copy[r].by
    BY <2>1 DEF SerialCopyIsCurrent, TypeOK, Rows
  <2>3. row'.state = "completed" /\ crossed' = crossed
    BY <1>4, <2>2, CompleteFacts DEF Flippable
  <2>4. ~crossed => ~row'.marked
    BY <1>4, <2>2, CompleteFacts
  <2>. QED
    BY <2>3, <2>4 DEF OverdueIsMarked
<1>5. ASSUME NEW s \in Sweepers, SweepFlip(s) PROVE OverdueIsMarked'
  BY <1>5, ActorsAssumption
     DEF SweepFlip, Goto, TypeOK, Rows, States, Terminal, Flippable, Actors,
         InFlight, vars, SerialCopyIsCurrent, OverdueIsMarked
<1>6. ASSUME NEW s \in Sweepers, SweepSelect(s) \/ SweepSkip(s) \/ SweepAbort(s)
      PROVE  OverdueIsMarked'
  BY <1>6, ActorsAssumption
     DEF SweepSelect, SweepSkip, SweepAbort, Goto, TypeOK, Rows, States, Terminal,
         Flippable, Actors, InFlight, vars, SerialCopyIsCurrent, OverdueIsMarked
<1>7. CASE BecomePastDue
  BY <1>7
     DEF BecomePastDue, TypeOK, Rows, States, Terminal, Flippable, Actors, InFlight,
         vars, SerialCopyIsCurrent, OverdueIsMarked
<1>8. CASE UNCHANGED vars
  BY <1>8
     DEF TypeOK, Rows, States, Terminal, Flippable, Actors, InFlight, vars,
         SerialCopyIsCurrent, OverdueIsMarked
<1>. QED
  BY <1>1, <1>2, <1>3, <1>4, <1>5, <1>6, <1>7, <1>8
     DEF Next, Request, Sweep, Moves

\* With a current copy the audit names the completion on the row.
LEMMA SerialCompletionsAreKeptStep ==
    ASSUME TypeOK, TimesArePast, SerialCopyIsCurrent, SerialTasksAreClosed,
           SerialCompletionsAreKept, [Next]_vars
    PROVE  SerialCompletionsAreKept'
<1>1. ASSUME NEW r \in Requests, Load(r) PROVE SerialCompletionsAreKept'
  BY <1>1, ActorsAssumption
     DEF Load, Goto, TypeOK, Rows, States, Terminal, Flippable, Actors, InFlight,
         vars, SerialCopyIsCurrent, SerialTasksAreClosed, SerialCompletionsAreKept
<1>2. ASSUME NEW r \in Requests, ReadItem(r) \/ Tick(r) \/ Untick(r) \/ Abort(r)
      PROVE  SerialCompletionsAreKept'
  <2>1. row' = row /\ completions' = completions /\ superseded' = superseded
        /\ parallel' = parallel
    BY <1>2, QuietFacts
  <2>. QED
    BY <2>1 DEF SerialCompletionsAreKept
<1>3. ASSUME NEW r \in Requests, Moves(r) PROVE SerialCompletionsAreKept'
  <2>1. row'.at = row.at /\ row'.by = row.by /\ completions' = completions 
        /\ superseded' = superseded /\ parallel' = parallel
    BY <1>3, MoveFacts
  <2>. QED
    BY <2>1 DEF SerialCompletionsAreKept
<1>4. ASSUME NEW r \in Requests, NEW u \in Users, Complete(r, u)
      PROVE  SerialCompletionsAreKept'
  <2>. SUFFICES ASSUME ~parallel'
                PROVE  SerialCompletionsAreKept'
    BY DEF SerialCompletionsAreKept
  <2>1. ~parallel /\ InFlight(r) /\ \A q \in Requests \ {r} : ~InFlight(q)
    BY <1>4, CompleteFacts DEF SerialCopyIsCurrent, InFlight
  <2>2. /\ \/ copy[r] = row
           \/ crossed /\ copy[r].state \in Flippable /\ row.state = "overdue" /\ row.marked
        /\ row.at = copy[r].at /\ row.by = copy[r].by
    BY <2>1 DEF SerialCopyIsCurrent, TypeOK, Rows
  <2>3. row'.at = r /\ row'.by = u
    BY <1>4, <2>2, CompleteFacts
  <2>4. ASSUME NEW c \in completions
        PROVE  [at |-> c.at, by |-> c.by] \in superseded'
    <3>1. row.state = "completed"
      BY <2>1 DEF SerialTasksAreClosed
    <3>2. copy[r] = row
      BY <2>2, <3>1
    <3>3. superseded' = superseded \cup {[at |-> row.at, by |-> row.by]}
      BY <1>4, <3>1, <3>2, CompleteFacts
    <3>4. (c.at = row.at /\ c.by = row.by) \/ [at |-> c.at, by |-> c.by] \in superseded
      BY <2>1 DEF SerialCompletionsAreKept
    <3>. QED
      BY <3>3, <3>4
  <2>. DEFINE new == [at |-> r, by |-> u, ticked |-> ticked]
  <2>5. new.at = r /\ new.by = u /\ \A c \in completions' : c \in completions \/ c = new
    BY <1>4, CompleteFacts
  <2>. QED
    BY <2>3, <2>4, <2>5 DEF SerialCompletionsAreKept
<1>5. ASSUME NEW s \in Sweepers, SweepFlip(s) PROVE SerialCompletionsAreKept'
  BY <1>5, ActorsAssumption
     DEF SweepFlip, Goto, TypeOK, Rows, States, Terminal, Flippable, Actors,
         InFlight, vars, SerialCopyIsCurrent, SerialTasksAreClosed,
         SerialCompletionsAreKept
<1>6. ASSUME NEW s \in Sweepers, SweepSelect(s) \/ SweepSkip(s) \/ SweepAbort(s)
      PROVE  SerialCompletionsAreKept'
  <2>1. row' = row /\ completions' = completions /\ superseded' = superseded
        /\ parallel' = parallel
    BY <1>6 DEF SweepSelect, SweepSkip, SweepAbort
  <2>. QED
    BY <2>1 DEF SerialCompletionsAreKept
<1>7. CASE BecomePastDue
  BY <1>7
     DEF BecomePastDue, TypeOK, Rows, States, Terminal, Flippable, Actors, InFlight,
         vars, SerialCopyIsCurrent, SerialTasksAreClosed, SerialCompletionsAreKept
<1>8. CASE UNCHANGED vars
  BY <1>8
     DEF TypeOK, Rows, States, Terminal, Flippable, Actors, InFlight, vars,
         SerialCopyIsCurrent, SerialTasksAreClosed, SerialCompletionsAreKept
<1>. QED
  BY <1>1, <1>2, <1>3, <1>4, <1>5, <1>6, <1>7, <1>8
     DEF Next, Request, Sweep, Moves

\* With a current copy the item of a completed task is not unticked.
LEMMA CompletedIsTickedStep ==
    ASSUME TypeOK, TimesArePast, SerialCopyIsCurrent, SerialTasksAreClosed,
           CompletedIsTicked, [Next]_vars
    PROVE  CompletedIsTicked'
<1>1. ASSUME NEW r \in Requests, Load(r) PROVE CompletedIsTicked'
  BY <1>1, ActorsAssumption
     DEF Load, Goto, TypeOK, Rows, States, Terminal, Flippable, Actors, InFlight,
         vars, SerialCopyIsCurrent, SerialTasksAreClosed, CompletedIsTicked
<1>2. ASSUME NEW r \in Requests, ReadItem(r) \/ Tick(r) \/ Untick(r) \/ Abort(r)
      PROVE  CompletedIsTicked'
  <2>. SUFFICES ASSUME ~parallel'
                PROVE  CompletedIsTicked'
    BY DEF CompletedIsTicked
  <2>1. ~parallel /\ InFlight(r) /\ \A q \in Requests \ {r} : ~InFlight(q)
    BY <1>2, QuietFacts DEF SerialCopyIsCurrent, InFlight
  <2>2. /\ \/ copy[r] = row
           \/ crossed /\ copy[r].state \in Flippable /\ row.state = "overdue" /\ row.marked
        /\ row.at = copy[r].at /\ row.by = copy[r].by
    BY <2>1 DEF SerialCopyIsCurrent, TypeOK, Rows
  <2>3. row' = row /\ completions' = completions
    BY <1>2, QuietFacts
  <2>4. row.state = "completed" => ticked' = ticked
    BY <1>2, <2>2, QuietFacts DEF Terminal
  <2>. QED
    BY <2>1, <2>3, <2>4 DEF CompletedIsTicked
<1>3. ASSUME NEW r \in Requests, Moves(r) PROVE CompletedIsTicked'
  BY <1>3, MoveFacts
     DEF TypeOK, Rows, States, Terminal, Flippable, Actors, InFlight, vars,
         SerialCopyIsCurrent, SerialTasksAreClosed, CompletedIsTicked
<1>4. ASSUME NEW r \in Requests, NEW u \in Users, Complete(r, u)
      PROVE  CompletedIsTicked'
  <2>. SUFFICES ASSUME ~parallel'
                PROVE  CompletedIsTicked'
    BY DEF CompletedIsTicked
  <2>1. ~parallel /\ InFlight(r) /\ \A q \in Requests \ {r} : ~InFlight(q)
    BY <1>4, CompleteFacts DEF SerialCopyIsCurrent, InFlight
  <2>3. ticked /\ ticked'
    BY <1>4, <2>1, CompleteFacts DEF SerialTasksAreClosed
  <2>4. \A c \in completions' : c \in completions \/ c.ticked = ticked
    BY <1>4, CompleteFacts
  <2>. QED
    BY <2>1, <2>3, <2>4 DEF CompletedIsTicked
<1>5. ASSUME NEW s \in Sweepers, SweepFlip(s) PROVE CompletedIsTicked'
  BY <1>5, ActorsAssumption
     DEF SweepFlip, Goto, TypeOK, Rows, States, Terminal, Flippable, Actors,
         InFlight, vars, SerialCopyIsCurrent, SerialTasksAreClosed, CompletedIsTicked
<1>6. ASSUME NEW s \in Sweepers, SweepSelect(s) \/ SweepSkip(s) \/ SweepAbort(s)
      PROVE  CompletedIsTicked'
  BY <1>6, ActorsAssumption
     DEF SweepSelect, SweepSkip, SweepAbort, Goto, TypeOK, Rows, States, Terminal,
         Flippable, Actors, InFlight, vars, SerialCopyIsCurrent, SerialTasksAreClosed,
         CompletedIsTicked
<1>7. CASE BecomePastDue
  BY <1>7
     DEF BecomePastDue, TypeOK, Rows, States, Terminal, Flippable, Actors, InFlight,
         vars, SerialCopyIsCurrent, SerialTasksAreClosed, CompletedIsTicked
<1>8. CASE UNCHANGED vars
  BY <1>8
     DEF TypeOK, Rows, States, Terminal, Flippable, Actors, InFlight, vars,
         SerialCopyIsCurrent, SerialTasksAreClosed, CompletedIsTicked
<1>. QED
  BY <1>1, <1>2, <1>3, <1>4, <1>5, <1>6, <1>7, <1>8
     DEF Next, Request, Sweep, Moves

-----------------------------------------------------------------------------
(* The theorems.                                                           *)

\* What a step does to a task in a terminal state.
StragglerStep ==
    row.state \in Terminal /\ row'.state # row.state =>
        \E r \in stale : InFlight(r) /\ pc'[r] = "done"

\* Only the requests that write the row change its state, from open copies.
LEMMA StragglerStepStep ==
    ASSUME TypeOK, TimesArePast, StragglersAreKnown, [Next]_vars PROVE StragglerStep
<1>. SUFFICES ASSUME row.state \in Terminal, row'.state # row.state
              PROVE  \E r \in stale : InFlight(r) /\ pc'[r] = "done"
  BY DEF StragglerStep
<1>1. ASSUME NEW r \in Requests, Moves(r)
      PROVE  \E q \in stale : InFlight(q) /\ pc'[q] = "done"
  <2>1. InFlight(r) /\ copy[r].state \notin Terminal /\ pc'[r] = "done"
    BY <1>1, MoveFacts DEF TypeOK, Actors
  <2>. QED
    BY <2>1 DEF StragglersAreKnown
<1>2. ASSUME NEW r \in Requests, NEW u \in Users, Complete(r, u)
      PROVE  \E q \in stale : InFlight(q) /\ pc'[q] = "done"
  <2>1. InFlight(r) /\ copy[r].state \notin Terminal /\ pc'[r] = "done"
    BY <1>2, CompleteFacts DEF TypeOK, Actors, InFlight
  <2>. QED
    BY <2>1 DEF StragglersAreKnown
<1>3. ASSUME NEW s \in Sweepers PROVE ~SweepFlip(s)
  BY DEF SweepFlip, Terminal, Flippable
<1>. QED
  BY <1>1, <1>2, <1>3
     DEF Next, Request, Sweep, Moves, Load, ReadItem, Tick, Untick, Abort,
         SweepSelect, SweepSkip, SweepAbort, BecomePastDue, vars

\* The inductive invariant holds in every state, with any number of requests,
\* users, sweeping processes and failures.
THEOREM Invariance == Spec => []IInv
<1>1. ASSUME Init PROVE IInv
  <2>1. TypeOK
    BY <1>1 DEF Init, TypeOK, Rows, States, Terminal, Flippable, Actors
  <2>2. TimesArePast /\ UsersAreReal /\ CompletedIsSigned /\ StragglersAreKnown
    BY <1>1 DEF Init, TimesArePast, UsersAreReal, CompletedIsSigned, StragglersAreKnown,
                Terminal
  <2>3. SerialCopyIsCurrent /\ SerialTasksAreClosed
    BY <1>1 DEF Init, SerialCopyIsCurrent, SerialTasksAreClosed, InFlight, Actors
  <2>4. OverdueIsMarked /\ SerialCompletionsAreKept /\ CompletedIsTicked
    BY <1>1 DEF Init, OverdueIsMarked, SerialCompletionsAreKept, CompletedIsTicked
  <2>. QED
    BY <2>1, <2>2, <2>3, <2>4 DEF IInv
<1>2. IInv /\ [Next]_vars => IInv'
  BY TypeStep, TimesArePastStep, UsersAreRealStep, CompletedIsSignedStep,
     StragglersAreKnownStep, SerialCopyIsCurrentStep, SerialTasksAreClosedStep,
     OverdueIsMarkedStep, SerialCompletionsAreKeptStep, CompletedIsTickedStep
     DEF IInv
<1>. QED
  BY <1>1, <1>2, PTL DEF Spec

\* Type correctness: the row, the copies and what completions append.
THEOREM TypeCorrect == Spec => []TypeOK
<1>1. IInv => TypeOK
  BY DEF IInv
<1>. QED
  BY <1>1, Invariance, PTL

\* Only requests in flight when the task became terminal can take it out of a
\* terminal state; the sweep's conditional UPDATE never does.
THEOREM StragglersOnly == Spec => TerminalIsLeftByStragglers
<1>1. IInv /\ [Next]_vars => [StragglerStep]_vars
  BY StragglerStepStep DEF IInv
<1>2. [StragglerStep]_vars <=> [row.state \in Terminal /\ row'.state # row.state =>
          \E r \in stale : InFlight(r) /\ pc'[r] = "done"]_vars
  BY DEF StragglerStep
<1>. QED
  BY <1>1, <1>2, Invariance, PTL DEF Spec, TerminalIsLeftByStragglers

\* Without overlapping requests overdue_since goes with the overdue state.
THEOREM MarkedOverdue == Spec => []OverdueIsMarked
<1>1. IInv => OverdueIsMarked
  BY DEF IInv
<1>. QED
  BY <1>1, Invariance, PTL

\* A completed row names a completer and a completion, with overlaps too.
THEOREM RealCompletion == Spec => []CompletionIsReal
<1>1. IInv => CompletionIsReal
  BY DEF IInv, TimesArePast, UsersAreReal, CompletedIsSigned, SerialTasksAreClosed,
         CompletionIsReal
<1>. QED
  BY <1>1, Invariance, PTL

\* Without overlapping requests every displaced completion is in the audit.
THEOREM KeptCompletions == Spec => []SerialCompletionsAreKept
<1>1. IInv => SerialCompletionsAreKept
  BY DEF IInv
<1>. QED
  BY <1>1, Invariance, PTL

\* Without overlapping requests the required item of a completed task stays ticked.
THEOREM TickedCompletions == Spec => []CompletedIsTicked
<1>1. IInv => CompletedIsTicked
  BY DEF IInv
<1>. QED
  BY <1>1, Invariance, PTL

\* The three together: what requests that do not overlap can rely on.
THEOREM SoundSerialRequests == Spec => []SerialRequestsAreSound
<1>1. IInv => SerialRequestsAreSound
  BY DEF IInv, SerialRequestsAreSound
<1>. QED
  BY <1>1, Invariance, PTL

-----------------------------------------------------------------------------
(* Generator: the inductive invariant.                                     *)

\* One task at a time, the index.
SlotsAreSingle == \A x, y \in tasks : x.schedule = y.schedule /\ x.at = y.at => x = y

\* What a tick has inserted is its own until it commits.
MadeAreFree ==
    \A g \in Generators : \A p \in made[g] :
        ~Taken(p[1], p[2]) /\ \A h \in Generators \ {g} : p \notin made[h]

\* A tick works on schedules that it has loaded.
WorkIsLoaded ==
    \A g \in Generators :
        /\ \A s \in left[g] : loaded[g][s] # NoBody
        /\ \A p \in todo[g] \cup made[g] : loaded[g][p[1]] # NoBody

\* Who has loaded a schedule that is quiet now is known to be late.
LateAreKnown ==
    \A g \in Generators, s \in Schedules :
        loaded[g][s] # NoBody =>
            status[s] # "absent" /\ (~Active(s) => g \in late[s])

\* A deletion is of a schedule that exists.
ErasedExist == \A m \in Managers : erasing[m] # NoSchedule => status[erasing[m]] # "absent"

GenInv ==
    /\ GenTypeOK
    /\ SlotsAreSingle
    /\ MadeAreFree
    /\ WorkIsLoaded
    /\ LateAreKnown
    /\ ErasedExist

GenAssumption ==
    BodiesAssumption /\ DatesAssumption /\ NoBodyAssumption /\ NoScheduleAssumption

LEMMA GenAssumed == GenAssumption
  BY BodiesAssumption, DatesAssumption, NoBodyAssumption, NoScheduleAssumption
     DEF GenAssumption

-----------------------------------------------------------------------------
(* Generator: the steps.                                                   *)

\* What a task becomes when a step moves, leaves or cancels it.
LEMMA TaskFields ==
    ASSUME NEW x \in Tasks, NEW d \in Days, NEW t \in {"scheduled", "pending", "left", "cancelled"}
    PROVE  /\ [x EXCEPT !.state = t] \in Tasks
           /\ [x EXCEPT !.state = t].at = x.at
           /\ [x EXCEPT !.state = t].state = t
           /\ Same([x EXCEPT !.state = t], x)
           /\ [x EXCEPT !.state = t].schedule = x.schedule
           /\ [x EXCEPT !.at = d, !.state = t] \in Tasks
           /\ [x EXCEPT !.at = d, !.state = t].at = d
           /\ Same([x EXCEPT !.at = d, !.state = t], x)
           /\ [x EXCEPT !.at = d, !.state = t].schedule = x.schedule
  BY DEF Tasks, Same

\* A task that has been moved.
Moved(x, d, t) == [x EXCEPT !.at = d, !.state = t]

LEMMA MovedTask ==
    ASSUME GenTypeOK, NEW x \in tasks, NEW d \in Days, MoveTask(x, d)
    PROVE  \E t \in {"scheduled", "pending", "left", "cancelled"} :
              tasks' = (tasks \ {x}) \cup {Moved(x, d, t)}
<1>. DEFINE t == CASE x.state = "scheduled" /\ d <= Local(x.schedule) -> "pending"
                   [] x.state = "pending" /\ d > Local(x.schedule) -> "scheduled"
                   [] OTHER -> x.state
<1>1. x.state \in {"scheduled", "pending", "left", "cancelled"}
  BY DEF GenTypeOK, Tasks
<1>2. t \in {"scheduled", "pending", "left", "cancelled"}
  BY <1>1
<1>3. tasks' = (tasks \ {x}) \cup {Moved(x, d, t)}
  BY DEF MoveTask, Moved
<1>. QED
  BY <1>2, <1>3

\* The types.
LEMMA GenTypeStep ==
    ASSUME GenInv, GenNext PROVE GenTypeOK'
<1>. USE GenAssumed DEF GenAssumption, GenInv, GenTypeOK
<1>1. ASSUME NEW s \in Schedules, Edit(s) PROVE GenTypeOK'
  <2>1. CASE CreateSchedule(s)
    BY <2>1 DEF CreateSchedule, tickVars, eraseVars
  <2>2. ASSUME NEW b \in Bodies, UpdateSchedule(s, b) PROVE GenTypeOK'
    BY <2>2 DEF UpdateSchedule, tickVars, eraseVars
  <2>3. CASE PauseSchedule(s)
    BY <2>3 DEF PauseSchedule, tickVars, eraseVars, Knowing
  <2>4. CASE ResumeSchedule(s)
    BY <2>4 DEF ResumeSchedule, tickVars, eraseVars
  <2>. QED
    BY <1>1, <2>1, <2>2, <2>3, <2>4 DEF Edit
<1>2. ASSUME NEW m \in Managers, DeleteCommit(m) PROVE GenTypeOK'
  <2>1. \A x \in tasks : Cancelled(x, saw[m]) \in Tasks
    BY ZenonT(40), TaskFields DEF Cancelled, Tasks
  <2>2. erasing[m] \in Schedules
    BY <1>2 DEF DeleteCommit
  <2>3. tasks' \subseteq Tasks
    BY <1>2, <2>1 DEF DeleteCommit
  <2>. QED
    BY <1>2, <2>2, <2>3 DEF DeleteCommit, tickVars, Knowing
<1>3. ASSUME NEW m \in Managers, NEW s \in Schedules, DeleteRead(m, s) PROVE GenTypeOK'
  BY <1>3 DEF DeleteRead, scheduleVars, tickVars
<1>4. ASSUME NEW m \in Managers, DeleteAbort(m) PROVE GenTypeOK'
  BY <1>4 DEF DeleteAbort, scheduleVars, tickVars
<1>5. ASSUME NEW d \in Closable, ToggleClosure(d) PROVE GenTypeOK'
  BY <1>5 DEF ToggleClosure, scheduleVars, tickVars, eraseVars
<1>6. ASSUME NEW x \in tasks, LeaveTask(x) PROVE GenTypeOK'
  <2>1. [x EXCEPT !.state = "left"] \in Tasks
    <3>1. x \in Tasks
      OBVIOUS
    <3>. QED
      BY <3>1 DEF Tasks
  <2>. QED
    BY <1>6, <2>1 DEF LeaveTask, scheduleVars, tickVars, eraseVars
<1>7. ASSUME NEW x \in tasks, NEW d \in Days, MoveTask(x, d) PROVE GenTypeOK'
  <2>1. PICK t \in {"scheduled", "pending", "left", "cancelled"} :
              tasks' = (tasks \ {x}) \cup {Moved(x, d, t)}
    BY <1>7, MovedTask
  <2>2. Moved(x, d, t) \in Tasks
    BY ZenonT(40) DEF Moved, Tasks
  <2>3. moves' \in 0..MaxMoves
    BY <1>7 DEF MoveTask
  <2>. QED
    BY <1>7, <2>1, <2>2, <2>3 DEF MoveTask, scheduleVars, tickVars, eraseVars
<1>8. ASSUME NEW g \in Generators, TickLoad(g) PROVE GenTypeOK'
  BY <1>8 DEF TickLoad, scheduleVars, eraseVars, Eligible
<1>9. ASSUME NEW g \in Generators, NEW s \in Schedules, TickExpand(g, s) PROVE GenTypeOK'
  <2>1. loaded[g][s] \in Bodies \cup {NoBody}
    OBVIOUS
  <2>2. {<<s, d>> : d \in Candidates(s, loaded[g][s])} \subseteq Schedules \X Days
    <3>1. CASE loaded[g][s] = NoBody
      BY <1>9, <3>1 DEF TickExpand, WorkIsLoaded
    <3>2. CASE loaded[g][s] \in Bodies
      BY <3>2 DEF Candidates
    <3>. QED
      BY <2>1, <3>1, <3>2
  <2>. QED
    BY <1>9, <2>2 DEF TickExpand, scheduleVars, eraseVars
<1>10. ASSUME NEW g \in Generators, NEW p \in todo[g], TickInsert(g, p) PROVE GenTypeOK'
  BY <1>10 DEF TickInsert, scheduleVars, eraseVars
<1>11. ASSUME NEW g \in Generators, Ends(g)
       PROVE  /\ loaded' \in [Generators -> [Schedules -> Bodies \cup {NoBody}]]
              /\ left' \in [Generators -> SUBSET Schedules]
              /\ todo' \in [Generators -> SUBSET (Schedules \X Days)]
              /\ made' \in [Generators -> SUBSET (Schedules \X Days)]
              /\ late' \in [Schedules -> SUBSET Generators]
  BY <1>11 DEF Ends, Nothing
<1>12. ASSUME NEW g \in Generators, TickCommit(g) PROVE GenTypeOK'
  <2>1. \A p \in made[g] : New(p) \in Tasks
    BY DEF New, Tasks
  <2>. QED
    BY <1>11, <1>12, <2>1 DEF TickCommit, scheduleVars, eraseVars
<1>13. ASSUME NEW g \in Generators, TickFail(g) PROVE GenTypeOK'
  BY <1>11, <1>13 DEF TickFail, scheduleVars, eraseVars
<1>14. CASE DayPasses
  BY <1>14 DEF DayPasses, scheduleVars, tickVars, eraseVars
<1>. QED
  BY <1>1, <1>2, <1>3, <1>4, <1>5, <1>6, <1>7, <1>8, <1>9, <1>10, <1>12, <1>13, <1>14
     DEF GenNext, GoOn

\* No step but a commit makes a task, and no step makes two tasks of one.
LEMMA SlotsStep ==
    ASSUME GenInv, GenNext PROVE SlotsAreSingle'
<1>. USE GenAssumed DEF GenAssumption, GenInv
<1>1. ASSUME UNCHANGED tasks PROVE SlotsAreSingle'
  BY <1>1 DEF SlotsAreSingle
<1>2. ASSUME NEW m \in Managers, DeleteCommit(m) PROVE SlotsAreSingle'
  <2>1. \A x \in tasks : Cancelled(x, saw[m]).schedule = x.schedule
                          /\ Cancelled(x, saw[m]).at = x.at
    BY TaskFields DEF Cancelled, GenTypeOK, Tasks
  <2>. QED
    BY <1>2, <2>1 DEF DeleteCommit, SlotsAreSingle
<1>3. ASSUME NEW x \in tasks, LeaveTask(x) PROVE SlotsAreSingle'
  <2>1. x \in Tasks
    BY DEF GenTypeOK
  <2>. DEFINE y == [x EXCEPT !.state = "left"]
  <2>2. y.schedule = x.schedule /\ y.at = x.at
    BY <2>1 DEF Tasks
  <2>3. tasks' = (tasks \ {x}) \cup {y}
    BY <1>3 DEF LeaveTask
  <2>. HIDE DEF y
  <2>. QED
    BY <2>2, <2>3 DEF SlotsAreSingle
<1>4. ASSUME NEW x \in tasks, NEW d \in Days, MoveTask(x, d) PROVE SlotsAreSingle'
  <2>1. PICK t \in {"scheduled", "pending", "left", "cancelled"} :
              tasks' = (tasks \ {x}) \cup {Moved(x, d, t)}
    BY <1>4, MovedTask
  <2>2. x \in Tasks
    BY DEF GenTypeOK
  <2>3. Moved(x, d, t).schedule = x.schedule /\ Moved(x, d, t).at = d
    BY <2>2 DEF Moved, Tasks
  <2>4. \A y \in tasks : ~(y.schedule = x.schedule /\ y.at = d)
    BY <1>4 DEF MoveTask, Taken
  <2>. QED
    BY <2>1, <2>3, <2>4 DEF SlotsAreSingle
<1>5. ASSUME NEW g \in Generators, TickCommit(g) PROVE SlotsAreSingle'
  <2>1. \A p \in made[g] : /\ New(p).schedule = p[1] /\ New(p).at = p[2]
                            /\ p = <<p[1], p[2]>>
                            /\ ~Taken(p[1], p[2])
    BY DEF New, GenTypeOK, MadeAreFree
  <2>2. tasks' = tasks \cup {New(p) : p \in made[g]}
    BY <1>5 DEF TickCommit
  <2>3. ASSUME NEW x \in tasks', NEW y \in tasks', x.schedule = y.schedule, x.at = y.at
        PROVE  x = y
    <3>1. CASE x \in tasks /\ y \in tasks
      BY <2>3, <3>1 DEF SlotsAreSingle
    <3>2. ASSUME NEW p \in made[g], NEW z \in tasks PROVE ~(z.schedule = New(p).schedule /\ z.at = New(p).at)
      BY <2>1 DEF Taken
    <3>3. ASSUME NEW p \in made[g], NEW q \in made[g], x = New(p), y = New(q) PROVE x = y
      <4>1. p[1] = q[1] /\ p[2] = q[2]
        BY <2>1, <2>3, <3>3
      <4>. QED
        BY <2>1, <3>3, <4>1
    <3>. QED
      BY <2>2, <2>3, <3>1, <3>2, <3>3
  <2>. QED
    BY <2>3 DEF SlotsAreSingle
<1>. QED
  BY <1>1, <1>2, <1>3, <1>4, <1>5
     DEF GenNext, Edit, CreateSchedule, UpdateSchedule, PauseSchedule, ResumeSchedule,
         DeleteRead, DeleteAbort, ToggleClosure, TickLoad, GoOn, TickExpand, TickInsert,
         TickFail, DayPasses

\* The index: what is inserted and not committed keeps others off its key.
LEMMA MadeStep ==
    ASSUME GenInv, GenNext PROVE MadeAreFree'
<1>. USE GenAssumed DEF GenAssumption, GenInv
<1>1. ASSUME UNCHANGED <<tasks, made>> PROVE MadeAreFree'
  BY <1>1 DEF MadeAreFree, Taken
<1>2. ASSUME NEW m \in Managers, DeleteCommit(m) PROVE MadeAreFree'
  <2>1. \A x \in tasks : Cancelled(x, saw[m]).schedule = x.schedule
                          /\ Cancelled(x, saw[m]).at = x.at
    BY ZenonT(40), TaskFields DEF Cancelled, GenTypeOK, Tasks
  <2>2. \A s, d : Taken(s, d)' => Taken(s, d)
    BY <1>2, <2>1 DEF DeleteCommit, Taken
  <2>. QED
    BY <1>2, <2>2 DEF DeleteCommit, MadeAreFree, tickVars
<1>3. ASSUME NEW x \in tasks, LeaveTask(x) PROVE MadeAreFree'
  <2>1. x \in Tasks
    BY DEF GenTypeOK
  <2>2. /\ [x EXCEPT !.state = "left"].schedule = x.schedule
        /\ [x EXCEPT !.state = "left"].at = x.at
    BY <2>1 DEF Tasks
  <2>3. \A s, d : Taken(s, d)' => Taken(s, d)
    BY <1>3, <2>2 DEF LeaveTask, Taken
  <2>. QED
    BY <1>3, <2>3 DEF LeaveTask, MadeAreFree, tickVars
<1>4. ASSUME NEW x \in tasks, NEW d \in Days, MoveTask(x, d) PROVE MadeAreFree'
  <2>1. PICK t \in {"scheduled", "pending", "left", "cancelled"} :
              tasks' = (tasks \ {x}) \cup {Moved(x, d, t)}
    BY <1>4, MovedTask
  <2>2. x \in Tasks
    BY DEF GenTypeOK
  <2>3. Moved(x, d, t).schedule = x.schedule /\ Moved(x, d, t).at = d
    BY <2>2 DEF Moved, Tasks
  <2>4. \A s, e : Taken(s, e)' => Taken(s, e) \/ (s = x.schedule /\ e = d)
    BY <2>1, <2>3 DEF Taken
  <2>5. ASSUME NEW g \in Generators, NEW p \in made[g] PROVE ~Taken(p[1], p[2])'
    <3>1. p = <<p[1], p[2]>> /\ ~Taken(p[1], p[2])
      BY DEF GenTypeOK, MadeAreFree
    <3>2. p # <<x.schedule, d>>
      BY <1>4 DEF MoveTask
    <3>. QED
      BY <2>4, <3>1, <3>2
  <2>. QED
    BY <1>4, <2>5 DEF MoveTask, MadeAreFree, tickVars
<1>5. ASSUME NEW g \in Generators, NEW p \in todo[g], TickInsert(g, p) PROVE MadeAreFree'
  <2>1. UNCHANGED tasks
    BY <1>5 DEF TickInsert
  <2>2. CASE Taken(p[1], p[2])
    BY <1>1, <1>5, <2>1, <2>2 DEF TickInsert
  <2>3. CASE ~Taken(p[1], p[2])
    <3>1. made' = [made EXCEPT ![g] = @ \cup {p}]
      BY <1>5, <2>3 DEF TickInsert
    <3>2. \A h \in Generators \ {g} : made'[h] = made[h] /\ p \notin made[h]
      BY <1>5, <3>1 DEF TickInsert, GenTypeOK
    <3>3. made'[g] = made[g] \cup {p}
      BY <3>1 DEF GenTypeOK
    <3>. QED
      BY <2>1, <2>3, <3>2, <3>3 DEF MadeAreFree, Taken
  <2>. QED
    BY <2>2, <2>3
<1>6. ASSUME NEW g \in Generators, Ends(g)
      PROVE  made'[g] = {} /\ \A h \in Generators \ {g} : made'[h] = made[h]
  BY <1>6 DEF Ends, GenTypeOK
<1>7. ASSUME NEW g \in Generators, TickCommit(g) PROVE MadeAreFree'
  <2>1. Ends(g) /\ tasks' = tasks \cup {New(p) : p \in made[g]}
    BY <1>7 DEF TickCommit
  <2>2. \A p \in made[g] : New(p).schedule = p[1] /\ New(p).at = p[2] /\ p = <<p[1], p[2]>>
    BY DEF New, GenTypeOK
  <2>3. \A s, d : Taken(s, d)' => Taken(s, d) \/ <<s, d>> \in made[g]
    BY <2>1, <2>2 DEF Taken
  <2>4. ASSUME NEW h \in Generators, NEW p \in made'[h] PROVE ~Taken(p[1], p[2])'
    <3>1. h # g /\ p \in made[h]
      BY <1>6, <2>1, <2>4
    <3>2. p = <<p[1], p[2]>> /\ ~Taken(p[1], p[2]) /\ p \notin made[g]
      BY <3>1 DEF GenTypeOK, MadeAreFree
    <3>. QED
      BY <2>3, <3>2
  <2>5. \A h \in Generators : made'[h] \subseteq made[h]
    BY <1>6, <2>1
  <2>. QED
    BY <2>4, <2>5 DEF MadeAreFree
<1>8. ASSUME NEW g \in Generators, TickFail(g) PROVE MadeAreFree'
  <2>1. Ends(g) /\ UNCHANGED tasks
    BY <1>8 DEF TickFail
  <2>2. \A h \in Generators : made'[h] \subseteq made[h]
    BY <1>6, <2>1
  <2>. QED
    BY <2>1, <2>2 DEF MadeAreFree, Taken
<1>9. ASSUME NEW s \in Schedules, Edit(s) PROVE MadeAreFree'
  BY <1>1, <1>9 DEF Edit, CreateSchedule, UpdateSchedule, PauseSchedule, ResumeSchedule, tickVars
<1>. QED
  BY <1>1, <1>2, <1>3, <1>4, <1>5, <1>7, <1>8, <1>9
     DEF GenNext, DeleteRead, DeleteAbort, ToggleClosure, TickLoad, GoOn, TickExpand,
         DayPasses, tickVars

\* What a tick works on it has loaded.
LEMMA WorkStep ==
    ASSUME GenInv, GenNext PROVE WorkIsLoaded'
<1>. USE GenAssumed DEF GenAssumption, GenInv
<1>1. ASSUME UNCHANGED tickVars PROVE WorkIsLoaded'
  BY <1>1 DEF WorkIsLoaded, tickVars
<1>2. ASSUME NEW g \in Generators, TickLoad(g) PROVE WorkIsLoaded'
  <2>1. todo[g] = {} /\ made[g] = {}
    <3>1. \A s \in Schedules : loaded[g][s] = NoBody
      BY <1>2 DEF TickLoad, Ticking, Nothing
    <3>2. \A p \in todo[g] \cup made[g] : p[1] \in Schedules
      BY DEF GenTypeOK
    <3>. QED
      BY <3>1, <3>2 DEF WorkIsLoaded
  <2>2. \A h \in Generators \ {g} : loaded'[h] = loaded[h] /\ left'[h] = left[h]
    BY <1>2 DEF TickLoad, GenTypeOK
  <2>3. \A s \in left'[g] : loaded'[g][s] # NoBody
    <3>1. left'[g] = {s \in Schedules : Eligible(s)}
      BY <1>2 DEF TickLoad, GenTypeOK
    <3>2. loaded'[g] = [s \in Schedules |-> IF Eligible(s) THEN body[s] ELSE NoBody]
      BY <1>2 DEF TickLoad, GenTypeOK
    <3>3. \A s \in Schedules : body[s] \in Bodies
      BY DEF GenTypeOK
    <3>. QED
      BY ZenonT(40), <3>1, <3>2, <3>3
  <2>4. todo' = todo /\ made' = made
    BY <1>2 DEF TickLoad
  <2>. QED
    BY <2>1, <2>2, <2>3, <2>4 DEF WorkIsLoaded
<1>3. ASSUME NEW g \in Generators, NEW s \in Schedules, TickExpand(g, s) PROVE WorkIsLoaded'
  <2>1. loaded' = loaded /\ made' = made
    BY <1>3 DEF TickExpand
  <2>2. \A h \in Generators \ {g} : todo'[h] = todo[h] /\ left'[h] = left[h]
    BY <1>3 DEF TickExpand, GenTypeOK
  <2>3. left'[g] \subseteq left[g] /\ loaded[g][s] # NoBody
    BY <1>3 DEF TickExpand, GenTypeOK, WorkIsLoaded
  <2>4. \A p \in todo'[g] : p[1] = s
    BY <1>3 DEF TickExpand, GenTypeOK
  <2>. QED
    BY <2>1, <2>2, <2>3, <2>4 DEF WorkIsLoaded
<1>4. ASSUME NEW g \in Generators, NEW p \in todo[g], TickInsert(g, p) PROVE WorkIsLoaded'
  BY <1>4 DEF TickInsert, GenTypeOK, WorkIsLoaded
<1>5. ASSUME NEW g \in Generators, Ends(g) PROVE WorkIsLoaded'
  BY <1>5 DEF Ends, GenTypeOK, WorkIsLoaded
<1>. QED
  BY <1>1, <1>2, <1>3, <1>4, <1>5
     DEF GenNext, Edit, CreateSchedule, UpdateSchedule, PauseSchedule, ResumeSchedule,
         DeleteRead, DeleteCommit, DeleteAbort, ToggleClosure, LeaveTask, MoveTask, GoOn,
         TickCommit, TickFail, DayPasses

\* A schedule goes quiet by a pause or a deletion, which note who knows it.
LEMMA LateStep ==
    ASSUME GenInv, GenNext PROVE LateAreKnown'
<1>. USE GenAssumed DEF GenAssumption, GenInv
<1>1. ASSUME UNCHANGED <<status, paused, loaded, late>> PROVE LateAreKnown'
  BY <1>1 DEF LateAreKnown, Active
<1>2. ASSUME NEW s \in Schedules, CreateSchedule(s) PROVE LateAreKnown'
  BY <1>2 DEF CreateSchedule, LateAreKnown, Active, tickVars, GenTypeOK
<1>3. ASSUME NEW s \in Schedules, PauseSchedule(s) PROVE LateAreKnown'
  <2>1. UNCHANGED <<status, loaded>> /\ status[s] = "live"
    BY <1>3 DEF PauseSchedule, Editable, tickVars
  <2>2. \A r \in Schedules \ {s} : paused'[r] = paused[r] /\ late'[r] = late[r]
    BY <1>3 DEF PauseSchedule, GenTypeOK
  <2>3. ASSUME NEW g \in Generators, loaded[g][s] # NoBody PROVE g \in late'[s]
    BY <1>3, <2>1, <2>3 DEF PauseSchedule, Knowing, LateAreKnown, Active, GenTypeOK
  <2>. QED
    BY <2>1, <2>2, <2>3 DEF LateAreKnown, Active
<1>4. ASSUME NEW s \in Schedules, ResumeSchedule(s) PROVE LateAreKnown'
  <2>1. UNCHANGED <<status, loaded, late>> /\ status[s] = "live" /\ paused' = [paused EXCEPT ![s] = FALSE]
    BY <1>4 DEF ResumeSchedule, Editable, tickVars
  <2>. QED
    BY <2>1 DEF LateAreKnown, Active, GenTypeOK
<1>5. ASSUME NEW m \in Managers, DeleteCommit(m) PROVE LateAreKnown'
  <2>. DEFINE s == erasing[m]
  <2>1. UNCHANGED <<paused, loaded>> /\ s \in Schedules /\ status[s] # "absent"
    BY <1>5 DEF DeleteCommit, tickVars, GenTypeOK, ErasedExist
  <2>2. \A r \in Schedules \ {s} : status'[r] = status[r] /\ late'[r] = late[r]
    BY <1>5, <2>1 DEF DeleteCommit, GenTypeOK
  <2>3. status'[s] = "deleted"
    BY <1>5, <2>1 DEF DeleteCommit, GenTypeOK
  <2>4. ASSUME NEW g \in Generators, loaded[g][s] # NoBody PROVE g \in late'[s]
    <3>1. CASE status[s] = "live" /\ ~paused[s]
      BY <1>5, <2>1, <2>4, <3>1 DEF DeleteCommit, Knowing, GenTypeOK
    <3>2. CASE ~(status[s] = "live" /\ ~paused[s])
      BY <1>5, <2>1, <2>4, <3>2 DEF DeleteCommit, LateAreKnown, Active
    <3>. QED
      BY <3>1, <3>2
  <2>. QED
    BY <2>1, <2>2, <2>3, <2>4 DEF LateAreKnown, Active
<1>6. ASSUME NEW g \in Generators, TickLoad(g) PROVE LateAreKnown'
  <2>1. UNCHANGED <<status, paused, late>>
    BY <1>6 DEF TickLoad, scheduleVars
  <2>2. \A h \in Generators \ {g} : loaded'[h] = loaded[h]
    BY <1>6 DEF TickLoad, GenTypeOK
  <2>3. \A s \in Schedules : loaded'[g][s] # NoBody => Active(s) /\ status[s] = "live"
    BY <1>6 DEF TickLoad, GenTypeOK, Eligible, Active
  <2>. QED
    BY <2>1, <2>2, <2>3 DEF LateAreKnown, Active
<1>7. ASSUME NEW g \in Generators, Ends(g), UNCHANGED <<status, paused>> PROVE LateAreKnown'
  <2>1. \A h \in Generators \ {g} : loaded'[h] = loaded[h]
    BY <1>7 DEF Ends, GenTypeOK
  <2>2. \A s \in Schedules : loaded'[g][s] = NoBody /\ late'[s] = late[s] \ {g}
    BY <1>7 DEF Ends, GenTypeOK, Nothing
  <2>. QED
    BY <1>7, <2>1, <2>2 DEF LateAreKnown, Active
<1>. QED
  BY <1>1, <1>2, <1>3, <1>4, <1>5, <1>6, <1>7
     DEF GenNext, Edit, UpdateSchedule, DeleteRead, DeleteAbort, ToggleClosure, LeaveTask,
         MoveTask, GoOn, TickExpand, TickInsert, TickCommit, TickFail, DayPasses,
         tickVars, scheduleVars

LEMMA ErasedStep ==
    ASSUME GenInv, GenNext PROVE ErasedExist'
<1>. USE GenAssumed DEF GenAssumption, GenInv
<1>1. ASSUME UNCHANGED <<erasing, status>> PROVE ErasedExist'
  BY <1>1 DEF ErasedExist
<1>2. ASSUME NEW s \in Schedules, CreateSchedule(s) PROVE ErasedExist'
  BY <1>2 DEF CreateSchedule, ErasedExist, eraseVars, GenTypeOK
<1>3. ASSUME NEW m \in Managers, NEW s \in Schedules, DeleteRead(m, s) PROVE ErasedExist'
  BY <1>3 DEF DeleteRead, Editable, ErasedExist, scheduleVars, GenTypeOK
<1>4. ASSUME NEW m \in Managers, DeleteCommit(m) PROVE ErasedExist'
  BY <1>4 DEF DeleteCommit, ErasedExist, GenTypeOK
<1>5. ASSUME NEW m \in Managers, DeleteAbort(m) PROVE ErasedExist'
  BY <1>5 DEF DeleteAbort, ErasedExist, scheduleVars, GenTypeOK
<1>. QED
  BY <1>1, <1>2, <1>3, <1>4, <1>5
     DEF GenNext, Edit, UpdateSchedule, PauseSchedule, ResumeSchedule, ToggleClosure,
         LeaveTask, MoveTask, GoOn, TickLoad, TickExpand, TickInsert, TickCommit, TickFail,
         DayPasses, scheduleVars, eraseVars

\* A task that is new under its identity comes from a commit; all other steps keep
\* the identities that there are.
LEMMA NewTasksAreCommitted ==
    ASSUME GenInv, GenNext, NEW x \in tasks', \A y \in tasks : ~Same(x, y)
    PROVE  \E g \in Generators : \E p \in made[g] : TickCommit(g) /\ x = New(p)
<1>. USE GenAssumed DEF GenAssumption, GenInv
<1>1. ASSUME UNCHANGED tasks PROVE FALSE
  BY <1>1 DEF Same
<1>2. ASSUME NEW m \in Managers, DeleteCommit(m) PROVE FALSE
  <2>1. PICK y \in tasks : x = Cancelled(y, saw[m])
    BY <1>2 DEF DeleteCommit
  <2>2. Same(x, y)
    BY <2>1 DEF Cancelled, GenTypeOK, Tasks, Same
  <2>. QED
    BY <2>2
<1>3. ASSUME NEW y \in tasks, LeaveTask(y) PROVE FALSE
  <2>1. x = [y EXCEPT !.state = "left"] \/ x \in tasks
    BY <1>3 DEF LeaveTask
  <2>2. \E z \in tasks : Same(x, z)
    BY <2>1 DEF GenTypeOK, Tasks, Same
  <2>. QED
    BY <2>2
<1>4. ASSUME NEW y \in tasks, NEW d \in Days, MoveTask(y, d) PROVE FALSE
  <2>1. PICK t \in {"scheduled", "pending", "left", "cancelled"} :
              tasks' = (tasks \ {y}) \cup {Moved(y, d, t)}
    BY <1>4, MovedTask
  <2>2. \E z \in tasks : Same(x, z)
    BY <2>1 DEF GenTypeOK, Tasks, Same, Moved
  <2>. QED
    BY <2>2
<1>5. ASSUME NEW g \in Generators, TickCommit(g)
      PROVE  \E p \in made[g] : x = New(p)
  BY <1>5 DEF TickCommit, Same
<1>. QED
  BY <1>1, <1>2, <1>3, <1>4, <1>5
     DEF GenNext, Edit, CreateSchedule, UpdateSchedule, PauseSchedule, ResumeSchedule,
         DeleteRead, DeleteAbort, ToggleClosure, TickLoad, GoOn, TickExpand, TickInsert,
         TickFail, DayPasses

\* The two halves of QuietSchedulesStayQuiet, of a step.
QuietStep(s) ==
    /\ ~Active(s) /\ (\E x \in tasks' : x.schedule = s /\ \A y \in tasks : ~Same(x, y)) =>
          \E g \in late[s] : loaded[g][s] # NoBody /\ loaded'[g] = Nothing
    /\ status[s] # "deleted" /\ status'[s] = "deleted" =>
          \E m \in Managers : erasing[m] = s
                                /\ \A x \in Queue(s)' : \A y \in saw[m] : ~Same(x, y)

LEMMA QuietStepStep ==
    ASSUME GenInv, GenNext, NEW s \in Schedules PROVE QuietStep(s)
<1>. USE GenAssumed DEF GenAssumption, GenInv
<1>1. ASSUME ~Active(s), NEW x \in tasks', x.schedule = s, \A y \in tasks : ~Same(x, y)
      PROVE  \E g \in late[s] : loaded[g][s] # NoBody /\ loaded'[g] = Nothing
  <2>. PICK g \in Generators : \E p \in made[g] : TickCommit(g) /\ x = New(p)
    BY <1>1, NewTasksAreCommitted
  <2>1. PICK p \in made[g] : TickCommit(g) /\ x = New(p)
    OBVIOUS
  <2>2. p[1] = s
    BY <1>1, <2>1 DEF New
  <2>3. loaded[g][s] # NoBody
    BY <2>1, <2>2 DEF WorkIsLoaded
  <2>4. g \in late[s]
    BY <1>1, <2>3 DEF LateAreKnown
  <2>5. loaded'[g] = Nothing
    BY <2>1 DEF TickCommit, Ends, GenTypeOK
  <2>. QED
    BY <2>3, <2>4, <2>5
<1>2. ASSUME status[s] # "deleted", status'[s] = "deleted"
      PROVE  \E m \in Managers : erasing[m] = s
                                /\ \A x \in Queue(s)' : \A y \in saw[m] : ~Same(x, y)
  <2>1. PICK m \in Managers : DeleteCommit(m)
    BY <1>2 DEF GenNext, Edit, CreateSchedule, UpdateSchedule, PauseSchedule, ResumeSchedule,
         DeleteRead, DeleteAbort, ToggleClosure, LeaveTask, MoveTask, GoOn, TickLoad,
         TickExpand, TickInsert, TickCommit, TickFail, DayPasses, scheduleVars, GenTypeOK
  <2>2. erasing[m] = s
    BY <1>2, <2>1 DEF DeleteCommit, GenTypeOK
  <2>3. ASSUME NEW x \in Queue(s)', NEW y \in saw[m], Same(x, y) PROVE FALSE
    <3>1. PICK z \in tasks : x = Cancelled(z, saw[m])
      BY <2>1 DEF DeleteCommit, Queue
    <3>2. Same(x, z)
      BY <3>1 DEF Cancelled, GenTypeOK, Tasks, Same
    <3>3. x = [z EXCEPT !.state = "cancelled"]
      BY <2>3, <3>1, <3>2 DEF Cancelled, Same
    <3>4. x.state = "cancelled"
      BY <3>3 DEF GenTypeOK, Tasks
    <3>5. x.state = "scheduled"
      BY DEF Queue
    <3>. QED
      BY <3>4, <3>5
  <2>. QED
    BY <2>2, <2>3
<1>. QED
  BY <1>1, <1>2 DEF QuietStep

-----------------------------------------------------------------------------
(* Generator: the theorems.                                                *)

\* The invariant is inductive.
THEOREM GenInvariance == GenSpec => []GenInv
<1>1. GenInit => GenInv
  BY GenAssumed DEF GenAssumption, GenInit, GenInv, GenTypeOK, SlotsAreSingle, MadeAreFree,
     WorkIsLoaded, LateAreKnown, ErasedExist, Nothing
<1>2. GenInv /\ [GenNext]_genVars => GenInv'
  <2>1. ASSUME GenInv, GenNext PROVE GenInv'
    BY <2>1, GenTypeStep, SlotsStep, MadeStep, WorkStep, LateStep, ErasedStep DEF GenInv
  <2>2. ASSUME GenInv, UNCHANGED genVars PROVE GenInv'
    BY <2>2 DEF genVars, GenInv, GenTypeOK, SlotsAreSingle, MadeAreFree, Taken,
       WorkIsLoaded, LateAreKnown, ErasedExist, Active
  <2>. QED
    BY <2>1, <2>2
<1>. QED
  BY <1>1, <1>2, PTL DEF GenSpec

\* Type correctness of schedules, ticks and tasks.
THEOREM GenTypeCorrect == GenSpec => []GenTypeOK
<1>1. GenInv => GenTypeOK
  BY DEF GenInv
<1>. QED
  BY <1>1, GenInvariance, PTL

\* Overlapping ticks, edits and moves never give a schedule two tasks at a time, nor
\* an occurrence two that stayed where they were made.
THEOREM SingleOccurrences == GenSpec => []OccurrencesAreSingle
<1>1. GenInv => OccurrencesAreSingle
  BY DEF GenInv, SlotsAreSingle, OccurrencesAreSingle
<1>. QED
  BY <1>1, GenInvariance, PTL

\* A quiet schedule gets tasks from ticks that loaded it before, and from no other.
THEOREM QuietSchedules == GenSpec => QuietSchedulesStayQuiet
<1>. DEFINE QuietSteps == \A s \in Schedules : QuietStep(s)
<1>1. GenInv /\ [GenNext]_genVars => [QuietSteps]_genVars
  BY QuietStepStep
<1>2. QuietSteps <=> \A s \in Schedules :
          /\ ~Active(s) /\ (\E x \in tasks' : x.schedule = s /\ \A y \in tasks : ~Same(x, y)) =>
                \E g \in late[s] : loaded[g][s] # NoBody /\ loaded'[g] = Nothing
          /\ status[s] # "deleted" /\ status'[s] = "deleted" =>
                \E m \in Managers : erasing[m] = s
                                      /\ \A x \in Queue(s)' : \A y \in saw[m] : ~Same(x, y)
  BY DEF QuietStep
<1>. QED
  BY <1>1, <1>2, GenInvariance, PTL DEF GenSpec, QuietSchedulesStayQuiet

-----------------------------------------------------------------------------
(* The two parts side by side, as MCTasks composes them.                   *)

\* A behaviour of both is one of either, and keeps the types of both.
THEOREM TasksKeepTypes == MCSpec => []TasksTypeOK
<1>1. MCInit => Init /\ GenInit
  BY DEF MCInit
<1>2. [MCNext]_allVars => [Next]_vars /\ [GenNext]_genVars
  BY DEF MCNext, allVars
<1>3. MCSpec => Spec /\ GenSpec
  BY <1>1, <1>2, PTL DEF MCSpec, Spec, GenSpec
<1>. QED
  BY <1>3, TypeCorrect, GenTypeCorrect, PTL DEF TasksTypeOK
=============================================================================
