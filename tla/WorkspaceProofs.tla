-------------------------- MODULE WorkspaceProofs ---------------------------
(***************************************************************************)
(* Proofs about the components of the run workspace, which share no state: *)
(* for any number of processes, users, grants, turns and requests, any     *)
(* thresholds and any faults.                                              *)
(***************************************************************************)
EXTENDS JobState, OwnerGuard, LlmBudget, WebPush, TLAPS

-----------------------------------------------------------------------------
(* The kill switch (JobState), for any number of processes and resets.     *)

\* Resets lower the count, clean ticks lower both: it never exceeds the streak.
CountWithinStreak == row.failures <= streak

\* While the job is dead, the ticks that are past the switch are known.
StragglersAreKnown ==
    row.dead => \A w \in Workers : pc[w] \in {"body", "succeeded", "failed"} => w \in stale

IInv ==
    /\ TypeOK
    /\ CountIsExact
    /\ CountWithinStreak
    /\ StragglersAreKnown

-----------------------------------------------------------------------------
(* Every conjunct is preserved by every step.                              *)

\* Types are preserved.
LEMMA TypeStep == ASSUME TypeOK, [Next]_vars PROVE TypeOK'
<1>. USE ThresholdsAssumption DEF TypeOK, NoRow, Rows, Kinds, vars
<1>1. ASSUME NEW w \in Workers, Start(w) PROVE TypeOK'
  BY <1>1 DEF Start, Goto, Fault, Kills, Bumped
<1>2. ASSUME NEW w \in Workers, ReadSwitch(w) PROVE TypeOK'
  BY <1>2 DEF ReadSwitch, Goto, Fault, Kills, Bumped
<1>3. ASSUME NEW w \in Workers, RunBody(w) PROVE TypeOK'
  BY <1>3 DEF RunBody, Goto, Fault, Kills, Bumped
<1>4. ASSUME NEW w \in Workers, RecordSuccess(w) PROVE TypeOK'
  BY <1>4 DEF RecordSuccess, Goto, Fault, Kills, Bumped
<1>5. ASSUME NEW w \in Workers, RecordFailure(w) PROVE TypeOK'
  BY <1>5 DEF RecordFailure, Goto, Fault, Kills, Bumped
<1>6. ASSUME NEW w \in Workers, ReadSwitchFails(w) PROVE TypeOK'
  BY <1>6 DEF ReadSwitchFails, Goto, Fault, Kills, Bumped
<1>7. ASSUME NEW w \in Workers, RecordFails(w) PROVE TypeOK'
  BY <1>7 DEF RecordFails, Goto, Fault, Kills, Bumped
<1>8. ASSUME NEW w \in Workers, Crash(w) PROVE TypeOK'
  BY <1>8 DEF Crash, Goto, Fault, Kills, Bumped
<1>9. ASSUME NEW o \in Operators, ResetRead(o) PROVE TypeOK'
  BY <1>9 DEF ResetRead, Goto, Fault, Kills, Bumped
<1>10. ASSUME NEW o \in Operators, ResetWrite(o) PROVE TypeOK'
  BY <1>10 DEF ResetWrite, Goto, Fault, Kills, Bumped
<1>11. ASSUME Upstream PROVE TypeOK'
  BY <1>11 DEF Upstream, Goto, Fault, Kills, Bumped
<1>12. CASE UNCHANGED vars
  BY <1>12
<1>. QED
  BY <1>1, <1>2, <1>3, <1>4, <1>5, <1>6, <1>7, <1>8, <1>9, <1>10, <1>11, <1>12
     DEF Next, Tick

\* An upsert counts a failure once, and no reset has written yet.
LEMMA CountIsExactStep == ASSUME TypeOK, CountIsExact, [Next]_vars PROVE CountIsExact'
<1>. USE ThresholdsAssumption DEF TypeOK, CountIsExact, Rows, vars
<1>1. ASSUME NEW w \in Workers, Start(w) PROVE CountIsExact'
  BY <1>1 DEF Start, Goto, Fault, Kills, Bumped
<1>2. ASSUME NEW w \in Workers, ReadSwitch(w) PROVE CountIsExact'
  BY <1>2 DEF ReadSwitch, Goto, Fault, Kills, Bumped
<1>3. ASSUME NEW w \in Workers, RunBody(w) PROVE CountIsExact'
  BY <1>3 DEF RunBody, Goto, Fault, Kills, Bumped
<1>4. ASSUME NEW w \in Workers, RecordSuccess(w) PROVE CountIsExact'
  BY <1>4 DEF RecordSuccess, Goto, Fault, Kills, Bumped
<1>5. ASSUME NEW w \in Workers, RecordFailure(w) PROVE CountIsExact'
  <2>1. SUFFICES ASSUME \A o \in Operators : opc[o] # "done"
                PROVE  /\ row'.failures = streak'
                       /\ row'.dead <=> streak' >= DeadThreshold
    BY <1>5 DEF RecordFailure
  <2>2. row.failures = streak /\ (row.dead <=> streak >= DeadThreshold)
    BY <2>1
  <2>3. /\ row'.failures = row.failures + 1
        /\ streak' = streak + 1
        /\ row'.dead <=> row.dead \/ row.failures + 1 >= DeadThreshold
    BY <1>5 DEF RecordFailure, Bumped, Kills
  <2>. QED
    BY <2>2, <2>3
<1>6. ASSUME NEW w \in Workers, ReadSwitchFails(w) PROVE CountIsExact'
  BY <1>6 DEF ReadSwitchFails, Goto, Fault, Kills, Bumped
<1>7. ASSUME NEW w \in Workers, RecordFails(w) PROVE CountIsExact'
  BY <1>7 DEF RecordFails, Goto, Fault, Kills, Bumped
<1>8. ASSUME NEW w \in Workers, Crash(w) PROVE CountIsExact'
  BY <1>8 DEF Crash, Goto, Fault, Kills, Bumped
<1>9. ASSUME NEW o \in Operators, ResetRead(o) PROVE CountIsExact'
  <2>1. CASE row.failures = 0 /\ ~row.dead
    <3>1. opc'[o] = "done"
      BY <1>9, <2>1 DEF ResetRead
    <3>. QED
      BY <3>1
  <2>2. CASE ~(row.failures = 0 /\ ~row.dead)
    <3>1. \A p \in Operators : opc'[p] # "done" => opc[p] # "done"
      BY <1>9, <2>2 DEF ResetRead
    <3>. QED
      BY <1>9, <3>1 DEF ResetRead
  <2>. QED
    BY <2>1, <2>2
<1>10. ASSUME NEW o \in Operators, ResetWrite(o) PROVE CountIsExact'
  <2>1. opc'[o] = "done"
    BY <1>10 DEF ResetWrite
  <2>. QED
    BY <2>1
<1>11. ASSUME Upstream PROVE CountIsExact'
  BY <1>11 DEF Upstream, Goto, Fault, Kills, Bumped
<1>12. CASE UNCHANGED vars
  BY <1>12
<1>. QED
  BY <1>1, <1>2, <1>3, <1>4, <1>5, <1>6, <1>7, <1>8, <1>9, <1>10, <1>11, <1>12
     DEF Next, Tick

\* No step raises the count without the streak.
LEMMA CountWithinStreakStep ==
    ASSUME TypeOK, CountWithinStreak, [Next]_vars PROVE CountWithinStreak'
<1>. USE ThresholdsAssumption DEF TypeOK, CountWithinStreak, Rows, vars
<1>1. ASSUME NEW w \in Workers, Start(w) PROVE CountWithinStreak'
  BY <1>1 DEF Start, Goto, Fault, Kills, Bumped
<1>2. ASSUME NEW w \in Workers, ReadSwitch(w) PROVE CountWithinStreak'
  BY <1>2 DEF ReadSwitch, Goto, Fault, Kills, Bumped
<1>3. ASSUME NEW w \in Workers, RunBody(w) PROVE CountWithinStreak'
  BY <1>3 DEF RunBody, Goto, Fault, Kills, Bumped
<1>4. ASSUME NEW w \in Workers, RecordSuccess(w) PROVE CountWithinStreak'
  BY <1>4 DEF RecordSuccess, Goto, Fault, Kills, Bumped
<1>5. ASSUME NEW w \in Workers, RecordFailure(w) PROVE CountWithinStreak'
  BY <1>5 DEF RecordFailure, Goto, Fault, Kills, Bumped
<1>6. ASSUME NEW w \in Workers, ReadSwitchFails(w) PROVE CountWithinStreak'
  BY <1>6 DEF ReadSwitchFails, Goto, Fault, Kills, Bumped
<1>7. ASSUME NEW w \in Workers, RecordFails(w) PROVE CountWithinStreak'
  BY <1>7 DEF RecordFails, Goto, Fault, Kills, Bumped
<1>8. ASSUME NEW w \in Workers, Crash(w) PROVE CountWithinStreak'
  BY <1>8 DEF Crash, Goto, Fault, Kills, Bumped
<1>9. ASSUME NEW o \in Operators, ResetRead(o) PROVE CountWithinStreak'
  BY <1>9 DEF ResetRead, Goto, Fault, Kills, Bumped
<1>10. ASSUME NEW o \in Operators, ResetWrite(o) PROVE CountWithinStreak'
  BY <1>10 DEF ResetWrite, Goto, Fault, Kills, Bumped
<1>11. ASSUME Upstream PROVE CountWithinStreak'
  BY <1>11 DEF Upstream, Goto, Fault, Kills, Bumped
<1>12. CASE UNCHANGED vars
  BY <1>12
<1>. QED
  BY <1>1, <1>2, <1>3, <1>4, <1>5, <1>6, <1>7, <1>8, <1>9, <1>10, <1>11, <1>12
     DEF Next, Tick

\* No tick gets past the switch of a dead job unless it cannot read it.
LEMMA StragglersAreKnownStep ==
    ASSUME TypeOK, StragglersAreKnown, [Next]_vars PROVE StragglersAreKnown'
<1>. USE ThresholdsAssumption DEF TypeOK, StragglersAreKnown, Rows, vars
<1>1. ASSUME NEW w \in Workers, Start(w) PROVE StragglersAreKnown'
  BY <1>1 DEF Start, Goto, Fault, Kills, Bumped
<1>2. ASSUME NEW w \in Workers, ReadSwitch(w) PROVE StragglersAreKnown'
  BY <1>2 DEF ReadSwitch, Goto, Fault, Kills, Bumped
<1>3. ASSUME NEW w \in Workers, RunBody(w) PROVE StragglersAreKnown'
  BY <1>3 DEF RunBody, Goto, Fault, Kills, Bumped
<1>4. ASSUME NEW w \in Workers, RecordSuccess(w) PROVE StragglersAreKnown'
  BY <1>4 DEF RecordSuccess, Goto, Fault, Kills, Bumped
<1>5. ASSUME NEW w \in Workers, RecordFailure(w) PROVE StragglersAreKnown'
  BY <1>5 DEF RecordFailure, Goto, Fault, Kills, Bumped
<1>6. ASSUME NEW w \in Workers, ReadSwitchFails(w) PROVE StragglersAreKnown'
  BY <1>6 DEF ReadSwitchFails, Goto, Fault, Kills, Bumped
<1>7. ASSUME NEW w \in Workers, RecordFails(w) PROVE StragglersAreKnown'
  BY <1>7 DEF RecordFails, Goto, Fault, Kills, Bumped
<1>8. ASSUME NEW w \in Workers, Crash(w) PROVE StragglersAreKnown'
  BY <1>8 DEF Crash, Goto, Fault, Kills, Bumped
<1>9. ASSUME NEW o \in Operators, ResetRead(o) PROVE StragglersAreKnown'
  BY <1>9 DEF ResetRead, Goto, Fault, Kills, Bumped
<1>10. ASSUME NEW o \in Operators, ResetWrite(o) PROVE StragglersAreKnown'
  BY <1>10 DEF ResetWrite, Goto, Fault, Kills, Bumped
<1>11. ASSUME Upstream PROVE StragglersAreKnown'
  BY <1>11 DEF Upstream, Goto, Fault, Kills, Bumped
<1>12. CASE UNCHANGED vars
  BY <1>12
<1>. QED
  BY <1>1, <1>2, <1>3, <1>4, <1>5, <1>6, <1>7, <1>8, <1>9, <1>10, <1>11, <1>12
     DEF Next, Tick

\* The step form of SwitchIsEarned, of a kill.
KillStep == ~row.dead /\ row'.dead => streak' >= DeadThreshold

\* Only record_failure sets dead_at, and only at the threshold.
LEMMA KilledStep == ASSUME TypeOK, CountWithinStreak, [Next]_vars PROVE KillStep
<1>. USE ThresholdsAssumption DEF TypeOK, CountWithinStreak, KillStep, Rows, vars
<1>1. ASSUME NEW w \in Workers, Start(w) PROVE KillStep
  BY <1>1 DEF Start, Goto, Fault, Kills, Bumped
<1>2. ASSUME NEW w \in Workers, ReadSwitch(w) PROVE KillStep
  BY <1>2 DEF ReadSwitch, Goto, Fault, Kills, Bumped
<1>3. ASSUME NEW w \in Workers, RunBody(w) PROVE KillStep
  BY <1>3 DEF RunBody, Goto, Fault, Kills, Bumped
<1>4. ASSUME NEW w \in Workers, RecordSuccess(w) PROVE KillStep
  BY <1>4 DEF RecordSuccess, Goto, Fault, Kills, Bumped
<1>5. ASSUME NEW w \in Workers, RecordFailure(w) PROVE KillStep
  BY <1>5 DEF RecordFailure, Goto, Fault, Kills, Bumped
<1>6. ASSUME NEW w \in Workers, ReadSwitchFails(w) PROVE KillStep
  BY <1>6 DEF ReadSwitchFails, Goto, Fault, Kills, Bumped
<1>7. ASSUME NEW w \in Workers, RecordFails(w) PROVE KillStep
  BY <1>7 DEF RecordFails, Goto, Fault, Kills, Bumped
<1>8. ASSUME NEW w \in Workers, Crash(w) PROVE KillStep
  BY <1>8 DEF Crash, Goto, Fault, Kills, Bumped
<1>9. ASSUME NEW o \in Operators, ResetRead(o) PROVE KillStep
  BY <1>9 DEF ResetRead, Goto, Fault, Kills, Bumped
<1>10. ASSUME NEW o \in Operators, ResetWrite(o) PROVE KillStep
  BY <1>10 DEF ResetWrite, Goto, Fault, Kills, Bumped
<1>11. ASSUME Upstream PROVE KillStep
  BY <1>11 DEF Upstream, Goto, Fault, Kills, Bumped
<1>12. CASE UNCHANGED vars
  BY <1>12
<1>. QED
  BY <1>1, <1>2, <1>3, <1>4, <1>5, <1>6, <1>7, <1>8, <1>9, <1>10, <1>11, <1>12
     DEF Next, Tick

\* The step form of SwitchIsEarned, of a revival.
ReviveStep ==
    row.dead /\ ~row'.dead =>
        \/ audit' = "reset"
        \/ \E w \in stale : pc[w] = "succeeded" /\ pc'[w] = "idle"

\* Only record_success and reset_job clear dead_at.
LEMMA RevivedStep == ASSUME TypeOK, StragglersAreKnown, [Next]_vars PROVE ReviveStep
<1>. USE ThresholdsAssumption DEF TypeOK, StragglersAreKnown, ReviveStep, Rows, vars
<1>1. ASSUME NEW w \in Workers, Start(w) PROVE ReviveStep
  BY <1>1 DEF Start, Goto, Fault, Kills, Bumped
<1>2. ASSUME NEW w \in Workers, ReadSwitch(w) PROVE ReviveStep
  BY <1>2 DEF ReadSwitch, Goto, Fault, Kills, Bumped
<1>3. ASSUME NEW w \in Workers, RunBody(w) PROVE ReviveStep
  BY <1>3 DEF RunBody, Goto, Fault, Kills, Bumped
<1>4. ASSUME NEW w \in Workers, RecordSuccess(w) PROVE ReviveStep
  BY <1>4 DEF RecordSuccess, Goto, Fault, Kills, Bumped
<1>5. ASSUME NEW w \in Workers, RecordFailure(w) PROVE ReviveStep
  BY <1>5 DEF RecordFailure, Goto, Fault, Kills, Bumped
<1>6. ASSUME NEW w \in Workers, ReadSwitchFails(w) PROVE ReviveStep
  BY <1>6 DEF ReadSwitchFails, Goto, Fault, Kills, Bumped
<1>7. ASSUME NEW w \in Workers, RecordFails(w) PROVE ReviveStep
  BY <1>7 DEF RecordFails, Goto, Fault, Kills, Bumped
<1>8. ASSUME NEW w \in Workers, Crash(w) PROVE ReviveStep
  BY <1>8 DEF Crash, Goto, Fault, Kills, Bumped
<1>9. ASSUME NEW o \in Operators, ResetRead(o) PROVE ReviveStep
  BY <1>9 DEF ResetRead, Goto, Fault, Kills, Bumped
<1>10. ASSUME NEW o \in Operators, ResetWrite(o) PROVE ReviveStep
  BY <1>10 DEF ResetWrite, Goto, Fault, Kills, Bumped
<1>11. ASSUME Upstream PROVE ReviveStep
  BY <1>11 DEF Upstream, Goto, Fault, Kills, Bumped
<1>12. CASE UNCHANGED vars
  BY <1>12
<1>. QED
  BY <1>1, <1>2, <1>3, <1>4, <1>5, <1>6, <1>7, <1>8, <1>9, <1>10, <1>11, <1>12
     DEF Next, Tick

-----------------------------------------------------------------------------
(* The invariant holds of every behaviour.                                 *)

\* Initially nothing has run.
LEMMA InitIInv == Init => IInv
BY ThresholdsAssumption
   DEF Init, IInv, TypeOK, CountIsExact, CountWithinStreak, StragglersAreKnown,
       NoRow, Rows, Kinds

\* IInv is inductive.
LEMMA NextIInv == IInv /\ [Next]_vars => IInv'
BY TypeStep, CountIsExactStep, CountWithinStreakStep, StragglersAreKnownStep DEF IInv

\* Every reachable state satisfies the inductive invariant.
THEOREM Invariance == Spec => []IInv
BY InitIInv, NextIInv, PTL DEF Spec

\* Types, for every number of processes and reset commands.
THEOREM TypeCorrect == Spec => []TypeOK
BY Invariance, PTL DEF IInv

\* Until a reset, record_success and record_failure keep the row exact under any
\* overlap of ticks: no failure is lost or counted twice, and the job is dead
\* exactly from the threshold on.
THEOREM ExactCount == Spec => []CountIsExact
BY Invariance, PTL DEF IInv

\* With resets too, a kill takes DeadThreshold failed ticks in a row; and a tick
\* that saw the job dead never revives it.
THEOREM EarnedSwitch == Spec => SwitchIsEarned
<1>1. IInv /\ [Next]_vars => [KillStep /\ ReviveStep]_vars
  BY KilledStep, RevivedStep DEF IInv
<1>. QED
  BY <1>1, Invariance, PTL DEF Spec, SwitchIsEarned, KillStep, ReviveStep

-----------------------------------------------------------------------------
(* The owners' guard (OwnerGuard): the group keeps a member, and a member  *)
(* who is a manager, as far as the guarded removals go.                    *)

\* A request past its guard holds the lock.
LockInv == \A r \in Requests : req[r].at \in {"leaving", "revoking"} => groupLock = r

\* What the guards have counted still holds when the change is committed.
LeavingInv ==
    \A r \in Requests, u \in Users : req[r] = Leaving(u) =>
        /\ overlapped \/ owners \ {u} # {}
        /\ bypassed \/ Reach(owners \ {u}, live) # {}

RevokingInv ==
    \A r \in Requests, g \in Grants : req[r] = Revoking(g) =>
        bypassed \/ Reach(owners, live \ {g}) # {}

\* So does the unlocked count, as long as no other removal got in between.
RemovingInv ==
    \A r \in Requests, u \in Users : req[r] = Remove(u) => overlapped \/ owners \ {u} # {}

OwnerIInv ==
    /\ OwnerTypeOK
    /\ LockInv
    /\ LeavingInv
    /\ RevokingInv
    /\ RemovingInv
    /\ OwnersRemain
    /\ ReachRemains

-----------------------------------------------------------------------------
(* Facts.                                                                  *)

\* The places are told apart by their labels and carry what they were given.
LEMMA PlaceFacts ==
    /\ Idle.at = "idle"
    /\ \A u : Leave(u).at = "leave" /\ Leaving(u).at = "leaving" /\ Remove(u).at = "remove"
    /\ \A g : Revoke(g).at = "revoke" /\ Revoking(g).at = "revoking"
    /\ \A u, v : Leaving(u) = Leaving(v) => u = v
    /\ \A u, v : Remove(u) = Remove(v) => u = v
    /\ \A g, h : Revoking(g) = Revoking(h) => g = h
<1>1. \A u : Leaving(u).user = u /\ Remove(u).user = u /\ Revoking(u).grant = u
    BY DEF Leaving, Remove, Revoking
<1>2. \A u, v : Leaving(u) = Leaving(v) => u = v
    BY <1>1
<1>3. \A u, v : Remove(u) = Remove(v) => u = v
    BY <1>1
<1>4. \A g, h : Revoking(g) = Revoking(h) => g = h
    BY <1>1
<1>5. /\ Idle.at = "idle"
      /\ \A u : Leave(u).at = "leave" /\ Leaving(u).at = "leaving" /\ Remove(u).at = "remove"
      /\ \A g : Revoke(g).at = "revoke" /\ Revoking(g).at = "revoking"
    BY DEF Idle, Leave, Leaving, Revoke, Revoking, Remove
<1> QED
    BY <1>2, <1>3, <1>4, <1>5

\* More members or more grants reach at least as far.
LEMMA ReachMonotonic ==
    ASSUME NEW M, NEW N, NEW G, NEW H, M \subseteq N, G \subseteq H, Reach(M, G) # {}
    PROVE  Reach(N, H) # {}
BY DEF Reach

\* Taking the grants of somebody who is no member away does not shorten it.
LEMMA ReachWithout ==
    ASSUME NEW M, NEW G, NEW v, v \notin M, Reach(M, G) # {}
    PROVE  Reach(M, GrantsWithout(G, v)) # {}
BY DEF Reach, GrantsWithout

LEMMA OwnerInitInv == OwnerInit => OwnerIInv
<1> SUFFICES ASSUME OwnerInit PROVE OwnerIInv
    OBVIOUS
<1>1. \A r \in Requests : req[r] = Idle /\ req[r].at = "idle"
    BY PlaceFacts DEF OwnerInit
<1>2. OwnerTypeOK
    BY DEF OwnerInit, OwnerTypeOK, Places
<1>3. LockInv /\ LeavingInv /\ RevokingInv /\ RemovingInv
    BY <1>1, PlaceFacts DEF LockInv, LeavingInv, RevokingInv, RemovingInv
<1>4. OwnersRemain /\ ReachRemains
    BY DEF OwnerInit, OwnersRemain, ReachRemains, Reach
<1> QED
    BY <1>2, <1>3, <1>4 DEF OwnerIInv

-----------------------------------------------------------------------------
(* Each conjunct is preserved.                                             *)

LEMMA OwnerTypeStep == OwnerIInv /\ [OwnerNext]_ownerVars => OwnerTypeOK'
<1> SUFFICES ASSUME OwnerIInv, [OwnerNext]_ownerVars
             PROVE  OwnerTypeOK'
    OBVIOUS
<1> USE DEF OwnerIInv, OwnerTypeOK, MoveTo
<1>1. ASSUME NEW r \in Requests, NEW u \in Users,
             LoadMember(r, u) \/ GuardLeave(r, u) \/ LoadUser(r, u)
      PROVE  OwnerTypeOK'
    <2>1. Leave(u) \in Places /\ Leaving(u) \in Places /\ Remove(u) \in Places
        BY DEF Places
    <2> QED
        BY <1>1, <2>1 DEF LoadMember, GuardLeave, LoadUser
<1>2. ASSUME NEW r \in Requests, NEW g \in Grants, LoadGrant(r, g) \/ GuardRevoke(r, g)
      PROVE  OwnerTypeOK'
    <2>1. Revoke(g) \in Places /\ Revoking(g) \in Places
        BY DEF Places
    <2> QED
        BY <1>2, <2>1 DEF LoadGrant, GuardRevoke
<1>3. Idle \in Places
    BY DEF Places
<1>4. ASSUME NEW r \in Requests, NEW u \in Users, CommitLeave(r, u) \/ CommitRemove(r, u)
      PROVE  OwnerTypeOK'
    <2>1. GrantsWithout(live, u) \subseteq Grants
        BY DEF GrantsWithout
    <2> QED
        BY <1>3, <1>4, <2>1 DEF CommitLeave, CommitRemove
<1>5. ASSUME NEW r \in Requests, NEW g \in Grants, CommitRevoke(r, g) PROVE OwnerTypeOK'
    BY <1>3, <1>5 DEF CommitRevoke
<1>6. ASSUME NEW r \in Requests, Refuse(r) \/ AbortRequest(r) PROVE OwnerTypeOK'
    BY <1>3, <1>6 DEF Refuse, AbortRequest
<1>7. ASSUME NEW u \in Users, AddMember(u) PROVE OwnerTypeOK'
    BY <1>7 DEF AddMember
<1>8. ASSUME NEW g \in Grants, Grant(g) PROVE OwnerTypeOK'
    BY <1>8 DEF Grant
<1>9. CASE UNCHANGED ownerVars
    BY <1>9 DEF ownerVars
<1> QED
    BY <1>1, <1>2, <1>4, <1>5, <1>6, <1>7, <1>8, <1>9 DEF OwnerNext

LEMMA LockStep == OwnerIInv /\ [OwnerNext]_ownerVars => LockInv'
<1> SUFFICES ASSUME OwnerIInv, [OwnerNext]_ownerVars
             PROVE  LockInv'
    OBVIOUS
<1> USE DEF OwnerIInv, OwnerTypeOK, LockInv, MoveTo
<1>1. ASSUME NEW r \in Requests, NEW u \in Users, LoadMember(r, u) \/ LoadUser(r, u) PROVE LockInv'
    BY <1>1, PlaceFacts DEF LoadMember, LoadUser
<1>2. ASSUME NEW r \in Requests, NEW g \in Grants, LoadGrant(r, g) PROVE LockInv'
    BY <1>2, PlaceFacts DEF LoadGrant
<1>3. ASSUME NEW r \in Requests, NEW u \in Users, GuardLeave(r, u) PROVE LockInv'
    BY <1>3, PlaceFacts, UnlockedAssumption DEF GuardLeave
<1>4. ASSUME NEW r \in Requests, NEW g \in Grants, GuardRevoke(r, g) PROVE LockInv'
    BY <1>4, PlaceFacts, UnlockedAssumption DEF GuardRevoke
<1>5. ASSUME NEW r \in Requests, NEW u \in Users, CommitLeave(r, u) PROVE LockInv'
    BY <1>5, PlaceFacts DEF CommitLeave
<1>6. ASSUME NEW r \in Requests, NEW g \in Grants, CommitRevoke(r, g) PROVE LockInv'
    BY <1>6, PlaceFacts DEF CommitRevoke
<1>7. ASSUME NEW r \in Requests, NEW u \in Users, CommitRemove(r, u) PROVE LockInv'
    BY <1>7, PlaceFacts DEF CommitRemove
<1>8. ASSUME NEW r \in Requests, Refuse(r) PROVE LockInv'
    BY <1>8, PlaceFacts DEF Refuse
<1>9. ASSUME NEW r \in Requests, AbortRequest(r) PROVE LockInv'
    BY <1>9, PlaceFacts DEF AbortRequest
<1>10. ASSUME NEW u \in Users, AddMember(u) PROVE LockInv'
    BY <1>10 DEF AddMember
<1>11. ASSUME NEW g \in Grants, Grant(g) PROVE LockInv'
    BY <1>11 DEF Grant
<1>12. CASE UNCHANGED ownerVars
    BY <1>12 DEF ownerVars
<1> QED
    BY <1>1, <1>2, <1>3, <1>4, <1>5, <1>6, <1>7, <1>8, <1>9, <1>10, <1>11, <1>12 DEF OwnerNext

\* The steps that take members or grants away, as the other requests see them.
LEMMA GuardedSteps ==
    ASSUME OwnerIInv, NEW r \in Requests, req[r].at \in {"leaving", "revoking"},
           NEW q \in Requests, q # r
    PROVE  /\ \A u \in Users : ~GuardLeave(q, u) /\ ~CommitLeave(q, u)
           /\ \A g \in Grants : ~GuardRevoke(q, g) /\ ~CommitRevoke(q, g)
<1>1. groupLock = r /\ req[q].at \notin {"leaving", "revoking"} /\ groupLock # Unlocked
    BY UnlockedAssumption DEF OwnerIInv, LockInv
<1> QED
    BY <1>1, PlaceFacts DEF GuardLeave, CommitLeave, GuardRevoke, CommitRevoke

\* The removal of a user: every guard's count survives or is flagged.
LEMMA RemoveFacts ==
    ASSUME NEW q \in Requests, NEW v \in Users, CommitRemove(q, v), ~bypassed'
    PROVE  v \notin owners /\ owners' = owners /\ live' = GrantsWithout(live, v) /\ ~bypassed
<1>1. v \notin owners /\ ~bypassed
    BY DEF CommitRemove
<1> QED
    BY <1>1 DEF CommitRemove

LEMMA LeavingStep == OwnerIInv /\ [OwnerNext]_ownerVars => LeavingInv'
<1> SUFFICES ASSUME OwnerIInv, [OwnerNext]_ownerVars,
                    NEW r \in Requests, NEW u \in Users, req'[r] = Leaving(u)
             PROVE  /\ overlapped' \/ owners' \ {u} # {}
                    /\ bypassed' \/ Reach(owners' \ {u}, live') # {}
    BY DEF LeavingInv, Reach
<1> USE DEF OwnerIInv, OwnerTypeOK, MoveTo
<1>1. CASE req[r] # Leaving(u)
    <2>1. GuardLeave(r, u)
        BY <1>1, PlaceFacts DEF OwnerNext, LoadMember, LoadGrant, LoadUser, GuardLeave, GuardRevoke,
           Refuse, CommitLeave, CommitRevoke, CommitRemove, AbortRequest, AddMember, Grant, ownerVars
    <2>2. UNCHANGED <<owners, live>> /\ MayLeave(u)
        BY <2>1 DEF GuardLeave
    <2> QED
        BY <2>2 DEF MayLeave, AtMostOne
<1>2. CASE req[r] = Leaving(u)
    <2>1. /\ overlapped \/ owners \ {u} # {}
          /\ bypassed \/ Reach(owners \ {u}, live) # {}
          /\ req[r].at = "leaving"
        BY <1>2, PlaceFacts DEF LeavingInv
    <2>2. ASSUME NEW q \in Requests, NEW v \in Users, CommitRemove(q, v)
          PROVE  /\ overlapped'
                 /\ bypassed' \/ Reach(owners' \ {u}, live') # {}
        <3>1. overlapped'
            BY <2>1, <2>2 DEF CommitRemove
        <3>2. CASE ~bypassed'
            <4>1. v \notin owners \ {u} /\ owners' = owners /\ live' = GrantsWithout(live, v) /\ ~bypassed
                BY <2>2, <3>2, RemoveFacts
            <4>2. Reach(owners \ {u}, GrantsWithout(live, v)) # {}
                BY <2>1, <4>1, ReachWithout
            <4>3. Reach(owners' \ {u}, live') = Reach(owners \ {u}, GrantsWithout(live, v))
                BY <4>1
            <4> QED
                BY <3>1, <4>2, <4>3
        <3> QED
            BY <3>1, <3>2
    <2>3. ASSUME NEW v \in Users, AddMember(v)
          PROVE  /\ overlapped' \/ owners' \ {u} # {}
                 /\ bypassed' \/ Reach(owners' \ {u}, live') # {}
        BY <2>1, <2>3, ReachMonotonic DEF AddMember
    <2>4. ASSUME NEW g \in Grants, Grant(g)
          PROVE  /\ overlapped' \/ owners' \ {u} # {}
                 /\ bypassed' \/ Reach(owners' \ {u}, live') # {}
        BY <2>1, <2>4, ReachMonotonic DEF Grant
    <2>5. \A q \in Requests, v \in Users : ~CommitLeave(q, v)
        <3>1. \A v \in Users : ~CommitLeave(r, v)
            BY <1>2, PlaceFacts DEF CommitLeave
        <3> QED
            BY <2>1, <3>1, GuardedSteps
    <2>6. \A q \in Requests, g \in Grants : ~CommitRevoke(q, g)
        <3>1. \A g \in Grants : ~CommitRevoke(r, g)
            BY <2>1, PlaceFacts DEF CommitRevoke
        <3> QED
            BY <2>1, <3>1, GuardedSteps
    <2>7. \/ \E q \in Requests, v \in Users : CommitRemove(q, v)
          \/ \E v \in Users : AddMember(v)
          \/ \E g \in Grants : Grant(g)
          \/ UNCHANGED <<owners, live, overlapped, bypassed>>
        BY <2>5, <2>6 DEF OwnerNext, LoadMember, LoadGrant, LoadUser, GuardLeave, GuardRevoke,
           Refuse, AbortRequest, ownerVars
    <2>8. CASE UNCHANGED <<owners, live, overlapped, bypassed>>
        BY <2>1, <2>8
    <2> QED
        BY <2>2, <2>3, <2>4, <2>7, <2>8
<1> QED
    BY <1>1, <1>2

LEMMA RevokingStep == OwnerIInv /\ [OwnerNext]_ownerVars => RevokingInv'
<1> SUFFICES ASSUME OwnerIInv, [OwnerNext]_ownerVars,
                    NEW r \in Requests, NEW g \in Grants, req'[r] = Revoking(g)
             PROVE  bypassed' \/ Reach(owners', live' \ {g}) # {}
    BY DEF RevokingInv, Reach
<1> USE DEF OwnerIInv, OwnerTypeOK, MoveTo
<1>1. CASE req[r] # Revoking(g)
    <2>1. GuardRevoke(r, g)
        BY <1>1, PlaceFacts DEF OwnerNext, LoadMember, LoadGrant, LoadUser, GuardLeave, GuardRevoke,
           Refuse, CommitLeave, CommitRevoke, CommitRemove, AbortRequest, AddMember, Grant, ownerVars
    <2>2. UNCHANGED <<owners, live, bypassed>> /\ MayRevoke(g)
        BY <2>1 DEF GuardRevoke
    <2>3. CASE HolderOf[g] \notin owners /\ ~bypassed
        <3>1. Reach(owners, live) # {}
            BY <2>3 DEF ReachRemains
        <3>2. PICK u \in owners : \E h \in live : HolderOf[h] = u
            BY <3>1 DEF Reach
        <3>3. PICK h \in live : HolderOf[h] = u
            BY <3>2
        <3>4. h \in live \ {g}
            BY <2>3, <3>2, <3>3
        <3>5. Reach(owners, live \ {g}) # {}
            BY <3>2, <3>3, <3>4 DEF Reach
        <3>6. Reach(owners', live' \ {g}) = Reach(owners, live \ {g})
            BY <2>2
        <3> QED
            BY <3>5, <3>6
    <2>4. CASE Reach(owners, live \ {g}) # {}
        BY <2>2, <2>4
    <2> QED
        BY <2>2, <2>3, <2>4 DEF MayRevoke
<1>2. CASE req[r] = Revoking(g)
    <2>1. /\ bypassed \/ Reach(owners, live \ {g}) # {}
          /\ req[r].at = "revoking"
        BY <1>2, PlaceFacts DEF RevokingInv
    <2>2. ASSUME NEW q \in Requests, NEW v \in Users, CommitRemove(q, v)
          PROVE  bypassed' \/ Reach(owners', live' \ {g}) # {}
        <3>1. CASE ~bypassed'
            <4>1. v \notin owners /\ owners' = owners /\ live' = GrantsWithout(live, v) /\ ~bypassed
                BY <2>2, <3>1, RemoveFacts
            <4>2. Reach(owners, GrantsWithout(live \ {g}, v)) # {}
                BY <2>1, <4>1, ReachWithout
            <4>3. live' \ {g} = GrantsWithout(live \ {g}, v)
                BY <4>1 DEF GrantsWithout
            <4>4. Reach(owners', live' \ {g}) = Reach(owners, GrantsWithout(live \ {g}, v))
                BY <4>1, <4>3
            <4> QED
                BY <4>2, <4>4
        <3> QED
            BY <3>1
    <2>3. ASSUME NEW v \in Users, AddMember(v)
          PROVE  bypassed' \/ Reach(owners', live' \ {g}) # {}
        BY <2>1, <2>3, ReachMonotonic DEF AddMember
    <2>4. ASSUME NEW h \in Grants, Grant(h)
          PROVE  bypassed' \/ Reach(owners', live' \ {g}) # {}
        BY <2>1, <2>4, ReachMonotonic DEF Grant
    <2>5. \A q \in Requests, v \in Users : ~CommitLeave(q, v)
        <3>1. \A v \in Users : ~CommitLeave(r, v)
            BY <2>1, PlaceFacts DEF CommitLeave
        <3> QED
            BY <2>1, <3>1, GuardedSteps
    <2>6. \A q \in Requests, h \in Grants : ~CommitRevoke(q, h)
        <3>1. \A h \in Grants : ~CommitRevoke(r, h)
            <4>1. \A h \in Grants : CommitRevoke(r, h) => req'[r] = Idle
                BY DEF CommitRevoke
            <4> QED
                BY <4>1, PlaceFacts
        <3> QED
            BY <2>1, <3>1, GuardedSteps
    <2>7. \/ \E q \in Requests, v \in Users : CommitRemove(q, v)
          \/ \E v \in Users : AddMember(v)
          \/ \E h \in Grants : Grant(h)
          \/ UNCHANGED <<owners, live, bypassed>>
        BY <2>5, <2>6 DEF OwnerNext, LoadMember, LoadGrant, LoadUser, GuardLeave, GuardRevoke,
           Refuse, AbortRequest, ownerVars
    <2>8. CASE UNCHANGED <<owners, live, bypassed>>
        BY <2>1, <2>8
    <2> QED
        BY <2>2, <2>3, <2>4, <2>7, <2>8
<1> QED
    BY <1>1, <1>2

LEMMA RemovingStep == OwnerIInv /\ [OwnerNext]_ownerVars => RemovingInv'
<1> SUFFICES ASSUME OwnerIInv, [OwnerNext]_ownerVars,
                    NEW r \in Requests, NEW u \in Users, req'[r] = Remove(u), ~overlapped'
             PROVE  owners' \ {u} # {}
    BY DEF RemovingInv
<1> USE DEF OwnerIInv, OwnerTypeOK, MoveTo
<1>0. ~overlapped
    BY DEF OwnerNext, LoadMember, LoadGrant, LoadUser, GuardLeave, GuardRevoke, Refuse,
       CommitLeave, CommitRevoke, CommitRemove, AbortRequest, AddMember, Grant, ownerVars
<1>1. CASE req[r] # Remove(u)
    <2>1. LoadUser(r, u)
        BY <1>1, PlaceFacts DEF OwnerNext, LoadMember, LoadGrant, LoadUser, GuardLeave, GuardRevoke,
           Refuse, CommitLeave, CommitRevoke, CommitRemove, AbortRequest, AddMember, Grant, ownerVars
    <2>2. owners' = owners /\ (u \in owners => ~AtMostOne(owners))
        BY <2>1 DEF LoadUser
    <2>3. owners # {}
        BY <1>0 DEF OwnersRemain
    <2> QED
        BY <2>2, <2>3 DEF AtMostOne
<1>2. CASE req[r] = Remove(u)
    <2>1. owners \ {u} # {} /\ req[r].at = "remove"
        BY <1>0, <1>2, PlaceFacts DEF RemovingInv
    <2>2. \A q \in Requests, v \in Users : ~CommitLeave(q, v) /\ ~CommitRemove(q, v)
        <3>1. \A q \in Requests \ {r} : OthersRemove(q)
            BY <2>1 DEF OthersRemove
        <3>2. \A q \in Requests \ {r}, v \in Users : ~CommitLeave(q, v) /\ ~CommitRemove(q, v)
            BY <3>1 DEF CommitLeave, CommitRemove
        <3>3. \A v \in Users : ~CommitLeave(r, v) /\ ~CommitRemove(r, v)
            <4>1. \A v \in Users : CommitLeave(r, v) \/ CommitRemove(r, v) => req'[r] = Idle
                BY DEF CommitLeave, CommitRemove
            <4> QED
                BY <4>1, PlaceFacts
        <3> QED
            BY <3>2, <3>3
    <2>3. owners \subseteq owners'
        BY <2>2 DEF OwnerNext, LoadMember, LoadGrant, LoadUser, GuardLeave, GuardRevoke,
           Refuse, CommitRevoke, AbortRequest, AddMember, Grant, ownerVars
    <2> QED
        BY <2>1, <2>3
<1> QED
    BY <1>1, <1>2

LEMMA RosterStep == OwnerIInv /\ [OwnerNext]_ownerVars => OwnersRemain'
<1> SUFFICES ASSUME OwnerIInv, [OwnerNext]_ownerVars
             PROVE  OwnersRemain'
    OBVIOUS
<1> USE DEF OwnerIInv, OwnerTypeOK, OwnersRemain, MoveTo
<1>1. ASSUME NEW r \in Requests, NEW u \in Users, CommitLeave(r, u) PROVE OwnersRemain'
    BY <1>1 DEF CommitLeave, LeavingInv
<1>2. ASSUME NEW r \in Requests, NEW u \in Users, CommitRemove(r, u) PROVE OwnersRemain'
    BY <1>2 DEF CommitRemove, RemovingInv
<1>3. CASE /\ \A r \in Requests, u \in Users : ~CommitLeave(r, u) /\ ~CommitRemove(r, u)
    <2>1. owners \subseteq owners' /\ overlapped' = overlapped
        BY <1>3 DEF OwnerNext, LoadMember, LoadGrant, LoadUser, GuardLeave, GuardRevoke,
           Refuse, CommitRevoke, AbortRequest, AddMember, Grant, ownerVars
    <2> QED
        BY <2>1
<1> QED
    BY <1>1, <1>2, <1>3

LEMMA ReachStep == OwnerIInv /\ [OwnerNext]_ownerVars => ReachRemains'
<1> SUFFICES ASSUME OwnerIInv, [OwnerNext]_ownerVars
             PROVE  bypassed' \/ Reach(owners', live') # {}
    BY DEF ReachRemains, Reach
<1> USE DEF OwnerIInv, OwnerTypeOK, ReachRemains, MoveTo
<1>1. ASSUME NEW r \in Requests, NEW u \in Users, CommitLeave(r, u)
      PROVE  bypassed' \/ Reach(owners', live') # {}
    <2>1. /\ bypassed \/ Reach(owners \ {u}, live) # {}
          /\ owners' = owners \ {u} /\ live' = live /\ bypassed' = bypassed
        BY <1>1 DEF CommitLeave, LeavingInv
    <2>2. Reach(owners', live') = Reach(owners \ {u}, live)
        BY <2>1
    <2> QED
        BY <2>1, <2>2
<1>2. ASSUME NEW r \in Requests, NEW g \in Grants, CommitRevoke(r, g)
      PROVE  bypassed' \/ Reach(owners', live') # {}
    <2>1. /\ bypassed \/ Reach(owners, live \ {g}) # {}
          /\ owners' = owners /\ live' = live \ {g} /\ bypassed' = bypassed
        BY <1>2 DEF CommitRevoke, RevokingInv
    <2>2. Reach(owners', live') = Reach(owners, live \ {g})
        BY <2>1
    <2> QED
        BY <2>1, <2>2
<1>3. ASSUME NEW r \in Requests, NEW u \in Users, CommitRemove(r, u)
      PROVE  bypassed' \/ Reach(owners', live') # {}
    <2>1. CASE ~bypassed'
        <3>1. u \notin owners /\ owners' = owners /\ live' = GrantsWithout(live, u) /\ ~bypassed
            BY <1>3, <2>1, RemoveFacts
        <3>2. Reach(owners, GrantsWithout(live, u)) # {}
            BY <3>1, ReachWithout
        <3>3. Reach(owners', live') = Reach(owners, GrantsWithout(live, u))
            BY <3>1
        <3> QED
            BY <3>2, <3>3
    <2> QED
        BY <2>1
<1>4. CASE /\ \A r \in Requests, u \in Users : ~CommitLeave(r, u) /\ ~CommitRemove(r, u)
           /\ \A r \in Requests, g \in Grants : ~CommitRevoke(r, g)
    <2>1. owners \subseteq owners' /\ live \subseteq live' /\ bypassed' = bypassed
        BY <1>4 DEF OwnerNext, LoadMember, LoadGrant, LoadUser, GuardLeave, GuardRevoke,
           Refuse, AbortRequest, AddMember, Grant, ownerVars
    <2> QED
        BY <2>1, ReachMonotonic
<1> QED
    BY <1>1, <1>2, <1>3, <1>4

-----------------------------------------------------------------------------
(* The theorems.                                                           *)

LEMMA OwnerNextInv == OwnerIInv /\ [OwnerNext]_ownerVars => OwnerIInv'
BY OwnerTypeStep, LockStep, LeavingStep, RevokingStep, RemovingStep, RosterStep, ReachStep DEF OwnerIInv

\* The inductive invariant holds in every reachable state.
THEOREM OwnerInvariance == OwnerSpec => []OwnerIInv
BY OwnerInitInv, OwnerNextInv, PTL DEF OwnerSpec

\* Every variable keeps its type.
THEOREM OwnerTypeCorrectness == OwnerSpec => []OwnerTypeOK
BY OwnerInvariance, PTL DEF OwnerIInv

\* No interleaving of remove_member, revoke and removals of users that do not
\* overlap empties the owners group.
THEOREM OwnersAlwaysRemain == OwnerSpec => []OwnersRemain
BY OwnerInvariance, PTL DEF OwnerIInv

\* No interleaving of remove_member and revoke leaves the owners without a
\* manager.
THEOREM ReachAlwaysRemains == OwnerSpec => []ReachRemains
BY OwnerInvariance, PTL DEF OwnerIInv

\* The two together.
THEOREM OwnershipAlwaysRemains == OwnerSpec => []OwnershipRemains
<1>1. OwnerIInv => OwnershipRemains
    BY DEF OwnerIInv, OwnershipRemains
<1> QED
    BY OwnerInvariance, <1>1, PTL

-----------------------------------------------------------------------------
(* The budget ledger (LlmBudget): the cached spend is the cost of the      *)
(* attempts it counts, and the cap is exceeded only by attempts that the   *)
(* last check could not see.                                               *)

\* Only the turn that holds the ledger row has rows to commit, all of earlier
\* calls and none recorded; its ledger value is the committed one plus their cost.
HolderInv ==
    \A t \in Turns :
        /\ \A a \in tx[t].rows : a[2] < calls[t]
        /\ tx[t].rows # {} => holder = t
        /\ holder = t =>
              /\ tx[t].rows \cap used = {}
              /\ tx[t].ledger = Total[counted] + Total[tx[t].rows]

\* A row of the window that a running refresh has not summed was committed
\* while it ran.
SummingInv ==
    \A r \in summing : summed[r] \subseteq used /\ window \ summed[r] \subseteq raced

LlmIInv ==
    /\ LlmTypeOK
    /\ HolderInv
    /\ SummingInv
    /\ AggregateIsExact
    /\ OvershootIsUnseen

-----------------------------------------------------------------------------
(* Sums.                                                                   *)

LEMMA TotalType == \A S \in SUBSET Attempts : Total[S] \in Nat
BY TotalAssumption

LEMMA TotalAdds ==
    \A S, T \in SUBSET Attempts : S \cap T = {} => Total[S \cup T] = Total[S] + Total[T]
BY TotalAssumption

\* A subset costs no more.
LEMMA TotalMonotonic ==
    ASSUME NEW S \in SUBSET Attempts, NEW T \in SUBSET S
    PROVE  Total[T] <= Total[S]
<1>1. T \in SUBSET Attempts /\ S \ T \in SUBSET Attempts /\ T \cap (S \ T) = {} /\ S = T \cup (S \ T)
    OBVIOUS
<1>2. Total[S] = Total[T] + Total[S \ T]
    BY <1>1, TotalAdds
<1> QED
    BY <1>1, <1>2, TotalType

\* The cost of a set is at most that of the part counted and of the rest.
LEMMA TotalSplits ==
    ASSUME NEW S \in SUBSET Attempts, NEW T \in SUBSET Attempts
    PROVE  Total[S] <= Total[T] + Total[S \ T]
<1>1. /\ S \cap T \in SUBSET T /\ S \ T \in SUBSET Attempts /\ S \cap T \in SUBSET Attempts
      /\ (S \cap T) \cap (S \ T) = {} /\ S = (S \cap T) \cup (S \ T)
    OBVIOUS
<1>2. Total[S] = Total[S \cap T] + Total[S \ T]
    BY <1>1, TotalAdds
<1>3. Total[S \cap T] <= Total[T]
    BY <1>1, TotalMonotonic
<1> QED
    BY <1>1, <1>2, <1>3, TotalType

-----------------------------------------------------------------------------
(* What a commit does, from the invariant.                                 *)

\* A commit adds the transaction's rows, none of them recorded, and their cost.
LEMMA CommitFacts ==
    ASSUME LlmIInv, NEW t \in Turns, Commit(t)
    PROVE  /\ tx[t].rows \subseteq Attempts
           /\ tx[t].rows \cap used = {}
           /\ spent' = spent + Total[tx[t].rows]
           /\ used' = used \cup tx[t].rows /\ window' = window \cup tx[t].rows
           /\ counted' = counted \cup tx[t].rows /\ unseen' = unseen \cup tx[t].rows
           /\ Total[counted'] = Total[counted] + Total[tx[t].rows]
<1> USE DEF LlmIInv, LlmTypeOK
<1>1. tx[t].rows \in SUBSET Attempts /\ tx[t].ledger \in Nat
    OBVIOUS
<1>2. tx[t].rows \cap used = {}
    BY DEF HolderInv
<1>3. Total[counted \cup tx[t].rows] = Total[counted] + Total[tx[t].rows]
    <2>1. counted \in SUBSET Attempts /\ counted \cap tx[t].rows = {}
        BY <1>2
    <2> QED
        BY <1>1, <2>1, TotalAdds
<1>4. spent' = spent + Total[tx[t].rows]
    <2>1. CASE holder = t
        BY <2>1 DEF HolderInv, Commit, Ledger, AggregateIsExact
    <2>2. CASE holder # t
        <3>1. tx[t].rows = {}
            BY <2>2 DEF HolderInv
        <3>2. spent' = spent
            BY <2>2 DEF Commit, Ledger
        <3> QED
            BY <3>1, <3>2, TotalAssumption
    <2> QED
        BY <2>1, <2>2
<1> QED
    BY <1>1, <1>2, <1>3, <1>4 DEF Commit

LEMMA LlmInitInv == LlmInit => LlmIInv
<1> SUFFICES ASSUME LlmInit PROVE LlmIInv
    OBVIOUS
<1>1. LlmTypeOK
    <2>1. tx \in [Turns -> [rows : SUBSET Attempts, ledger : Nat]]
        BY DEF LlmInit, EmptyTx
    <2>2. /\ turn \in [Turns -> {"new", "open", "done"}] /\ calls \in [Turns -> Nat]
          /\ summed \in [Refreshers -> SUBSET Attempts]
        BY DEF LlmInit
    <2>3. spent \in Nat /\ llmFaults \in 0 .. MaxLlmFaults
        BY CapAssumption DEF LlmInit
    <2> QED
        BY <2>1, <2>2, <2>3 DEF LlmInit, LlmTypeOK
<1>2. HolderInv
    BY TurnsAssumption DEF LlmInit, HolderInv, EmptyTx
<1>3. SummingInv /\ OvershootIsUnseen
    BY DEF LlmInit, SummingInv, OvershootIsUnseen
<1>4. AggregateIsExact
    BY TotalAssumption DEF LlmInit, AggregateIsExact
<1> QED
    BY <1>1, <1>2, <1>3, <1>4 DEF LlmIInv

-----------------------------------------------------------------------------
(* Each conjunct is preserved.                                             *)

LEMMA LlmTypeStep == LlmIInv /\ [LlmNext]_llmVars => LlmTypeOK'
<1> SUFFICES ASSUME LlmIInv, [LlmNext]_llmVars
             PROVE  LlmTypeOK'
    OBVIOUS
<1> USE DEF LlmIInv, LlmTypeOK, ledgerVars, refreshVars
<1>1. ASSUME NEW t \in Turns, Check(t) \/ RefuseCall(t) PROVE LlmTypeOK'
    BY <1>1 DEF Check, RefuseCall
<1>1a. ASSUME NEW t \in Turns, RecordDuplicate(t) PROVE LlmTypeOK'
    BY <1>1a DEF RecordDuplicate
<1>2. ASSUME NEW t \in Turns, RecordUsage(t) PROVE LlmTypeOK'
    <2>1. Attempt(t) \in Attempts
        <3>1. calls[t] \in Nat /\ MaxCalls[t] \in Nat /\ calls[t] < MaxCalls[t]
            BY <1>2, TurnsAssumption DEF RecordUsage
        <3> QED
            BY <3>1 DEF Attempt, Attempts
    <2>2. Ledger(t) \in Nat /\ Total[{Attempt(t)}] \in Nat
        BY <2>1, TotalType DEF Ledger
    <2> QED
        BY <1>2, <2>1, <2>2 DEF RecordUsage
<1>3. ASSUME NEW t \in Turns, CommitBeforeTool(t) \/ Finish(t) PROVE LlmTypeOK'
    <2>1. Commit(t)
        BY <1>3 DEF CommitBeforeTool, Finish
    <2>2. tx[t].rows \subseteq Attempts /\ spent' \in Nat
        BY <2>1, CommitFacts, TotalType
    <2>3. tx' \in [Turns -> [rows : SUBSET Attempts, ledger : Nat]]
        BY <2>1 DEF Commit, EmptyTx
    <2>4. turn' \in [Turns -> {"new", "open", "done"}]
        BY <1>3 DEF CommitBeforeTool, Finish
    <2> QED
        BY <1>3, <2>1, <2>2, <2>3, <2>4 DEF CommitBeforeTool, Finish, Commit
<1>4. ASSUME NEW t \in Turns, CrashTurn(t) PROVE LlmTypeOK'
    BY <1>4, CapAssumption DEF CrashTurn, LlmFault, EmptyTx
<1>5. ASSUME NEW r \in Refreshers, Sum(r) PROVE LlmTypeOK'
    BY <1>5 DEF Sum
<1>6. ASSUME NEW r \in Refreshers, WriteSum(r) PROVE LlmTypeOK'
    BY <1>6, TotalType DEF WriteSum, SummingInv
<1>7. ASSUME NEW r \in Refreshers, RefreshFails(r) PROVE LlmTypeOK'
    BY <1>7, CapAssumption DEF RefreshFails, LlmFault
<1>8. ASSUME NEW a \in Attempts, Age(a) PROVE LlmTypeOK'
    BY <1>8 DEF Age
<1>9. ASSUME NEW q \in Quotas, UpdateCap(q) PROVE LlmTypeOK'
    BY <1>9 DEF UpdateCap
<1>10. CASE UNCHANGED llmVars
    BY <1>10 DEF llmVars
<1> QED
    BY <1>1, <1>1a, <1>2, <1>3, <1>4, <1>5, <1>6, <1>7, <1>8, <1>9, <1>10 DEF LlmNext, TurnStep

LEMMA HolderStep == LlmIInv /\ [LlmNext]_llmVars => HolderInv'
<1> SUFFICES ASSUME LlmIInv, [LlmNext]_llmVars, NEW u \in Turns
             PROVE  /\ \A a \in tx'[u].rows : a[2] < calls'[u]
                    /\ tx'[u].rows # {} => holder' = u
                    /\ holder' = u =>
                          /\ tx'[u].rows \cap used' = {}
                          /\ tx'[u].ledger = Total[counted'] + Total[tx'[u].rows]
    BY DEF HolderInv
<1> USE DEF LlmIInv, LlmTypeOK, HolderInv, ledgerVars, refreshVars
<1> DEFINE Held == /\ \A a \in tx[u].rows : a[2] < calls[u]
                   /\ tx[u].rows # {} => holder = u
                   /\ holder = u =>
                         /\ tx[u].rows \cap used = {}
                         /\ tx[u].ledger = Total[counted] + Total[tx[u].rows]
<1>0. Held
    OBVIOUS
<1>1. ASSUME NEW t \in Turns, Check(t) \/ RefuseCall(t) PROVE Held'
    BY <1>0, <1>1 DEF Check, RefuseCall
<1>1a. ASSUME NEW t \in Turns, RecordDuplicate(t) PROVE Held'
    <2>1. \A a \in tx[u].rows : a[2] \in Nat
        BY TurnsAssumption DEF Attempts
    <2> QED
    BY <1>0, <1>1a, <2>1 DEF RecordDuplicate
<1>2. ASSUME NEW t \in Turns, RecordUsage(t)
      PROVE  /\ \A a \in tx'[u].rows : a[2] < calls'[u]
             /\ tx'[u].rows # {} => holder' = u
             /\ holder' = u =>
                   /\ tx'[u].rows \cap used' = {}
                   /\ tx'[u].ledger = Total[counted'] + Total[tx'[u].rows]
    <2>1. Attempt(t) \in Attempts
        <3>1. calls[t] \in Nat /\ MaxCalls[t] \in Nat /\ calls[t] < MaxCalls[t]
            BY <1>2, TurnsAssumption DEF RecordUsage
        <3> QED
            BY <3>1 DEF Attempt, Attempts
    <2>2. UNCHANGED <<used, counted>> /\ holder' = t /\ holder \in {NoOne, t}
        BY <1>2 DEF RecordUsage
    <2>3. CASE u # t
        <3>1. tx'[u] = tx[u] /\ calls'[u] = calls[u]
            BY <1>2, <2>3 DEF RecordUsage
        <3>2. holder # u
            BY <2>2, <2>3, TurnsAssumption
        <3> QED
            BY <2>2, <2>3, <3>1, <3>2
    <2>4. CASE u = t
        <3>1. tx'[t] = [rows |-> tx[t].rows \cup {Attempt(t)},
                        ledger |-> Ledger(t) + Total[{Attempt(t)}]]
            BY <1>2 DEF RecordUsage
        <3>0. Attempt(t) \notin tx[t].rows /\ Attempt(t)[2] = calls[t] /\ calls'[t] = calls[t] + 1
            BY <1>2 DEF RecordUsage, Attempt
        <3>6. \A a \in tx'[t].rows : a[2] < calls'[t]
            <4>1. \A a \in tx[t].rows : a[2] \in Nat
                BY TurnsAssumption DEF Attempts
            <4> QED
                BY <3>0, <3>1, <4>1
        <3>2. (tx[t].rows \cup {Attempt(t)}) \cap used = {}
            BY <1>2 DEF RecordUsage
        <3>3. Attempt(t) \notin tx[t].rows /\ Ledger(t) = Total[counted] + Total[tx[t].rows]
          <4>1. CASE holder = t
            <5>1. Ledger(t) = Total[counted] + Total[tx[t].rows]
                BY <4>1 DEF Ledger
            <5> QED
                BY <3>0, <5>1
          <4>2. CASE holder # t
            <5>1. tx[t].rows = {}
                BY <4>2
            <5>2. Ledger(t) = Total[counted]
                BY <4>2 DEF Ledger, AggregateIsExact
            <5> QED
                BY <3>0, <5>1, <5>2, TotalAssumption, TotalType
          <4> QED
            BY <4>1, <4>2
        <3>4. Total[tx[t].rows \cup {Attempt(t)}] = Total[tx[t].rows] + Total[{Attempt(t)}]
            <4>1. tx[t].rows \in SUBSET Attempts /\ {Attempt(t)} \in SUBSET Attempts
                  /\ tx[t].rows \cap {Attempt(t)} = {}
                BY <2>1, <3>3
            <4> QED
                BY <4>1, TotalAdds
        <3>5. Total[counted] \in Nat /\ Total[tx[t].rows] \in Nat /\ Total[{Attempt(t)}] \in Nat
            BY <2>1, TotalType
        <3> QED
            BY <2>2, <2>4, <3>1, <3>2, <3>3, <3>4, <3>5, <3>6
    <2> QED
        BY <2>3, <2>4
<1>3. ASSUME NEW t \in Turns, CommitBeforeTool(t) \/ Finish(t) PROVE Held'
    <2>1. Commit(t) /\ UNCHANGED calls
        BY <1>3 DEF CommitBeforeTool, Finish
    <2>2. CASE u = t
        BY <2>1, <2>2, TurnsAssumption DEF Commit, EmptyTx
    <2>3. CASE u # t
        <3>1. tx'[u] = tx[u]
            BY <2>1, <2>3 DEF Commit
        <3>2. holder' = u => holder = u /\ holder # t
            BY <2>1, <2>3, TurnsAssumption DEF Commit
        <3>3. tx[u].rows # {} => holder = u /\ holder' = u
            BY <2>1, <2>3 DEF Commit
        <3>4. holder # t => tx[t].rows = {}
            OBVIOUS
        <3>5. holder' = u => used' = used /\ counted' = counted
            BY <2>1, <3>2, <3>4 DEF Commit
        <3> QED
            BY <1>0, <2>1, <3>1, <3>2, <3>3, <3>5
    <2> QED
        BY <2>2, <2>3
<1>4. ASSUME NEW t \in Turns, CrashTurn(t) PROVE Held'
    <2>1. CASE u = t
        BY <1>4, <2>1, TurnsAssumption DEF CrashTurn, EmptyTx
    <2>2. CASE u # t
        BY <1>0, <1>4, <2>2, TurnsAssumption DEF CrashTurn
    <2> QED
        BY <2>1, <2>2
<1>5. ASSUME NEW r \in Refreshers, Sum(r) \/ RefreshFails(r) PROVE Held'
    BY <1>0, <1>5 DEF Sum, RefreshFails
<1>6. ASSUME NEW r \in Refreshers, WriteSum(r) PROVE Held'
    BY <1>0, <1>6, TurnsAssumption DEF WriteSum
<1>7. ASSUME NEW a \in Attempts, Age(a) PROVE Held'
    BY <1>0, <1>7 DEF Age
<1>8. ASSUME NEW q \in Quotas, UpdateCap(q) PROVE Held'
    BY <1>0, <1>8 DEF UpdateCap
<1>9. CASE UNCHANGED llmVars
    BY <1>0, <1>9 DEF llmVars
<1> QED
    BY <1>1, <1>1a, <1>2, <1>3, <1>4, <1>5, <1>6, <1>7, <1>8, <1>9 DEF LlmNext, TurnStep

LEMMA SummingStep == LlmIInv /\ [LlmNext]_llmVars => SummingInv'
<1> SUFFICES ASSUME LlmIInv, [LlmNext]_llmVars
             PROVE  SummingInv'
    OBVIOUS
<1> USE DEF LlmIInv, LlmTypeOK, SummingInv, ledgerVars, refreshVars
<1>1. ASSUME NEW t \in Turns, Check(t) \/ RefuseCall(t) \/ RecordDuplicate(t) \/ RecordUsage(t) PROVE SummingInv'
    BY <1>1 DEF Check, RefuseCall, RecordDuplicate, RecordUsage
<1>2. ASSUME NEW t \in Turns, CommitBeforeTool(t) \/ Finish(t) PROVE SummingInv'
    BY <1>2 DEF CommitBeforeTool, Finish, Commit
<1>3. ASSUME NEW t \in Turns, CrashTurn(t) PROVE SummingInv'
    BY <1>3 DEF CrashTurn
<1>4. ASSUME NEW r \in Refreshers, Sum(r) PROVE SummingInv'
    BY <1>4 DEF Sum
<1>5. ASSUME NEW r \in Refreshers, WriteSum(r) \/ RefreshFails(r) PROVE SummingInv'
    BY <1>5 DEF WriteSum, RefreshFails
<1>6. ASSUME NEW a \in Attempts, Age(a) PROVE SummingInv'
    BY <1>6 DEF Age
<1>7. ASSUME NEW q \in Quotas, UpdateCap(q) PROVE SummingInv'
    BY <1>7 DEF UpdateCap
<1>8. CASE UNCHANGED llmVars
    BY <1>8 DEF llmVars
<1> QED
    BY <1>1, <1>2, <1>3, <1>4, <1>5, <1>6, <1>7, <1>8 DEF LlmNext, TurnStep

LEMMA AggregateStep == LlmIInv /\ [LlmNext]_llmVars => AggregateIsExact'
<1> SUFFICES ASSUME LlmIInv, [LlmNext]_llmVars
             PROVE  AggregateIsExact'
    OBVIOUS
<1> USE DEF LlmIInv, LlmTypeOK, AggregateIsExact, ledgerVars, refreshVars
<1>1. ASSUME NEW t \in Turns, Check(t) \/ RefuseCall(t) \/ RecordDuplicate(t) \/ RecordUsage(t) \/ CrashTurn(t)
      PROVE  AggregateIsExact'
    BY <1>1 DEF Check, RefuseCall, RecordDuplicate, RecordUsage, CrashTurn
<1>2. ASSUME NEW t \in Turns, CommitBeforeTool(t) \/ Finish(t) PROVE AggregateIsExact'
    <2>1. Commit(t)
        BY <1>2 DEF CommitBeforeTool, Finish
    <2>2. spent' = Total[counted']
        BY <2>1, CommitFacts
    <2>3. window' \ counted' \subseteq raced'
        BY <2>1 DEF Commit
    <2> QED
        BY <2>2, <2>3
<1>3. ASSUME NEW r \in Refreshers, WriteSum(r) PROVE AggregateIsExact'
    BY <1>3 DEF WriteSum, SummingInv
<1>4. ASSUME NEW r \in Refreshers, Sum(r) \/ RefreshFails(r) PROVE AggregateIsExact'
    BY <1>4 DEF Sum, RefreshFails
<1>5. ASSUME NEW a \in Attempts, Age(a) PROVE AggregateIsExact'
    BY <1>5 DEF Age
<1>6. ASSUME NEW q \in Quotas, UpdateCap(q) PROVE AggregateIsExact'
    BY <1>6 DEF UpdateCap
<1>7. CASE UNCHANGED llmVars
    BY <1>7 DEF llmVars
<1> QED
    BY <1>1, <1>2, <1>3, <1>4, <1>5, <1>6, <1>7 DEF LlmNext, TurnStep

LEMMA OvershootStep == LlmIInv /\ [LlmNext]_llmVars => OvershootIsUnseen'
<1> SUFFICES ASSUME LlmIInv, [LlmNext]_llmVars
             PROVE  OvershootIsUnseen'
    OBVIOUS
<1> USE DEF LlmIInv, LlmTypeOK, OvershootIsUnseen, ledgerVars, refreshVars
<1>0. Projected \in Nat /\ Cap \in Nat
    BY CapAssumption
<1>1. ASSUME NEW t \in Turns, Check(t) PROVE OvershootIsUnseen'
    <2>1. spent + Projected <= Cap /\ window' = window /\ unseen' = window \ counted
        BY <1>1 DEF Check
    <2>2. Total[window] <= Total[counted] + Total[window \ counted]
        BY TotalSplits
    <2>3. spent = Total[counted]
        BY DEF AggregateIsExact
    <2>4. Total[window] \in Nat /\ Total[window \ counted] \in Nat
        BY TotalType
    <2> QED
        BY <1>0, <2>1, <2>2, <2>3, <2>4
<1>2. ASSUME NEW t \in Turns, RefuseCall(t) \/ RecordDuplicate(t) \/ RecordUsage(t) \/ CrashTurn(t)
      PROVE  OvershootIsUnseen'
    BY <1>2 DEF RefuseCall, RecordDuplicate, RecordUsage, CrashTurn
<1>3. ASSUME NEW t \in Turns, CommitBeforeTool(t) \/ Finish(t) PROVE OvershootIsUnseen'
    <2>1. Commit(t) /\ admitted' = admitted
        BY <1>3 DEF CommitBeforeTool, Finish
    <2> DEFINE rows == tx[t].rows
    <2>2. /\ rows \in SUBSET Attempts /\ rows \cap used = {}
          /\ window' = window \cup rows /\ unseen' = unseen \cup rows
        BY <2>1, CommitFacts
    <2>3. Total[window \cup rows] = Total[window] + Total[rows]
        BY <2>2, TotalAdds
    <2>4. Total[unseen \cup rows] = Total[unseen] + Total[rows]
        BY <2>2, TotalAdds
    <2>5. Total[window] \in Nat /\ Total[unseen] \in Nat /\ Total[rows] \in Nat
        BY <2>2, TotalType
    <2> HIDE DEF rows
    <2> QED
        BY <1>0, <2>1, <2>2, <2>3, <2>4, <2>5
<1>4. ASSUME NEW r \in Refreshers, Sum(r) \/ WriteSum(r) \/ RefreshFails(r) PROVE OvershootIsUnseen'
    BY <1>4 DEF Sum, WriteSum, RefreshFails
<1>5. ASSUME NEW a \in Attempts, Age(a) PROVE OvershootIsUnseen'
    <2>1. window' = window \ {a} /\ UNCHANGED <<admitted, unseen>>
        BY <1>5 DEF Age
    <2>2. Total[window \ {a}] <= Total[window]
        BY TotalMonotonic
    <2>3. Total[window] \in Nat /\ Total[unseen] \in Nat /\ Total[window \ {a}] \in Nat
        BY TotalType
    <2> QED
        BY <1>0, <2>1, <2>2, <2>3
<1>6. ASSUME NEW q \in Quotas, UpdateCap(q) PROVE OvershootIsUnseen'
    BY <1>6 DEF UpdateCap
<1>7. CASE UNCHANGED llmVars
    BY <1>7 DEF llmVars
<1> QED
    BY <1>1, <1>2, <1>3, <1>4, <1>5, <1>6, <1>7 DEF LlmNext, TurnStep

-----------------------------------------------------------------------------
(* The theorems.                                                           *)

LEMMA LlmNextInv == LlmIInv /\ [LlmNext]_llmVars => LlmIInv'
BY LlmTypeStep, HolderStep, SummingStep, AggregateStep, OvershootStep DEF LlmIInv

\* The inductive invariant holds in every reachable state.
THEOREM LlmInvariance == LlmSpec => []LlmIInv
BY LlmInitInv, LlmNextInv, PTL DEF LlmSpec

\* Every variable keeps its type.
THEOREM LlmTypeCorrectness == LlmSpec => []LlmTypeOK
BY LlmInvariance, PTL DEF LlmIInv

\* record_usage and refresh_aggregate keep the cache the exact cost of a set of
\* attempts, which lacks only those that raced with a refresh.
THEOREM AggregateCorrectness == LlmSpec => []AggregateIsExact
BY LlmInvariance, PTL DEF LlmIInv

\* check_budget's cap is exceeded only by what the last check could not count.
THEOREM OvershootCorrectness == LlmSpec => []OvershootIsUnseen
BY LlmInvariance, PTL DEF LlmIInv

\* Together, for every number of turns, calls and prices.
THEOREM SoundLedger == LlmSpec => []LedgerIsSound
BY LlmInvariance, PTL DEF LlmIInv, LedgerIsSound

-----------------------------------------------------------------------------
(* The web push queue (WebPush), for any rows, tokens and processes.       *)

\* A row in the hands of a thread is pending, at the attempt that the thread
\* expects, and no other thread has it.
HeldIsPending(d) ==
    /\ \A p \in Pushers : Holds(p, d) => Pending(d) /\ queue[d].attempt = thread[p][d].attempt
    /\ \A p, q \in Pushers : Holds(p, d) /\ Holds(q, d) => p = q

\* A pending row has attempts left and a token that is registered.
PendingIsOwed(d) ==
    /\ d \in due => Pending(d)
    /\ queue[d].status = "none" => queue[d].attempt = 0
    /\ Pending(d) => TokenOf[d] \in tokens /\ queue[d].attempt < MaxAttempts

\* Of a pending row the attempts before the present one have been posted, at
\* most, and that one by a thread that still has the row.
PostsAreEarlier(d) ==
    \A n \in posted[d] :
        /\ queue[d].status # "none"
        /\ Pending(d) => \/ n < queue[d].attempt
                         \/ n = queue[d].attempt /\ \E p \in Pushers : Lost(p, d) # {}

RowStatuses == {"none", "pending", "sent", "dead_lettered", "gone"}
ThreadTypes == [at : {"idle", "selected", "loaded", "claimed", "answered", "purging"},
                attempt : 0 .. MaxAttempts - 1, answer : Answers]

ThreadIsTyped == thread \in [Pushers -> [Pushes -> ThreadTypes]]

PushShape ==
    /\ queue \in [Pushes -> [status : RowStatuses, attempt : 0 .. MaxAttempts]]
    /\ due \subseteq Pushes /\ tokens \subseteq Tokens
    /\ ThreadIsTyped
    /\ pushCrashes \in 0 .. MaxPushCrashes
    /\ posted \in [Pushes -> SUBSET (0 .. MaxAttempts - 1)]

RowIsSound(d) == HeldIsPending(d) /\ PendingIsOwed(d) /\ PostsAreEarlier(d)
PushIInv == PushShape /\ \A d \in Pushes : RowIsSound(d)

\* What can become of a row: threads let it go, and what they have posted is
\* forgotten with their transaction;
LetGo(d) ==
    /\ queue'[d] = queue[d] /\ posted'[d] \subseteq posted[d]
    /\ d \in due' => d \in due \/ Pending(d)
    /\ TokenOf[d] \in tokens => TokenOf[d] \in tokens'
    /\ \A p \in Pushers : \/ thread'[p][d] = thread[p][d]
                          \/ Holds(p, d)' = FALSE /\ posted'[d] \cap Lost(p, d) = {}

\* it is taken by p, or stays with p;
KeptBy(p, d) ==
    /\ queue'[d] = queue[d] /\ due' = due /\ tokens' = tokens
    /\ \A q \in Pushers : q # p => thread'[q][d] = thread[q][d] /\ ~Holds(q, d)
    /\ Pending(d) /\ queue[d].attempt = thread[p][d].attempt /\ thread'[p][d].attempt = thread[p][d].attempt
    /\ \/ ~Holds(p, d) /\ thread'[p][d].at = "claimed" /\ posted'[d] = posted[d]
       \/ /\ Holds(p, d) /\ thread'[p][d].at \in {"answered", "purging"}
          /\ posted'[d] \subseteq posted[d] \cup {thread[p][d].attempt}

\* or no thread has it any more and it is settled, dropped, or put off with an
\* attempt less.
Stamped(d) ==
    /\ \A p \in Pushers : Holds(p, d)' = FALSE
    /\ posted'[d] \subseteq posted[d] /\ d \notin due'
    /\ queue'[d].status = "none" => queue'[d] = queue[d]
    /\ queue'[d].status = "pending" =>
          /\ Pending(d) /\ queue'[d].attempt = queue[d].attempt + 1 /\ queue'[d].attempt < MaxAttempts
          /\ tokens' = tokens

LEMMA RowKeeps ==
    ASSUME PushIInv, PushShape', NEW d \in Pushes,
           LetGo(d) \/ (\E p \in Pushers : KeptBy(p, d)) \/ Stamped(d)
    PROVE  RowIsSound(d)'
<1>. USE PushAssumption
<1>0. RowIsSound(d) /\ PushShape
  BY DEF PushIInv
<1>1. CASE LetGo(d)
  <2>1. \A p \in Pushers : Holds(p, d)' => Holds(p, d) /\ thread'[p][d] = thread[p][d]
    BY <1>1 DEF LetGo, Holds
  <2>2. Pending(d)' <=> Pending(d)
    BY <1>1 DEF LetGo, Pending
  <2>3. HeldIsPending(d)'
    BY <1>0, <1>1, <2>1, <2>2 DEF LetGo, RowIsSound, HeldIsPending
  <2>4. PendingIsOwed(d)'
    BY <1>0, <1>1, <2>2 DEF LetGo, RowIsSound, PendingIsOwed
  <2>5. ASSUME NEW n \in posted'[d], Pending(d)', ~(n < queue'[d].attempt)
        PROVE  n = queue'[d].attempt /\ \E p \in Pushers : Lost(p, d)' # {}
    <3>1. n \in posted[d] /\ queue'[d] = queue[d]
      BY <1>1, <2>5 DEF LetGo
    <3>2. PICK p \in Pushers : Lost(p, d) # {}
      BY <1>0, <2>2, <2>5, <3>1 DEF RowIsSound, PostsAreEarlier
    <3>3. n = queue[d].attempt
      BY <1>0, <2>2, <2>5, <3>1 DEF RowIsSound, PostsAreEarlier
    <3>4. Holds(p, d) /\ Lost(p, d) = {thread[p][d].attempt}
      BY <3>2 DEF Lost, Holds
    <3>5. Lost(p, d) = {n}
      BY <1>0, <3>3, <3>4 DEF RowIsSound, HeldIsPending
    <3>6. thread'[p][d] = thread[p][d]
      BY <1>1, <2>5, <3>5 DEF LetGo
    <3>7. Lost(p, d)' # {}
      BY <3>2, <3>6 DEF Lost
    <3>. QED
      BY <3>1, <3>3, <3>7
  <2>6. PostsAreEarlier(d)'
    BY <1>0, <1>1, <2>5 DEF LetGo, RowIsSound, PostsAreEarlier
  <2>. QED
    BY <2>3, <2>4, <2>6 DEF RowIsSound
<1>2. ASSUME NEW p \in Pushers, KeptBy(p, d) PROVE RowIsSound(d)'
  <2>1. Pending(d)' /\ Pending(d)
    BY <1>2 DEF KeptBy, Pending
  <2>2. HeldIsPending(d)'
    <3>1. \A q \in Pushers : q # p => ~Holds(q, d)'
      BY <1>2 DEF KeptBy, Holds
    <3>. QED
      BY <1>2, <2>1, <3>1 DEF KeptBy, HeldIsPending
  <2>3. PendingIsOwed(d)'
    BY <1>0, <1>2, <2>1 DEF KeptBy, RowIsSound, PendingIsOwed
  <2>4. ASSUME NEW n \in posted'[d]
        PROVE  n < queue'[d].attempt \/ (n = queue'[d].attempt /\ \E q \in Pushers : Lost(q, d)' # {})
    <3>1. CASE ~Holds(p, d) /\ thread'[p][d].at = "claimed" /\ posted'[d] = posted[d]
      <4>1. \A q \in Pushers : Lost(q, d) = {}
        BY <1>2, <3>1 DEF KeptBy, Lost, Holds
      <4>. QED
        BY <1>0, <1>2, <2>1, <2>4, <3>1, <4>1 DEF KeptBy, RowIsSound, PostsAreEarlier
    <3>2. CASE thread'[p][d].at \in {"answered", "purging"} /\ posted'[d] \subseteq posted[d] \cup {thread[p][d].attempt}
      <4>1. Lost(p, d)' # {}
        BY <3>2 DEF Lost
      <4>2. queue'[d] = queue[d] /\ queue[d].attempt = thread[p][d].attempt
        BY <1>2 DEF KeptBy
      <4>3. n \in posted[d] => n < queue[d].attempt \/ n = queue[d].attempt
        BY <1>0, <2>1 DEF RowIsSound, PostsAreEarlier
      <4>. QED
        BY <2>4, <3>2, <4>1, <4>2, <4>3
    <3>. QED
      BY <1>2, <3>1, <3>2 DEF KeptBy
  <2>5. PostsAreEarlier(d)'
    BY <2>1, <2>4 DEF PostsAreEarlier, Pending
  <2>. QED
    BY <2>2, <2>3, <2>5 DEF RowIsSound
<1>3. CASE Stamped(d)
  <2>1. HeldIsPending(d)'
    BY <1>3 DEF Stamped, HeldIsPending
  <2>2. PendingIsOwed(d)'
    BY <1>0, <1>3 DEF Stamped, RowIsSound, PendingIsOwed, Pending
  <2>3. ASSUME NEW n \in posted'[d]
        PROVE  queue'[d].status # "none" /\ (Pending(d)' => n < queue'[d].attempt)
    <3>1. n \in posted[d] /\ n \in Nat /\ queue[d].attempt \in Nat
      BY <1>0, <1>3, <2>3 DEF Stamped, PushShape
    <3>2. queue'[d].status # "none"
      BY <1>0, <1>3, <3>1 DEF Stamped, RowIsSound, PostsAreEarlier
    <3>3. ASSUME Pending(d)' PROVE n < queue'[d].attempt
      <4>1. Pending(d) /\ queue'[d].attempt = queue[d].attempt + 1
        BY <1>3, <3>3 DEF Stamped, Pending
      <4>2. n < queue[d].attempt \/ n = queue[d].attempt
        BY <1>0, <3>1, <4>1 DEF RowIsSound, PostsAreEarlier
      <4>. QED
        BY <3>1, <4>1, <4>2
    <3>. QED
      BY <3>2, <3>3
  <2>4. PostsAreEarlier(d)'
    BY <2>3 DEF PostsAreEarlier
  <2>. QED
    BY <2>1, <2>2, <2>4 DEF RowIsSound
<1>. QED
  BY <1>1, <1>2, <1>3

-----------------------------------------------------------------------------
(* Steps of threads.                                                       *)

Becomes(p, d, x) == thread' = [thread EXCEPT ![p][d] = x]
OnlyThread(p, d) == \A q \in Pushers, e \in Pushes : q # p \/ e # d => thread'[q][e] = thread[q][e]

LEMMA ThreadBecomes ==
    ASSUME PushShape, NEW p \in Pushers, NEW d \in Pushes, NEW x \in ThreadTypes, Becomes(p, d, x)
    PROVE  ThreadIsTyped' /\ thread'[p][d] = x /\ OnlyThread(p, d)
BY DEF PushShape, Becomes, ThreadIsTyped, OnlyThread

LEMMA IdleTyped == IdleThread \in ThreadTypes /\ IdleThread.at = "idle"
BY PushAssumption DEF IdleThread, ThreadTypes, Answers

LEMMA ThreadEnds ==
    ASSUME PushShape, NEW p \in Pushers, NEW d \in Pushes, Ends(p, d)
    PROVE  /\ ThreadIsTyped'
           /\ Holds(p, d)' = FALSE
           /\ OnlyThread(p, d)
<1>1. Becomes(p, d, IdleThread)
  BY DEF Ends, Becomes
<1>2. thread'[p][d] = IdleThread
  BY <1>1, IdleTyped, ThreadBecomes
<1>3. Holds(p, d)' = FALSE
  BY <1>2, IdleTyped DEF Holds
<1>. QED
  BY <1>1, <1>3, IdleTyped, ThreadBecomes

LEMMA ThreadMoves ==
    ASSUME PushShape, NEW p \in Pushers, NEW d \in Pushes,
           NEW place \in {"claimed", "purging"}, MovesTo(p, d, place)
    PROVE  /\ ThreadIsTyped'
           /\ thread'[p][d].at = place /\ thread'[p][d].attempt = thread[p][d].attempt
           /\ OnlyThread(p, d)
<1>. DEFINE x == [thread[p][d] EXCEPT !.at = place]
<1>1. thread[p][d] \in ThreadTypes
  BY DEF PushShape, ThreadIsTyped
<1>2. x \in ThreadTypes /\ x.at = place /\ x.attempt = thread[p][d].attempt
  BY <1>1 DEF ThreadTypes
<1>3. Becomes(p, d, x)
  BY DEF MovesTo, Becomes
<1>. HIDE DEF x
<1>. QED
  BY <1>2, <1>3, ThreadBecomes

\* A step of one thread, on its own row.
LEMMA OneRow ==
    ASSUME PushIInv, NEW p \in Pushers, NEW d \in Pushes, PushShape',
           OnlyThread(p, d),
           \A e \in Pushes : e # d => /\ queue'[e] = queue[e] /\ posted'[e] = posted[e]
                                      /\ e \in due' => e \in due,
           tokens' = tokens,
           LetGo(d) \/ KeptBy(p, d) \/ Stamped(d)
    PROVE  PushIInv'
<1>1. ASSUME NEW e \in Pushes, e # d PROVE RowIsSound(e)'
  <2>1. LetGo(e)
    BY <1>1 DEF LetGo, OnlyThread
  <2>. QED
    BY <2>1, RowKeeps
<1>2. RowIsSound(d)'
  BY RowKeeps
<1>. QED
  BY <1>1, <1>2 DEF PushIInv

LEMMA LoadStep ==
    ASSUME PushIInv, NEW p \in Pushers, NEW d \in Pushes, Load(p, d) PROVE PushIInv'
<1>0. PushShape /\ RowIsSound(d) /\ ~Holds(p, d)
  BY DEF PushIInv, Load, At, Holds
<1>1. /\ ThreadIsTyped'
      /\ Holds(p, d)' = FALSE
      /\ OnlyThread(p, d)
  <2>1. CASE Pending(d)
    <3>. DEFINE x == [thread[p][d] EXCEPT !.at = "loaded", !.attempt = queue[d].attempt]
    <3>1. thread[p][d] \in ThreadTypes /\ queue[d].attempt \in 0 .. MaxAttempts - 1
      <4>1. queue[d].attempt \in 0 .. MaxAttempts /\ queue[d].attempt < MaxAttempts
        BY <1>0, <2>1 DEF PushShape, RowIsSound, PendingIsOwed
      <4>2. thread[p][d] \in ThreadTypes
        BY <1>0 DEF PushShape, ThreadIsTyped
      <4>. QED
        BY <4>1, <4>2, PushAssumption
    <3>2. x \in ThreadTypes /\ x.at = "loaded"
      BY <3>1 DEF ThreadTypes
    <3>3. Becomes(p, d, x)
      BY <2>1 DEF Load, Becomes
    <3>. HIDE DEF x
    <3>. QED
      BY <1>0, <3>2, <3>3, ThreadBecomes DEF Holds
  <2>2. CASE ~Pending(d)
    BY <1>0, <2>2, ThreadEnds DEF Load
  <2>. QED
    BY <2>1, <2>2
<1>2. UNCHANGED <<queue, due, tokens, pushCrashes, posted>>
  BY DEF Load
<1>3. PushShape'
  BY <1>0, <1>1, <1>2 DEF PushShape
<1>4. LetGo(d)
  BY <1>0, <1>1, <1>2 DEF LetGo, Lost, Holds, OnlyThread
<1>. QED
  BY <1>1, <1>2, <1>3, <1>4, OneRow

LEMMA ClaimStep ==
    ASSUME PushIInv, NEW p \in Pushers, NEW d \in Pushes, Claim(p, d) PROVE PushIInv'
<1>0. PushShape /\ \A q \in Pushers : ~Holds(q, d)
  BY DEF PushIInv, Claim, Locked
<1>2. UNCHANGED <<queue, due, tokens, pushCrashes, posted>>
  BY DEF Claim
<1>3. CASE Pending(d) /\ queue[d].attempt = thread[p][d].attempt
  <2>1. /\ ThreadIsTyped'
        /\ thread'[p][d].at = "claimed" /\ thread'[p][d].attempt = thread[p][d].attempt
        /\ OnlyThread(p, d)
    BY <1>0, <1>3, ThreadMoves DEF Claim
  <2>2. KeptBy(p, d)
    BY <1>0, <1>2, <1>3, <2>1 DEF KeptBy, OnlyThread
  <2>3. PushShape'
    BY <1>0, <1>2, <2>1 DEF PushShape
  <2>. QED
    BY <1>2, <2>1, <2>2, <2>3, OneRow
<1>4. CASE ~(Pending(d) /\ queue[d].attempt = thread[p][d].attempt)
  <2>1. /\ ThreadIsTyped'
        /\ Holds(p, d)' = FALSE
        /\ OnlyThread(p, d)
    BY <1>0, <1>4, ThreadEnds DEF Claim
  <2>2. LetGo(d)
    BY <1>0, <1>2, <2>1 DEF LetGo, Lost, Holds, OnlyThread
  <2>3. PushShape'
    BY <1>0, <1>2, <2>1 DEF PushShape
  <2>. QED
    BY <1>2, <2>1, <2>2, <2>3, OneRow
<1>. QED
  BY <1>3, <1>4

LEMMA PostStep ==
    ASSUME PushIInv, NEW p \in Pushers, NEW d \in Pushes, NEW answer \in Answers, Post(p, d, answer)
    PROVE  PushIInv'
<1>. DEFINE x == [thread[p][d] EXCEPT !.at = "answered", !.answer = answer]
            n == thread[p][d].attempt
<1>0. PushShape /\ RowIsSound(d) /\ Holds(p, d)
  BY DEF PushIInv, Post, At, Holds
<1>1. thread[p][d] \in ThreadTypes
  BY <1>0 DEF PushShape, ThreadIsTyped
<1>2. x \in ThreadTypes /\ x.at = "answered" /\ x.attempt = n /\ n \in 0 .. MaxAttempts - 1
  BY <1>1 DEF ThreadTypes
<1>3. /\ Becomes(p, d, x)
      /\ posted' = [posted EXCEPT ![d] = @ \cup {n}]
      /\ UNCHANGED <<queue, due, tokens, pushCrashes>>
  BY DEF Post, Becomes
<1>. HIDE DEF x
<1>4. /\ ThreadIsTyped'
      /\ thread'[p][d] = x
      /\ OnlyThread(p, d)
  BY <1>0, <1>2, <1>3, ThreadBecomes
<1>5. KeptBy(p, d)
  <2>1. \A q \in Pushers : q # p => thread'[q][d] = thread[q][d] /\ ~Holds(q, d)
    BY <1>0, <1>4 DEF RowIsSound, HeldIsPending, OnlyThread
  <2>2. Pending(d) /\ queue[d].attempt = thread[p][d].attempt
    BY <1>0 DEF RowIsSound, HeldIsPending
  <2>3. posted'[d] = posted[d] \cup {n}
    BY <1>0, <1>3 DEF PushShape
  <2>. QED
    BY <1>0, <1>2, <1>3, <1>4, <2>1, <2>2, <2>3 DEF KeptBy, OnlyThread
<1>6. PushShape'
  <2>1. posted' \in [Pushes -> SUBSET (0 .. MaxAttempts - 1)]
    BY <1>0, <1>2, <1>3 DEF PushShape
  <2>. QED
    BY <1>0, <1>3, <1>4, <2>1 DEF PushShape
<1>7. \A e \in Pushes : e # d => posted'[e] = posted[e]
  BY <1>0, <1>3 DEF PushShape
<1>. QED
  BY <1>3, <1>4, <1>5, <1>6, <1>7, OneRow

\* A stamp counts the attempt, which is the last if the row is pending no more.
LEMMA StampSteps ==
    ASSUME PushIInv, NEW p \in Pushers, NEW d \in Pushes, Holds(p, d),
           NEW status \in {"sent", "dead_lettered", "pending"}, Stamp(p, d, status),
           status = "pending" => thread[p][d].attempt + 1 < MaxAttempts
    PROVE  PushIInv'
<1>. DEFINE x == [status |-> status, attempt |-> thread[p][d].attempt + 1]
<1>0. PushShape /\ RowIsSound(d) /\ MaxAttempts \in Nat
  BY PushAssumption DEF PushIInv
<1>1. thread[p][d].attempt \in 0 .. MaxAttempts - 1
  BY <1>0 DEF PushShape, ThreadIsTyped, ThreadTypes
<1>2. x \in [status : RowStatuses, attempt : 0 .. MaxAttempts] /\ x.status = status
      /\ x.attempt = thread[p][d].attempt + 1
  BY <1>0, <1>1 DEF RowStatuses
<1>3. queue' = [queue EXCEPT ![d] = x] /\ due' = due \ {d} /\ UNCHANGED <<tokens, pushCrashes, posted>>
  BY DEF Stamp
<1>. HIDE DEF x
<1>4. /\ ThreadIsTyped'
      /\ Holds(p, d)' = FALSE
      /\ OnlyThread(p, d)
  BY <1>0, ThreadEnds DEF Stamp
<1>5. queue'[d] = x /\ \A e \in Pushes : e # d => queue'[e] = queue[e]
  BY <1>0, <1>3 DEF PushShape
<1>6. PushShape'
  <2>1. queue' \in [Pushes -> [status : RowStatuses, attempt : 0 .. MaxAttempts]]
    BY <1>0, <1>2, <1>3 DEF PushShape
  <2>. QED
    BY <1>0, <1>3, <1>4, <2>1 DEF PushShape
<1>7. Stamped(d)
  <2>1. \A q \in Pushers : Holds(q, d)' = FALSE
    BY <1>0, <1>4 DEF RowIsSound, HeldIsPending, Holds, OnlyThread
  <2>2. Pending(d) /\ queue[d].attempt = thread[p][d].attempt
    BY <1>0 DEF RowIsSound, HeldIsPending
  <2>. QED
    BY <1>2, <1>3, <1>5, <2>1, <2>2 DEF Stamped
<1>. QED
  BY <1>3, <1>4, <1>5, <1>6, <1>7, OneRow

LEMMA BeginPurgeStep ==
    ASSUME PushIInv, NEW p \in Pushers, NEW d \in Pushes, BeginPurge(p, d) PROVE PushIInv'
<1>0. PushShape /\ RowIsSound(d) /\ Holds(p, d)
  BY DEF PushIInv, BeginPurge, At, Holds
<1>1. UNCHANGED <<queue, due, tokens, pushCrashes, posted>>
  BY DEF BeginPurge
<1>2. /\ ThreadIsTyped'
      /\ thread'[p][d].at = "purging" /\ thread'[p][d].attempt = thread[p][d].attempt
      /\ OnlyThread(p, d)
  BY <1>0, ThreadMoves DEF BeginPurge
<1>3. KeptBy(p, d)
  BY <1>0, <1>1, <1>2 DEF KeptBy, RowIsSound, HeldIsPending, OnlyThread
<1>4. PushShape'
  BY <1>0, <1>1, <1>2 DEF PushShape
<1>. QED
  BY <1>1, <1>2, <1>3, <1>4, OneRow

\* The rows of a token go with it when no other thread has one of them.
LEMMA DropStep ==
    ASSUME PushIInv, NEW t \in Tokens, DropToken(t),
           \A p \in Pushers, d \in RowsOf(t) : Holds(p, d)' = FALSE,
           \A p \in Pushers, d \in Pushes \ RowsOf(t) : thread'[p][d] = thread[p][d],
           ThreadIsTyped',
           UNCHANGED <<pushCrashes, posted>>
    PROVE  PushIInv'
<1>0. PushShape /\ \A d \in Pushes : TokenOf[d] \in Tokens
  BY PushAssumption DEF PushIInv
<1>1. ASSUME NEW d \in Pushes
      PROVE  /\ queue'[d] \in [status : RowStatuses, attempt : 0 .. MaxAttempts]
             /\ TokenOf[d] # t => queue'[d] = queue[d]
             /\ TokenOf[d] = t => queue'[d] = queue[d] \/ queue'[d].status = "gone"
             /\ TokenOf[d] = t => queue'[d].status \in {"none", "gone"}
  <2>1. queue[d] \in [status : RowStatuses, attempt : 0 .. MaxAttempts]
    BY <1>0 DEF PushShape
  <2>2. queue'[d] = IF TokenOf[d] = t /\ queue[d].status # "none"
                       THEN [queue[d] EXCEPT !.status = "gone"] ELSE queue[d]
    BY DEF DropToken
  <2>3. [queue[d] EXCEPT !.status = "gone"] \in [status : RowStatuses, attempt : 0 .. MaxAttempts]
        /\ [queue[d] EXCEPT !.status = "gone"].status = "gone"
    BY <2>1 DEF RowStatuses
  <2>. QED
    BY <2>1, <2>2, <2>3
<1>2. PushShape'
  <2>1. queue' = [d \in Pushes |-> queue'[d]]
    BY DEF DropToken
  <2>2. due' \subseteq Pushes /\ tokens' \subseteq Tokens
    BY <1>0 DEF DropToken, PushShape
  <2>. QED
    BY <1>0, <1>1, <2>1, <2>2 DEF PushShape
<1>3. ASSUME NEW d \in RowsOf(t) PROVE RowIsSound(d)'
  <2>1. d \in Pushes /\ TokenOf[d] = t
    BY DEF RowsOf
  <2>2. Stamped(d)
    BY <1>1, <2>1 DEF Stamped, DropToken
  <2>. QED
    BY <1>2, <2>1, <2>2, RowKeeps
<1>4. ASSUME NEW d \in Pushes \ RowsOf(t) PROVE RowIsSound(d)'
  <2>1. d \in Pushes /\ TokenOf[d] # t
    BY DEF RowsOf
  <2>2. LetGo(d)
    BY <1>1, <2>1 DEF LetGo, DropToken
  <2>. QED
    BY <1>2, <2>1, <2>2, RowKeeps
<1>. QED
  BY <1>2, <1>3, <1>4 DEF PushIInv

LEMMA StampStep ==
    ASSUME PushIInv, NEW p \in Pushers, NEW d \in Pushes,
           VapidMissing(p, d) \/ StampSent(p, d) \/ StampFailure(p, d)
    PROVE  PushIInv'
<1>1. CASE VapidMissing(p, d)
  BY <1>1, StampSteps DEF VapidMissing, At, Holds
<1>2. CASE StampSent(p, d)
  BY <1>2, StampSteps DEF StampSent, At, Holds
<1>3. CASE StampFailure(p, d)
  <2>. DEFINE final == thread[p][d].answer = "fatal" \/ thread[p][d].attempt + 1 >= MaxAttempts
  <2>1. Holds(p, d) /\ Stamp(p, d, IF final THEN "dead_lettered" ELSE "pending")
    BY <1>3 DEF StampFailure, At, Holds
  <2>2. CASE final
    BY <2>1, <2>2, StampSteps
  <2>3. CASE ~final
    <3>1. thread[p][d].attempt \in Nat /\ MaxAttempts \in Nat
      BY PushAssumption DEF PushIInv, PushShape, ThreadIsTyped, ThreadTypes
    <3>2. thread[p][d].attempt + 1 < MaxAttempts
      BY <2>3, <3>1
    <3>. QED
      BY <2>1, <2>3, <3>2, StampSteps
  <2>. QED
    BY <2>2, <2>3
<1>. QED
  BY <1>1, <1>2, <1>3

LEMMA PurgeStep ==
    ASSUME PushIInv, NEW p \in Pushers, NEW d \in Pushes, Purge(p, d) PROVE PushIInv'
<1>0. PushShape /\ TokenOf[d] \in Tokens /\ d \in RowsOf(TokenOf[d])
  BY PushAssumption DEF PushIInv, RowsOf
<1>1. ThreadIsTyped' /\ Holds(p, d)' = FALSE /\ OnlyThread(p, d)
  BY <1>0, ThreadEnds DEF Purge
<1>2. ASSUME NEW q \in Pushers, NEW e \in RowsOf(TokenOf[d]) PROVE Holds(q, e)' = FALSE
  <2>1. CASE q = p /\ e = d
    BY <1>1, <2>1
  <2>2. CASE ~(q = p /\ e = d)
    <3>1. ~Holds(q, e) /\ thread'[q][e] = thread[q][e]
      BY <1>1, <2>2 DEF Purge, OnlyThread, RowsOf
    <3>. QED
      BY <3>1 DEF Holds
  <2>. QED
    BY <2>1, <2>2
<1>3. \A q \in Pushers, e \in Pushes \ RowsOf(TokenOf[d]) : thread'[q][e] = thread[q][e]
  BY <1>0, <1>1 DEF OnlyThread
<1>. QED
  BY <1>0, <1>1, <1>2, <1>3, DropStep DEF Purge, ThreadIsTyped

LEMMA UnregisterStep ==
    ASSUME PushIInv, NEW t \in Tokens, Unregister(t) PROVE PushIInv'
<1>1. UNCHANGED <<thread, pushCrashes, posted>> /\ DropToken(t)
  BY DEF Unregister
<1>2. \A q \in Pushers, e \in RowsOf(t) : Holds(q, e)' = FALSE
  BY <1>1 DEF Unregister, Holds
<1>. QED
  BY <1>1, <1>2, DropStep DEF PushIInv, PushShape, ThreadIsTyped

\* A rollback: the claim is undone, and a post forgotten.
LEMMA RollBackStep ==
    ASSUME PushIInv, NEW p \in Pushers, NEW d \in Pushes, RollBack(p, d),
           pushCrashes' \in 0 .. MaxPushCrashes
    PROVE  PushIInv'
<1>0. PushShape
  BY DEF PushIInv
<1>1. /\ UNCHANGED <<queue, due, tokens>>
      /\ posted' = [posted EXCEPT ![d] = @ \ Lost(p, d)]
  BY DEF RollBack
<1>2. ThreadIsTyped' /\ Holds(p, d)' = FALSE /\ OnlyThread(p, d)
  BY <1>0, ThreadEnds DEF RollBack
<1>3. /\ posted' \in [Pushes -> SUBSET (0 .. MaxAttempts - 1)]
      /\ posted'[d] = posted[d] \ Lost(p, d) /\ \A e \in Pushes : e # d => posted'[e] = posted[e]
  <2>. DEFINE L == Lost(p, d)
  <2>. HIDE DEF L
  <2>1. posted' = [posted EXCEPT ![d] = @ \ L]
    BY <1>1 DEF L
  <2>2. posted \in [Pushes -> SUBSET (0 .. MaxAttempts - 1)]
    BY <1>0 DEF PushShape
  <2>3. /\ posted' \in [Pushes -> SUBSET (0 .. MaxAttempts - 1)]
        /\ posted'[d] = posted[d] \ L /\ \A e \in Pushes : e # d => posted'[e] = posted[e]
    BY <2>1, <2>2
  <2>. QED
    BY <2>3 DEF L
<1>4. PushShape'
  BY <1>0, <1>1, <1>2, <1>3 DEF PushShape
<1>5. LetGo(d)
  BY <1>1, <1>2, <1>3 DEF LetGo, OnlyThread
<1>. QED
  BY <1>1, <1>2, <1>3, <1>4, <1>5, OneRow

LEMMA CrashStep ==
    ASSUME PushIInv, NEW p \in Pushers, PusherCrash(p) PROVE PushIInv'
<1>0. PushShape
  BY DEF PushIInv
<1>1. /\ UNCHANGED <<queue, due, tokens>> /\ pushCrashes' \in 0 .. MaxPushCrashes
      /\ \A d \in Pushes : posted'[d] = posted[d] \ Lost(p, d)
      /\ posted' = [d \in Pushes |-> posted'[d]]
  BY <1>0, PushAssumption DEF PusherCrash, PushShape
<1>2. /\ ThreadIsTyped' /\ \A d \in Pushes : thread'[p][d] = IdleThread
      /\ \A q \in Pushers \ {p} : thread'[q] = thread[q]
  BY <1>0, IdleTyped DEF PusherCrash, PushShape, ThreadIsTyped
<1>3. posted' \in [Pushes -> SUBSET (0 .. MaxAttempts - 1)]
  BY <1>0, <1>1 DEF PushShape
<1>4. PushShape'
  BY <1>0, <1>1, <1>2, <1>3 DEF PushShape
<1>5. ASSUME NEW d \in Pushes PROVE LetGo(d)
  <2>1. Holds(p, d)' = FALSE
    BY <1>2, IdleTyped DEF Holds
  <2>. QED
    BY <1>1, <1>2, <2>1 DEF LetGo
<1>. QED
  BY <1>4, <1>5, RowKeeps DEF PushIInv

\* The purge of d gives way to the stamp of e.
LEMMA VictimStep ==
    ASSUME PushIInv, NEW p \in Pushers, NEW q \in Pushers, NEW d \in Pushes, NEW e \in Pushes,
           PurgeIsVictim(p, d, q, e)
    PROVE  PushIInv'
<1>0. /\ PushShape /\ RowIsSound(d) /\ RowIsSound(e) /\ MaxAttempts \in Nat
      /\ \A r \in Pushers, f \in Pushes : thread[r][f] \in ThreadTypes
  BY PushAssumption DEF PushIInv, PushShape, ThreadIsTyped
<1>1. /\ Holds(p, d) /\ Holds(q, e) /\ thread[p][d].at = "purging" /\ thread[q][e].at = "answered"
      /\ posted' = [posted EXCEPT ![d] = @ \ Lost(p, d)]
      /\ UNCHANGED <<tokens, pushCrashes>>
  BY DEF PurgeIsVictim, Deadlocked, At, Holds
<1>2. d # e
  BY <1>0, <1>1 DEF RowIsSound, HeldIsPending
<1>3. /\ posted' \in [Pushes -> SUBSET (0 .. MaxAttempts - 1)]
      /\ posted'[d] = posted[d] \ Lost(p, d) /\ \A f \in Pushes : f # d => posted'[f] = posted[f]
  <2>. DEFINE L == Lost(p, d)
  <2>. HIDE DEF L
  <2>1. posted' = [posted EXCEPT ![d] = @ \ L]
    BY <1>1 DEF L
  <2>2. posted \in [Pushes -> SUBSET (0 .. MaxAttempts - 1)]
    BY <1>0 DEF PushShape
  <2>3. /\ posted' \in [Pushes -> SUBSET (0 .. MaxAttempts - 1)]
        /\ posted'[d] = posted[d] \ L /\ \A f \in Pushes : f # d => posted'[f] = posted[f]
    BY <2>1, <2>2
  <2>. QED
    BY <2>3 DEF L
<1>4. /\ Pending(e) /\ queue[e].attempt = thread[q][e].attempt
      /\ \A r \in Pushers : r # q => ~Holds(r, e)
  BY <1>0, <1>1 DEF RowIsSound, HeldIsPending
<1>5. ASSUME ThreadIsTyped', Holds(p, d)' = FALSE,
             queue' \in [Pushes -> [status : RowStatuses, attempt : 0 .. MaxAttempts]],
             due' \subseteq due, \A f \in Pushes \ {e} : queue'[f] = queue[f],
             \A r \in Pushers, f \in Pushes : <<r, f>> \notin {<<p, d>>, <<q, e>>} =>
                                                  thread'[r][f] = thread[r][f],
             KeptBy(q, e) \/ Stamped(e)
      PROVE  PushIInv'
  <2>1. PushShape'
    BY <1>0, <1>1, <1>3, <1>5 DEF PushShape
  <2>2. RowIsSound(e)'
    BY <1>5, <2>1, RowKeeps
  <2>3. ASSUME NEW f \in Pushes, f # e PROVE LetGo(f)
    <3>1. CASE f = d
      <4>1. \A r \in Pushers : r # p => thread'[r][d] = thread[r][d]
        BY <1>2, <1>5
      <4>2. posted'[d] \subseteq posted[d] /\ posted'[d] \cap Lost(p, d) = {}
        BY <1>3
      <4>3. queue'[d] = queue[d] /\ tokens' = tokens
        BY <1>1, <1>2, <1>5
      <4>. QED
        BY <1>5, <3>1, <4>1, <4>2, <4>3 DEF LetGo
    <3>2. CASE f # d
      BY <1>1, <1>3, <1>5, <2>3, <3>2 DEF LetGo
    <3>. QED
      BY <3>1, <3>2
  <2>. QED
    BY <2>1, <2>2, <2>3, RowKeeps DEF PushIInv
<1>6. CASE thread[q][e].answer = "ok"
  <2>. DEFINE x == [status |-> "sent", attempt |-> thread[q][e].attempt + 1]
  <2>1. /\ queue' = [queue EXCEPT ![e] = x] /\ due' = due \ {e}
        /\ thread' = [thread EXCEPT ![p][d] = IdleThread, ![q][e] = IdleThread]
    BY <1>6 DEF PurgeIsVictim
  <2>2. thread[q][e].attempt \in 0 .. MaxAttempts - 1
    BY <1>0 DEF ThreadTypes
  <2>3. x \in [status : RowStatuses, attempt : 0 .. MaxAttempts] /\ x.status = "sent"
    BY <1>0, <2>2 DEF RowStatuses
  <2>. HIDE DEF x
  <2>4. /\ queue' \in [Pushes -> [status : RowStatuses, attempt : 0 .. MaxAttempts]]
        /\ queue'[e] = x /\ \A f \in Pushes \ {e} : queue'[f] = queue[f]
    BY <1>0, <2>1, <2>3 DEF PushShape
  <2>5. /\ ThreadIsTyped' /\ thread'[p][d] = IdleThread /\ thread'[q][e] = IdleThread
        /\ \A r \in Pushers, f \in Pushes : <<r, f>> \notin {<<p, d>>, <<q, e>>} =>
                                                thread'[r][f] = thread[r][f]
    BY <1>0, <1>2, <2>1, IdleTyped DEF PushShape, ThreadIsTyped
  <2>6. Holds(p, d)' = FALSE /\ Holds(q, e)' = FALSE
    BY <2>5, IdleTyped DEF Holds
  <2>7. \A r \in Pushers : Holds(r, e)' = FALSE
    BY <1>2, <1>4, <2>5, <2>6 DEF Holds
  <2>8. Stamped(e)
    BY <1>2, <1>3, <2>1, <2>3, <2>4, <2>7 DEF Stamped
  <2>. QED
    BY <1>5, <2>1, <2>4, <2>5, <2>6, <2>8
<1>7. CASE thread[q][e].answer # "ok"
  <2>1. /\ UNCHANGED <<queue, due>>
        /\ thread' = [thread EXCEPT ![p][d] = IdleThread, ![q][e].at = "purging"]
    BY <1>7 DEF PurgeIsVictim
  <2>. DEFINE x == [thread[q][e] EXCEPT !.at = "purging"]
  <2>2. x \in ThreadTypes /\ x.at = "purging" /\ x.attempt = thread[q][e].attempt
    BY <1>0 DEF ThreadTypes
  <2>3. thread' = [thread EXCEPT ![p][d] = IdleThread, ![q][e] = x]
    BY <1>0, <1>2, <2>1 DEF PushShape, ThreadIsTyped
  <2>. HIDE DEF x
  <2>4. /\ ThreadIsTyped' /\ thread'[p][d] = IdleThread /\ thread'[q][e] = x
        /\ \A r \in Pushers, f \in Pushes : <<r, f>> \notin {<<p, d>>, <<q, e>>} =>
                                                thread'[r][f] = thread[r][f]
    BY <1>0, <1>2, <2>2, <2>3, IdleTyped DEF PushShape, ThreadIsTyped
  <2>5. Holds(p, d)' = FALSE
    BY <2>4, IdleTyped DEF Holds
  <2>6. \A r \in Pushers : r # q => thread'[r][e] = thread[r][e]
    BY <1>2, <2>4
  <2>7. posted'[e] \subseteq posted[e] \cup {thread[q][e].attempt}
    BY <1>2, <1>3
  <2>8. KeptBy(q, e)
    BY <1>1, <1>4, <2>1, <2>2, <2>4, <2>6, <2>7 DEF KeptBy
  <2>9. queue' \in [Pushes -> [status : RowStatuses, attempt : 0 .. MaxAttempts]]
    BY <1>0, <2>1 DEF PushShape
  <2>. QED
    BY <1>5, <2>1, <2>4, <2>5, <2>8, <2>9
<1>. QED
  BY <1>6, <1>7

LEMMA EnqueueStep ==
    ASSUME PushIInv, NEW d \in Pushes, Enqueue(d) PROVE PushIInv'
<1>0. PushShape /\ RowIsSound(d) /\ MaxAttempts \in Nat \ {0}
  BY PushAssumption DEF PushIInv
<1>. DEFINE x == [queue[d] EXCEPT !.status = "pending"]
<1>1. /\ queue' = [queue EXCEPT ![d] = x] /\ due' = due \cup {d}
      /\ UNCHANGED <<tokens, thread, pushCrashes, posted>>
      /\ queue[d].status = "none" /\ TokenOf[d] \in tokens
  BY DEF Enqueue
<1>2. x \in [status : RowStatuses, attempt : 0 .. MaxAttempts] /\ x.status = "pending"
  BY <1>0 DEF PushShape, RowStatuses
<1>. HIDE DEF x
<1>3. /\ queue' \in [Pushes -> [status : RowStatuses, attempt : 0 .. MaxAttempts]]
      /\ queue'[d] = x /\ \A e \in Pushes \ {d} : queue'[e] = queue[e]
  BY <1>0, <1>1, <1>2 DEF PushShape
<1>4. PushShape'
  BY <1>0, <1>1, <1>3 DEF PushShape, ThreadIsTyped
<1>5. RowIsSound(d)'
  <2>1. posted'[d] = {} /\ \A p \in Pushers : ~Holds(p, d)
    BY <1>0, <1>1 DEF RowIsSound, PostsAreEarlier, HeldIsPending, Pending
  <2>2. Pending(d)' /\ queue'[d].attempt = 0
    BY <1>0, <1>1, <1>2, <1>3 DEF Pending, RowIsSound, PendingIsOwed, x, PushShape
  <2>3. HeldIsPending(d)' /\ PostsAreEarlier(d)'
    BY <1>1, <2>1 DEF HeldIsPending, PostsAreEarlier, Holds
  <2>4. PendingIsOwed(d)'
    BY <1>0, <1>1, <2>2 DEF PendingIsOwed, Pending
  <2>. QED
    BY <2>3, <2>4 DEF RowIsSound
<1>6. ASSUME NEW e \in Pushes \ {d} PROVE RowIsSound(e)'
  <2>1. LetGo(e)
    BY <1>1, <1>3 DEF LetGo
  <2>. QED
    BY <1>4, <2>1, RowKeeps
<1>. QED
  BY <1>4, <1>5, <1>6 DEF PushIInv

LEMMA DueStep ==
    ASSUME PushIInv, NEW d \in Pushes, BecomeDue(d) PROVE PushIInv'
<1>1. PushShape'
  BY DEF PushIInv, BecomeDue, PushShape, ThreadIsTyped
<1>2. ASSUME NEW e \in Pushes PROVE LetGo(e)
  BY DEF BecomeDue, LetGo
<1>. QED
  BY <1>1, <1>2, RowKeeps DEF PushIInv

LEMMA SelectStep ==
    ASSUME PushIInv, NEW p \in Pushers, SelectDue(p) PROVE PushIInv'
<1>. DEFINE x == [IdleThread EXCEPT !.at = "selected"]
            chosen == [d \in Pushes |-> IF d \in due THEN x ELSE IdleThread]
<1>0. PushShape
  BY DEF PushIInv
<1>1. x \in ThreadTypes /\ x.at = "selected"
  BY IdleTyped DEF ThreadTypes
<1>2. thread' = [thread EXCEPT ![p] = chosen] /\ UNCHANGED <<queue, due, tokens, pushCrashes, posted>>
  BY DEF SelectDue
<1>. HIDE DEF x
<1>3. chosen \in [Pushes -> ThreadTypes] /\ \A d \in Pushes : chosen[d] \in {x, IdleThread}
  BY <1>1, IdleTyped
<1>. HIDE DEF chosen
<1>4. ThreadIsTyped' /\ thread'[p] = chosen /\ \A q \in Pushers \ {p} : thread'[q] = thread[q]
  BY <1>0, <1>2, <1>3 DEF PushShape, ThreadIsTyped
<1>5. PushShape'
  BY <1>0, <1>2, <1>4 DEF PushShape
<1>6. ASSUME NEW d \in Pushes PROVE LetGo(d)
  <2>1. Holds(p, d)' = FALSE
    BY <1>1, <1>3, <1>4, IdleTyped DEF Holds
  <2>2. Lost(p, d) = {}
    BY DEF SelectDue, At, Lost
  <2>. QED
    BY <1>2, <1>4, <2>1, <2>2 DEF LetGo
<1>. QED
  BY <1>5, <1>6, RowKeeps DEF PushIInv

LEMMA PushNextIInv == ASSUME PushIInv, [PushNext]_pushVars PROVE PushIInv'
<1>1. ASSUME NEW d \in Pushes, Enqueue(d) \/ BecomeDue(d) PROVE PushIInv'
  BY <1>1, EnqueueStep, DueStep
<1>2. ASSUME NEW t \in Tokens, Unregister(t) PROVE PushIInv'
  BY <1>2, UnregisterStep
<1>3. ASSUME NEW p \in Pushers, SelectDue(p) \/ PusherCrash(p) PROVE PushIInv'
  BY <1>3, SelectStep, CrashStep
<1>4. ASSUME NEW p \in Pushers, NEW q \in Pushers, NEW d \in Pushes, NEW e \in Pushes,
             StampIsVictim(p, d, q, e) \/ PurgeIsVictim(p, d, q, e)
      PROVE  PushIInv'
  <2>1. CASE StampIsVictim(p, d, q, e)
    <3>1. RollBack(q, e) /\ pushCrashes' \in 0 .. MaxPushCrashes
      BY <2>1 DEF StampIsVictim, PushIInv, PushShape
    <3>. QED
      BY <3>1, RollBackStep
  <2>. QED
    BY <1>4, <2>1, VictimStep
<1>5. ASSUME NEW p \in Pushers, NEW d \in Pushes,
             Proceeds(p, d) \/ VapidMissing(p, d) \/ \E answer \in Answers : Post(p, d, answer)
      PROVE  PushIInv'
  BY <1>5, LoadStep, ClaimStep, PostStep, StampStep, BeginPurgeStep, PurgeStep DEF Proceeds
<1>6. ASSUME NEW p \in Pushers, NEW d \in Pushes, RowFails(p, d) PROVE PushIInv'
  <2>1. RollBack(p, d) /\ pushCrashes' \in 0 .. MaxPushCrashes
    BY <1>6, PushAssumption DEF RowFails, PushIInv, PushShape
  <2>. QED
    BY <2>1, RollBackStep
<1>7. CASE UNCHANGED pushVars
  <2>1. PushShape'
    BY <1>7 DEF PushIInv, PushShape, ThreadIsTyped, pushVars
  <2>2. ASSUME NEW e \in Pushes PROVE LetGo(e)
    BY <1>7 DEF pushVars, LetGo
  <2>. QED
    BY <2>1, <2>2, RowKeeps DEF PushIInv
<1>. QED
  BY <1>1, <1>2, <1>3, <1>4, <1>5, <1>6, <1>7 DEF PushNext, DeadlockIsBroken

LEMMA PushInitIInv == ASSUME PushInit PROVE PushIInv
<1>1. PushShape
  <2>1. queue \in [Pushes -> [status : RowStatuses, attempt : 0 .. MaxAttempts]]
    BY PushAssumption DEF PushInit, RowStatuses
  <2>2. ThreadIsTyped
    BY IdleTyped DEF PushInit, ThreadIsTyped
  <2>3. posted \in [Pushes -> SUBSET (0 .. MaxAttempts - 1)] /\ pushCrashes \in 0 .. MaxPushCrashes
    BY PushAssumption DEF PushInit
  <2>. QED
    BY <2>1, <2>2, <2>3 DEF PushInit, PushShape
<1>2. ASSUME NEW d \in Pushes PROVE RowIsSound(d)
  <2>1. \A p \in Pushers : ~Holds(p, d)
    BY IdleTyped DEF PushInit, Holds
  <2>2. queue[d].status = "none" /\ queue[d].attempt = 0 /\ posted[d] = {} /\ d \notin due
    BY DEF PushInit
  <2>. QED
    BY <2>1, <2>2 DEF RowIsSound, HeldIsPending, PendingIsOwed, PostsAreEarlier, Pending
<1>. QED
  BY <1>1, <1>2 DEF PushIInv

\* A post comes from the one thread that has the row.
LEMMA PostIsOwed ==
    ASSUME PushIInv, [PushNext]_pushVars, NEW p \in Pushers, NEW d \in Pushes, Posts(p, d)
    PROVE  thread[p][d].attempt \notin posted[d] /\ Pending(d) /\ TokenOf[d] \in tokens
<1>0. RowIsSound(d) /\ Holds(p, d) /\ thread[p][d].at = "claimed" /\ PushShape
  BY DEF PushIInv, Posts, At, Holds
<1>1. Pending(d) /\ queue[d].attempt = thread[p][d].attempt /\ TokenOf[d] \in tokens
  BY <1>0 DEF RowIsSound, HeldIsPending, PendingIsOwed
<1>2. ASSUME thread[p][d].attempt \in posted[d] PROVE FALSE
  <2>1. queue[d].attempt \in Nat
    BY <1>0 DEF PushShape
  <2>2. PICK q \in Pushers : Lost(q, d) # {}
    BY <1>0, <1>1, <1>2, <2>1 DEF RowIsSound, PostsAreEarlier
  <2>3. Holds(q, d) /\ thread[q][d].at \in {"answered", "purging"}
    BY <2>2 DEF Lost, Holds
  <2>4. q = p
    BY <1>0, <2>3 DEF RowIsSound, HeldIsPending
  <2>. QED
    BY <1>0, <2>3, <2>4
<1>. QED
  BY <1>1, <1>2

LEMMA PushIsTyped == PushIInv => PushTypeOK
BY DEF PushIInv, PushShape, ThreadIsTyped, ThreadTypes, RowStatuses, RowIsSound, HeldIsPending,
       PendingIsOwed, PushTypeOK

\* A row in hand is pending, is at its thread's attempt and has one thread; a
\* pending one has a token and attempts left; and the posts of an attempt that
\* is still to be stamped are those of the thread that has the row.
THEOREM PushInvariance == PushSpec => []PushIInv
BY PushInitIInv, PushNextIInv, PTL DEF PushSpec

\* The state of the queue keeps its types, a row is in the hands of one thread
\* and only a pending row is due.
THEOREM PushTypeCorrectness == PushSpec => []PushTypeOK
BY PushIsTyped, PushInvariance, PTL

\* However processes race for the rows, crash and deadlock with purges, each
\* attempt is posted once unless its post was rolled back, for a pending row
\* and to a registered token.
THEOREM OwedPosts == PushSpec => PostsAreOwed
<1>1. ASSUME PushIInv, [PushNext]_pushVars
      PROVE  [\A p \in Pushers, d \in Pushes : Posts(p, d) =>
                 /\ thread[p][d].attempt \notin posted[d]
                 /\ Pending(d)
                 /\ TokenOf[d] \in tokens]_pushVars
  BY <1>1, PostIsOwed
<1>. QED
  BY <1>1, PushInvariance, PTL DEF PushSpec, PostsAreOwed
=============================================================================
