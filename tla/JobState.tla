------------------------------ MODULE JobState ------------------------------
(***************************************************************************)
(* The kill switch of one background job (app/worker/job_state.py and      *)
(* wrap_job in app/worker/scheduler.py): the job's worker_heartbeat row,   *)
(* the ticks of the scheduler processes that run the job, and the          *)
(* operator's reset.                                                       *)
(*                                                                         *)
(* Every process has a scheduler of its own (max_instances=1 holds inside  *)
(* one process only), so ticks of several processes overlap.  A tick reads *)
(* the kill switch, runs its body and records the outcome in three units   *)
(* of work; reset_job reads the row first and then writes it.              *)
(***************************************************************************)
EXTENDS Naturals

CONSTANTS
    Workers,            \* scheduler processes that run the job
    Operators,          \* reset-job commands, each issued at most once
    RepeatedThreshold,  \* REPEATED_FAILURE_THRESHOLD
    DeadThreshold,      \* DEAD_THRESHOLD
    SeedsAtStartup,     \* whether it is the job whose heartbeat start() seeds
    MaxFaults           \* bound on failed reads, failed writes and crashes

ASSUME ThresholdsAssumption ==
    /\ RepeatedThreshold \in Nat /\ DeadThreshold \in Nat
    /\ 0 < RepeatedThreshold /\ RepeatedThreshold < DeadThreshold
ASSUME SeedsAssumption == SeedsAtStartup \in BOOLEAN
ASSUME FaultsAssumption == MaxFaults \in Nat

\* What the properties tell apart; a row that was never inserted reads alike.
NoRow == [failures |-> 0, dead |-> FALSE]
Rows == [failures : Nat, dead : BOOLEAN]

Kinds == {"none", "repeated_failure", "killed", "reset"}

VARIABLES
    row,      \* the job's worker_heartbeat row: its count, and whether dead_at is set
    healthy,  \* whether the job's upstream is: its body succeeds iff so
    pc,       \* pc[w]: where the tick of process w is
    opc,      \* opc[o]: where reset command o is
    seen,     \* seen[o]: the row as reset command o read it
    audit,    \* the audit row that the last commit wrote
    faults,   \* faults so far
    \* History, read by the properties only.
    streak,   \* failed ticks committed since the last clean one
    stale     \* processes that read the switch before the job was last killed

vars == <<row, healthy, pc, opc, seen, audit, faults, streak, stale>>

Init ==
    /\ row = NoRow
    /\ healthy \in BOOLEAN
    /\ pc = [w \in Workers |-> "down"]
    /\ opc = [o \in Operators |-> "idle"]
    /\ seen = [o \in Operators |-> NoRow]
    /\ audit = "none"
    /\ faults = 0
    /\ streak = 0
    /\ stale = {}

Goto(w, label) == pc' = [pc EXCEPT ![w] = label]

Fault == faults < MaxFaults /\ faults' = faults + 1

-----------------------------------------------------------------------------
(* One process.                                                            *)

\* start: the scheduler is running; the heartbeat job's row is seeded unless
\* the job is dead.
Start(w) ==
    /\ pc[w] = "down"
    /\ Goto(w, IF SeedsAtStartup /\ ~row.dead THEN "succeeded" ELSE "idle")
    /\ stale' = stale \ {w}
    /\ UNCHANGED <<row, healthy, opc, seen, audit, faults, streak>>

\* The body runs whatever the switch says.
ReadSwitchIgnored(w) ==
    /\ pc[w] = "idle"
    /\ Goto(w, "body")
    /\ stale' = stale \ {w}
    /\ UNCHANGED <<row, healthy, opc, seen, audit, faults, streak>>

\* The killswitch of the tick: a dead job is skipped.
ReadSwitch(w) ==
    /\ pc[w] = "idle"
    /\ ~row.dead
    /\ Goto(w, "body")
    /\ stale' = stale \ {w}
    /\ UNCHANGED <<row, healthy, opc, seen, audit, faults, streak>>

\* _job_is_dead, or the seeding, cannot read the row: it goes on as if alive.
ReadSwitchFails(w) ==
    /\ pc[w] \in {"idle"} \cup (IF SeedsAtStartup THEN {"down"} ELSE {})
    /\ Fault
    /\ Goto(w, IF pc[w] = "down" THEN "succeeded" ELSE "body")
    /\ stale' = stale \cup {w}
    /\ UNCHANGED <<row, healthy, opc, seen, audit, streak>>

RunBody(w) ==
    /\ pc[w] = "body"
    /\ Goto(w, IF healthy THEN "succeeded" ELSE "failed")
    /\ UNCHANGED <<row, healthy, opc, seen, audit, faults, streak, stale>>

\* The upsert leaves the count alone, as upsert_heartbeat does.
RecordSuccessHeartbeatOnly(w) ==
    /\ pc[w] = "succeeded"
    /\ audit' = "none"
    /\ streak' = 0
    /\ Goto(w, "idle")
    /\ UNCHANGED <<row, healthy, opc, seen, faults, stale>>

\* record_success: one upsert, which also clears dead_at.
RecordSuccess(w) ==
    /\ pc[w] = "succeeded"
    /\ row' = [failures |-> 0, dead |-> FALSE]
    /\ audit' = "none"
    /\ streak' = 0
    /\ Goto(w, "idle")
    /\ UNCHANGED <<healthy, opc, seen, faults, stale>>

\* The CASE of the upsert: dead_at is set once the threshold is reached.
Kills(count) == count >= DeadThreshold

\* The conflict branch overwrites the count with the inserted one.
BumpedToOne == [failures |-> 1, dead |-> row.dead \/ Kills(row.failures + 1)]

\* One atomic upsert: the count of the row as it is now goes up, and dead_at is
\* set unless it is set already.  The INSERT branch writes a count of 1.
Bumped == [failures |-> row.failures + 1,
           dead |-> row.dead \/ Kills(row.failures + 1)]

\* record_failure: one upsert and the audit row of a threshold just reached.
RecordFailure(w) ==
    /\ pc[w] = "failed"
    /\ row' = Bumped
    /\ audit' = CASE row'.failures = RepeatedThreshold -> "repeated_failure"
                  [] row'.failures = DeadThreshold     -> "killed"
                  [] OTHER                             -> "none"
    /\ streak' = streak + 1
    /\ stale' = IF row'.dead /\ ~row.dead
                  THEN {v \in Workers \ {w} : pc[v] \in {"body", "succeeded", "failed"}}
                  ELSE stale
    /\ Goto(w, "idle")
    /\ UNCHANGED <<healthy, opc, seen, faults>>

\* The outcome cannot be written; the tick ends.
RecordFails(w) ==
    /\ pc[w] \in {"succeeded", "failed"}
    /\ Fault
    /\ Goto(w, "idle")
    /\ UNCHANGED <<row, healthy, opc, seen, audit, streak, stale>>

\* The process dies and will be started again.
Crash(w) ==
    /\ pc[w] # "down"
    /\ Fault
    /\ Goto(w, "down")
    /\ UNCHANGED <<row, healthy, opc, seen, audit, streak, stale>>

-----------------------------------------------------------------------------
(* reset_job.                                                              *)

\* No row, or nothing to reset: the command returns at once.
ResetRead(o) ==
    /\ opc[o] = "idle"
    /\ seen' = [seen EXCEPT ![o] = row]
    /\ opc' = [opc EXCEPT ![o] =
                  IF row.failures = 0 /\ ~row.dead THEN "done" ELSE "write"]
    /\ UNCHANGED <<row, healthy, pc, audit, faults, streak, stale>>

\* What was read is subtracted.
ResetWriteRelative(o) ==
    /\ opc[o] = "write"
    /\ row' = [failures |-> row.failures - seen[o].failures,
               dead |-> IF seen[o].dead THEN FALSE ELSE row.dead]
    /\ audit' = "reset"
    /\ opc' = [opc EXCEPT ![o] = "done"]
    /\ UNCHANGED <<healthy, pc, seen, faults, streak, stale>>

\* The mapper's UPDATE sets the columns whose value differs from the one read.
ResetWrite(o) ==
    /\ opc[o] = "write"
    /\ row' = [failures |-> IF seen[o].failures # 0 THEN 0 ELSE row.failures,
               dead |-> IF seen[o].dead THEN FALSE ELSE row.dead]
    /\ audit' = "reset"
    /\ opc' = [opc EXCEPT ![o] = "done"]
    /\ UNCHANGED <<healthy, pc, seen, faults, streak, stale>>

-----------------------------------------------------------------------------

\* The upstream dependency breaks or comes back.
Upstream ==
    /\ healthy' = ~healthy
    /\ UNCHANGED <<row, pc, opc, seen, audit, faults, streak, stale>>

Tick(w) ==
    \/ Start(w)
    \/ ReadSwitch(w)
    \/ RunBody(w)
    \/ RecordSuccess(w)
    \/ RecordFailure(w)

Next ==
    \/ \E w \in Workers : Tick(w) \/ ReadSwitchFails(w) \/ RecordFails(w) \/ Crash(w)
    \/ \E o \in Operators : ResetRead(o) \/ ResetWrite(o)
    \/ Upstream

Spec == Init /\ [][Next]_vars

\* A supervisor restarts the processes, and their interval jobs keep firing.
FairSpec == Spec /\ \A w \in Workers : WF_vars(Tick(w))

-----------------------------------------------------------------------------
(* Properties.                                                             *)

TypeOK ==
    /\ row \in Rows
    /\ healthy \in BOOLEAN
    /\ pc \in [Workers -> {"down", "idle", "body", "succeeded", "failed"}]
    /\ opc \in [Operators -> {"idle", "write", "done"}]
    /\ seen \in [Operators -> Rows]
    /\ audit \in Kinds
    /\ faults \in Nat
    /\ streak \in Nat
    /\ stale \in SUBSET Workers

\* Until an operator intervenes the row is exact, however the ticks of several
\* processes overlap and whatever dies in between: it counts every committed
\* failure since the last clean tick once, and the job is dead from the
\* threshold on.
CountIsExact ==
    (\A o \in Operators : opc[o] # "done") =>
        /\ row.failures = streak
        /\ row.dead <=> streak >= DeadThreshold

\* A job is killed only after DeadThreshold failed ticks in a row, resets or not.
\* A dead job is revived by an operator, or by the clean end of a tick that got
\* past the switch before the kill or could not read it: no tick that saw the
\* job dead, and no seeding at startup, brings it back.
SwitchIsEarned ==
    [][/\ ~row.dead /\ row'.dead => streak' >= DeadThreshold
       /\ row.dead /\ ~row'.dead =>
            \/ audit' = "reset"
            \/ \E w \in stale : pc[w] = "succeeded" /\ pc'[w] = "idle"]_vars

\* Once its upstream stays healthy, a job is either killed for good or its
\* failures are forgotten.
SettlesOnceHealthy == (<>[]healthy) => <>[](row.dead \/ row.failures = 0)

\* The module's documentation: record_success clears dead_at "so a job that
\* recovered without an operator reset (e.g. the upstream dependency came back)
\* leaves the dead state on the next clean tick".
RecoversOnceHealthy == (<>[]healthy) => <>[](~row.dead)
=============================================================================
