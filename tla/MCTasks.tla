------------------------------ MODULE MCTasks -------------------------------
(* Small instances of the life of a task and of the generator that makes   *)
(* tasks.  A behaviour moves one of them, chosen at its start, and leaves  *)
(* the other as it is: what TaskLifecycle does to a row is LeaveTask here. *)
EXTENDS TaskLifecycle, Generator

CONSTANTS r1, r2, r3, u1

\* A schedule for both days, and one for the first.
MCBodies == {[days |-> {1, 2}, from |-> 1, until |-> 2, placed |-> TRUE],
             [days |-> {1}, from |-> 1, until |-> 1, placed |-> TRUE]}
\* West of UTC: the local date is behind.
MCSkew == [s \in Schedules |-> -1]

VARIABLE moving   \* the part that moves

allVars == <<moving, vars, genVars>>

MCInit ==
    /\ moving \in {"life", "schedule"}
    /\ Init /\ GenInit
    /\ moving # "life" => row.state = "pending" /\ ~ticked
    /\ moving # "schedule" => \A s \in Schedules : body[s].until = 1

\* The requests are alike and so are the users: of the behaviours that differ by a
\* renaming of them one is checked, where they set out in order and u1 completes first.
Renamed ==
    /\ pc'[r2] # "idle" => pc'[r1] # "idle"
    /\ pc'[r3] # "idle" => pc'[r2] # "idle"
    /\ completions = {} => \A c \in completions' : c.by = u1

MCNext ==
    /\ UNCHANGED moving
    /\ \/ moving = "life" /\ Next /\ Renamed /\ UNCHANGED genVars
       \/ moving = "schedule" /\ GenNext /\ UNCHANGED vars

\* The fairness of each part, while it is the one that moves.
MCFairness ==
    /\ \A s \in Sweepers : WF_vars(moving = "life" /\ Sweep(s))
    /\ \A g \in Generators :
          /\ WF_genVars(moving = "schedule" /\ TickLoad(g))
          /\ WF_genVars(moving = "schedule" /\ GoOn(g))

MCSpec == MCInit /\ [][MCNext]_allVars /\ MCFairness

-----------------------------------------------------------------------------
\* The types of the two parts.
TasksTypeOK ==
    /\ TypeOK
    /\ GenTypeOK
=============================================================================
