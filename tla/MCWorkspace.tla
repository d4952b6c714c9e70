---------------------------- MODULE MCWorkspace -----------------------------
(* Small instances of the worker's kill switch, the LLM budget, the        *)
(* ownership of a workspace, the web push queue and the inventory.  They   *)
(* share no state, so a behaviour moves one of them, chosen at its start,  *)
(* and leaves the others as they are.                                      *)
EXTENDS JobState, LlmBudget, OwnerGuard, WebPush, Inventory, FiniteSetsExt, TLC

CONSTANTS t1, t2, t3, c1, c2, u1, u2, u3, g1, g2, g3, k1, e1, e2

\* t2 presents the correlation id of t1 again; t1 calls twice.
MCCorrelationOf == [t \in Turns |-> IF t = t3 THEN c2 ELSE c1]
MCMaxCalls == [t \in Turns |-> IF t = t1 THEN 2 ELSE 1]
\* A first call costs 2, a later one 1.
MCTotal == [S \in SUBSET Attempts |-> MapThenSumSet(LAMBDA a : IF a[2] = 0 THEN 2 ELSE 1, S)]
\* Two of the three users are managers, one of them twice.
MCHolderOf == g1 :> u1 @@ g2 :> u2 @@ g3 :> u2
\* Both rows go to one device.
MCTokenOf == [d \in Pushes |-> k1]
\* e1 only commits stocktakes, e2 does anything.
MCMayDo == e1 :> {"commit"} @@ e2 :> WorkKinds

VARIABLE moving   \* the part that moves

allVars == <<moving, vars, llmVars, ownerVars, pushVars, stockVars>>

MCInit ==
    /\ moving \in {"job", "llm", "owner", "push", "stock"}
    /\ Init /\ LlmInit /\ OwnerInit /\ PushInit /\ InventoryInit
    /\ moving # "job" => healthy
    /\ moving # "owner" => owners = Users /\ live = Grants

\* A step of the part of that name leaves the state of the others alone.
Only(part) ==
    /\ moving = part
    /\ UNCHANGED moving
    /\ part # "job" => UNCHANGED vars
    /\ part # "llm" => UNCHANGED llmVars
    /\ part # "owner" => UNCHANGED ownerVars
    /\ part # "push" => UNCHANGED pushVars
    /\ part # "stock" => UNCHANGED stockVars

MCNext ==
    \/ moving = "job" /\ Next /\ Only("job")
    \/ moving = "llm" /\ LlmNext /\ Only("llm")
    \/ moving = "owner" /\ OwnerNext /\ Only("owner")
    \/ moving = "push" /\ PushNext /\ Only("push")
    \/ moving = "stock" /\ InventoryNext /\ Only("stock")

\* The fairness of each part, while it is the one that moves.
MCFairness ==
    /\ \A w \in Workers : WF_vars(moving = "job" /\ Tick(w))
    /\ WF_llmVars(moving = "llm" /\ \E t \in Turns : TurnStep(t))
    /\ \A r \in Refreshers :
          WF_llmVars(moving = "llm" /\ Sum(r)) /\ WF_llmVars(moving = "llm" /\ WriteSum(r))
    /\ \A d \in Pushes : WF_pushVars(moving = "push" /\ BecomeDue(d))
    /\ WF_pushVars(moving = "push" /\ \E p \in Pushers : SelectDue(p))
    /\ WF_pushVars(moving = "push" /\ DeadlockIsBroken)
    /\ \A p \in Pushers : WF_pushVars(moving = "push" /\ \E d \in Pushes : Proceeds(p, d))
    /\ WF_stockVars(moving = "stock" /\ \E c \in Clients : WorkStep(c) \/ RefuseWork(c) \/ StockDeadlock(c))
    /\ \A k \in Checkers : WF_stockVars(moving = "stock" /\ (WorkStep(k) \/ StockDeadlock(k)))
    /\ WF_stockVars(moving = "stock" /\ \E k \in Checkers : SweepItems(k))

MCSpec == MCInit /\ [][MCNext]_allVars /\ MCFairness

-----------------------------------------------------------------------------
\* The types of the five parts.
PartsTypeOK ==
    /\ TypeOK
    /\ LlmTypeOK
    /\ OwnerTypeOK
    /\ PushTypeOK
    /\ InventoryTypeOK
=============================================================================
