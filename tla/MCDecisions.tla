---------------------------- MODULE MCDecisions ----------------------------
(* What waits for a decision until its time is over: an agent's action for *)
(* its approval, and invitations for the invited.  They share no state, so *)
(* a behaviour moves one of them and leaves the other as it is.            *)
EXTENDS Approval, Invitation, TLC

CONSTANTS i1, i2, n1, n2, n3

\* The address is invited again once its first invitation is settled; that
\* one is refreshed once.
MCAddressOf == [i \in Invites |-> "ann"]
MCLinkOf == n1 :> i1 @@ n2 :> i1 @@ n3 :> i2

VARIABLE moving   \* the part that moves

allVars == <<moving, vars, inviteVars>>

MCInit ==
    /\ moving \in {"approval", "invitation"}
    /\ Init /\ InviteInit
    /\ moving = "invitation" => row.tool = "broadcast"
    /\ moving = "approval" => enrolled = {}

MCNext ==
    \/ moving = "approval" /\ Next /\ UNCHANGED <<moving, inviteVars>>
    \/ moving = "invitation" /\ InviteNext /\ UNCHANGED <<moving, vars>>

\* The fairness of each part, while it is the one that moves.
MCFairness ==
    /\ WF_vars(moving = "approval" /\ Expire)
    /\ \A s \in Sweepers : WF_vars(moving = "approval" /\ Sweep(s))
    /\ \A c \in InviteSweepers : WF_inviteVars(moving = "invitation" /\ PruneStep(c))

MCSpec == MCInit /\ [][MCNext]_allVars /\ MCFairness

-----------------------------------------------------------------------------
\* The types of the two parts.
DecisionsTypeOK == TypeOK /\ InviteTypeOK
=============================================================================
