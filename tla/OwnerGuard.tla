----------------------------- MODULE OwnerGuard -----------------------------
(***************************************************************************)
(* Who governs a workspace: the members of its system group "owners" and   *)
(* the live manager grants (app/domain/identity).  Three requests take     *)
(* members or grants away: remove_member of permission_groups.py, revoke   *)
(* of role_grants.py, and the removal of a user in membership.py.  The     *)
(* first two count under the row lock of _owner_guard.py; the third counts *)
(* without it and does not look at grants.                                 *)
(*                                                                         *)
(* A request loads its row, checks, writes and commits; under READ         *)
(* COMMITTED every statement sees what others have committed by then.      *)
(***************************************************************************)
CONSTANTS
    Users,
    Grants,       \* manager grants of the workspace, each of one user
    HolderOf,     \* the user of each grant
    Requests,
    Unlocked

ASSUME HolderAssumption == HolderOf \in [Grants -> Users]
ASSUME UnlockedAssumption == Unlocked \notin Requests

\* Where a request is: the row it loaded, or the change it is about to commit.
Idle == [at |-> "idle"]
Leave(u) == [at |-> "leave", user |-> u]
Leaving(u) == [at |-> "leaving", user |-> u]
Revoke(g) == [at |-> "revoke", grant |-> g]
Revoking(g) == [at |-> "revoking", grant |-> g]
Remove(u) == [at |-> "remove", user |-> u]

VARIABLES
    owners,      \* the members of the owners group
    live,        \* the manager grants that are not revoked
    groupLock,   \* the request that holds the owners group's row, or Unlocked
    req,         \* req[r]: where request r is
    \* History, read by the properties only.
    overlapped,  \* whether a removal of a user overlapped another removal
    bypassed     \* whether a removal of a user took an owner away

ownerVars == <<owners, live, groupLock, req, overlapped, bypassed>>

\* The owners who hold one of the manager grants in G.
Reach(members, G) == {u \in members : \E g \in G : HolderOf[g] = u}

\* A workspace that was bootstrapped with an owner who is a manager.
OwnerInit ==
    /\ owners \in SUBSET Users
    /\ live \in SUBSET Grants
    /\ Reach(owners, live) # {}
    /\ groupLock = Unlocked
    /\ req = [r \in Requests |-> Idle]
    /\ overlapped = FALSE
    /\ bypassed = FALSE

MoveTo(r, place) == req' = [req EXCEPT ![r] = place]

-----------------------------------------------------------------------------
(* The guarded removals.                                                   *)

\* remove_member reads the membership; without one there is nothing to do.
LoadMember(r, u) ==
    /\ req[r] = Idle
    /\ u \in owners
    /\ MoveTo(r, Leave(u))
    /\ UNCHANGED <<owners, live, groupLock, overlapped, bypassed>>

\* revoke's _load_grant finds a live grant.
LoadGrant(r, g) ==
    /\ req[r] = Idle
    /\ g \in live
    /\ MoveTo(r, Revoke(g))
    /\ UNCHANGED <<owners, live, groupLock, overlapped, bypassed>>

AtMostOne(S) == \A x, y \in S : x = y

\* The roster is guarded, the reach is not.
MayLeaveRosterOnly(u) == ~AtMostOne(owners)

\* count_owner_members_locked and count_owner_members_with_manager_grant_locked.
MayLeave(u) == ~AtMostOne(owners) /\ Reach(owners \ {u}, live) # {}

\* owner_member_manager_grant_status_locked: the last grant of an owner stays.
MayRevoke(g) == Reach(owners, live \ {g}) # {} \/ HolderOf[g] \notin owners

\* The guard counts before it has the lock.
GuardLeaveUnlocked(r, u) ==
    /\ req[r] = Leave(u)
    /\ MayLeave(u)
    /\ groupLock' = r
    /\ MoveTo(r, Leaving(u))
    /\ UNCHANGED <<owners, live, overlapped, bypassed>>

\* remove_member waits for the lock on the group's row, counts and deletes.
GuardLeave(r, u) ==
    /\ req[r] = Leave(u)
    /\ groupLock = Unlocked
    /\ MayLeave(u)
    /\ groupLock' = r
    /\ MoveTo(r, Leaving(u))
    /\ UNCHANGED <<owners, live, overlapped, bypassed>>

\* revoke waits for the same lock, counts and stamps the grant.
GuardRevoke(r, g) ==
    /\ req[r] = Revoke(g)
    /\ groupLock = Unlocked
    /\ MayRevoke(g)
    /\ groupLock' = r
    /\ MoveTo(r, Revoking(g))
    /\ UNCHANGED <<owners, live, overlapped, bypassed>>

\* The guard refuses: WouldOrphanOwnersGroup or LastOwnerGrantProtected.
Refuse(r) ==
    /\ groupLock = Unlocked
    /\ \/ \E u \in Users : req[r] = Leave(u) /\ ~MayLeave(u)
       \/ \E g \in Grants : req[r] = Revoke(g) /\ ~MayRevoke(g)
    /\ MoveTo(r, Idle)
    /\ UNCHANGED <<owners, live, groupLock, overlapped, bypassed>>

\* Whether somebody other than r is removing a user, on a count read before now.
OthersRemove(r) == \E q \in Requests \ {r} : req[q].at = "remove"

CommitLeave(r, u) ==
    /\ req[r] = Leaving(u)
    /\ owners' = owners \ {u}
    /\ groupLock' = Unlocked
    /\ overlapped' = (overlapped \/ OthersRemove(r))
    /\ MoveTo(r, Idle)
    /\ UNCHANGED <<live, bypassed>>

CommitRevoke(r, g) ==
    /\ req[r] = Revoking(g)
    /\ live' = live \ {g}
    /\ groupLock' = Unlocked
    /\ MoveTo(r, Idle)
    /\ UNCHANGED <<owners, overlapped, bypassed>>

-----------------------------------------------------------------------------
(* The unguarded removal, and what adds members and grants.                *)

\* membership.remove_member counts the owners without the lock, and refuses the
\* last one and a user who is no member.
LoadUser(r, u) ==
    /\ req[r] = Idle
    /\ u \in owners => ~AtMostOne(owners)
    /\ u \in owners \/ \E g \in live : HolderOf[g] = u
    /\ MoveTo(r, Remove(u))
    /\ UNCHANGED <<owners, live, groupLock, overlapped, bypassed>>

\* The grants in G that are not u's.
GrantsWithout(G, u) == {g \in G : HolderOf[g] # u}

\* It then retires the user's grants and deletes the user's memberships.
CommitRemove(r, u) ==
    /\ req[r] = Remove(u)
    /\ owners' = owners \ {u}
    /\ live' = GrantsWithout(live, u)
    /\ overlapped' = (overlapped \/ OthersRemove(r) \/ \E q \in Requests : req[q].at = "leaving")
    /\ bypassed' = (bypassed \/ u \in owners)
    /\ MoveTo(r, Idle)
    /\ UNCHANGED groupLock

\* The request's unit of work rolls back and lets the lock go.
AbortRequest(r) ==
    /\ req[r] # Idle
    /\ groupLock' = IF groupLock = r THEN Unlocked ELSE groupLock
    /\ MoveTo(r, Idle)
    /\ UNCHANGED <<owners, live, overlapped, bypassed>>

\* add_member takes no lock; a second insert of the row is a no-op.
AddMember(u) ==
    /\ u \notin owners
    /\ owners' = owners \cup {u}
    /\ UNCHANGED <<live, groupLock, req, overlapped, bypassed>>

\* grant inserts a fresh manager grant, without the lock.
Grant(g) ==
    /\ g \notin live
    /\ live' = live \cup {g}
    /\ UNCHANGED <<owners, groupLock, req, overlapped, bypassed>>

-----------------------------------------------------------------------------
OwnerNext ==
    \/ \E r \in Requests :
          \/ \E u \in Users : LoadMember(r, u) \/ GuardLeave(r, u) \/ CommitLeave(r, u)
          \/ \E g \in Grants : LoadGrant(r, g) \/ GuardRevoke(r, g) \/ CommitRevoke(r, g)
          \/ \E u \in Users : LoadUser(r, u) \/ CommitRemove(r, u)
          \/ Refuse(r)
          \/ AbortRequest(r)
    \/ \E u \in Users : AddMember(u)
    \/ \E g \in Grants : Grant(g)

OwnerSpec == OwnerInit /\ [][OwnerNext]_ownerVars

-----------------------------------------------------------------------------
(* Properties.                                                             *)

Places ==
    {Idle} \cup {Leave(u) : u \in Users} \cup {Leaving(u) : u \in Users} \cup {Remove(u) : u \in Users}
           \cup {Revoke(g) : g \in Grants} \cup {Revoking(g) : g \in Grants}

OwnerTypeOK ==
    /\ owners \subseteq Users
    /\ live \subseteq Grants
    /\ groupLock \in Requests \cup {Unlocked}
    /\ req \in [Requests -> Places]
    /\ overlapped \in BOOLEAN /\ bypassed \in BOOLEAN

\* The owners group is never emptied, whatever members, grants and users are
\* removed at once, unless the removal of a user overlapped another removal.
OwnersRemain == overlapped \/ owners # {}

\* Some owner holds a live manager grant, however removals of members and
\* revocations interleave, unless the removal of a user took an owner away.
ReachRemains == bypassed \/ Reach(owners, live) # {}

\* What the guards are for: somebody owns the workspace and can manage it.
OwnershipRemains == OwnersRemain /\ ReachRemains
=============================================================================
