----------------------------- MODULE Invitation -----------------------------
(***************************************************************************)
(* Invitations into a workspace (app/domain/identity/invite.py), the magic *)
(* links that prove the address (app/auth/magic_link.py) and the sweep     *)
(* that expires what nobody accepted (app/worker/tasks/invite_ttl.py).     *)
(*                                                                         *)
(* A manager's request inserts an invitation or refreshes the pending one  *)
(* of the address, and mails a link.  The invitee redeems the link; a new  *)
(* user then enrols a passkey, which activates the invitation in the same  *)
(* transaction, an existing one confirms it.  Rows are loaded without a    *)
(* lock and written at the commit; the exceptions are the conditional      *)
(* UPDATE of a link, the lock on the enrolling user, and the UNIQUE        *)
(* constraints on (address, state) and on live grants.                     *)
(***************************************************************************)
EXTENDS Naturals

CONSTANTS
    Addresses,
    Invites,         \* ids of invitations, and
    AddressOf,       \* the address each goes to
    Links,           \* ids of links, and
    LinkOf,          \* the invitation each is minted for
    Roles,           \* what an invitation may grant
    Managers,        \* requests that invite
    Invitees,        \* requests of the invited
    InviteSweepers,  \* worker processes, which run the sweep
    NoCaller

ASSUME AddressAssumption == AddressOf \in [Invites -> Addresses]
ASSUME LinkAssumption == LinkOf \in [Links -> Invites]
ASSUME RolesAssumption == Roles # {}
ASSUME NoCallerAssumption == NoCaller \notin Managers \cup Invitees \cup InviteSweepers

Callers == Managers \cup Invitees \cup InviteSweepers

\* What a caller holds between its first read and its commit.
Resting == [at |-> "resting"]
Inserting(e) == [at |-> "inserting", address |-> e]
Refreshing(i, r) == [at |-> "refreshing", invite |-> i, role |-> r]
Claiming(n) == [at |-> "claiming", link |-> n]
Accepting(place, i, r) == [at |-> place, invite |-> i, role |-> r]
Expiring(S) == [at |-> "expiring", invites |-> S]

VARIABLES
    state,        \* state[i]: "none" before it exists, then as in the row
    lapsed,       \* lapsed[i]: whether expires_at has passed
    roleOf,       \* roleOf[i]: the role the row grants, once there is one
    link,         \* link[n]: "unminted", "open", "spent" or "dropped"
    enrolled,     \* the addresses whose user has a passkey
    granted,      \* granted[e]: the live roles of the user in the workspace
    userLock,     \* userLock[e]: who holds the row of the user
    call,         \* call[c]: what caller c holds
    \* History, read by the properties only.
    redeemed,     \* redeemed[n]: how often link n was redeemed
    activations,  \* activations[i]: how often invitation i was activated
    enrolments,   \* enrolments[e]: the passkeys that invitations registered
    late          \* the pairs <<c, i>> where i was settled or refreshed since
                  \* c loaded it

rowVars == <<state, lapsed, roleOf>>
userVars == <<enrolled, granted, userLock>>
pastVars == <<redeemed, activations, enrolments, late>>
inviteVars == <<rowVars, link, userVars, call, pastVars>>

InviteInit ==
    /\ state = [i \in Invites |-> "none"]
    /\ lapsed = [i \in Invites |-> FALSE]
    /\ roleOf = [i \in Invites |-> CHOOSE r \in Roles : TRUE]
    /\ link = [n \in Links |-> "unminted"]
    /\ enrolled \in SUBSET Addresses
    /\ granted = [e \in Addresses |-> {}]
    /\ userLock = [e \in Addresses |-> NoCaller]
    /\ call = [c \in Callers |-> Resting]
    /\ redeemed = [n \in Links |-> 0]
    /\ activations = [i \in Invites |-> 0]
    /\ enrolments = [e \in Addresses |-> 0]
    /\ late = {}

To(c, what) == call' = [call EXCEPT ![c] = what]

Of(e) == {i \in Invites : AddressOf[i] = e}
PendingOf(e) == {i \in Of(e) : state[i] = "pending"}
OpenLinks(i) == {n \in Links : LinkOf[n] = i /\ link[n] = "open"}
Lapsed(i) == state[i] = "pending" /\ lapsed[i]

\* The invitations c has a copy of that its commit will write from.
Copies(c) ==
    IF call[c].at \in {"confirming", "enrolling", "locking"} THEN {call[c].invite}
    ELSE IF call[c].at = "expiring" THEN call[c].invites
    ELSE {}

\* c commits, settling or refreshing the invitations in S.
CommitOver(c, S) ==
    late' = {x \in late : x[1] # c}
            \cup {x \in Callers \X S : x[1] # c /\ x[2] \in Copies(x[1])}

\* c rolls back, or ends having written nothing of the kind.
Ends(c) ==
    /\ To(c, Resting)
    /\ late' = {x \in late : x[1] # c}

-----------------------------------------------------------------------------
(* A manager invites an address.                                           *)

\* _find_existing_invite
InviteLoad(c, e) ==
    /\ call[c] = Resting
    /\ \/ PendingOf(e) = {} /\ To(c, Inserting(e))
       \/ \E i \in PendingOf(e) : To(c, Refreshing(i, roleOf[i]))
    /\ UNCHANGED <<rowVars, link, userVars, pastVars>>

\* A new row and its first link.
InviteInsert(c, i, n, r) ==
    /\ call[c] = Inserting(AddressOf[i])
    /\ PendingOf(AddressOf[i]) = {}
    /\ state[i] = "none" /\ LinkOf[n] = i /\ link[n] = "unminted"
    /\ state' = [state EXCEPT ![i] = "pending"]
    /\ roleOf' = [roleOf EXCEPT ![i] = r]
    /\ link' = [link EXCEPT ![n] = "open"]
    /\ To(c, Resting)
    /\ UNCHANGED <<lapsed, userVars, pastVars>>

\* Another request has inserted a pending row; the constraint refuses this.
InviteRefused(c, e) ==
    /\ call[c] = Inserting(e)
    /\ PendingOf(e) # {}
    /\ To(c, Resting)
    /\ UNCHANGED <<rowVars, link, userVars, pastVars>>

RefreshKeepingLinks(c, i, n, r) ==
    /\ \E old \in Roles :
          /\ call[c] = Refreshing(i, old)
          /\ roleOf' = [roleOf EXCEPT ![i] = IF r = old THEN @ ELSE r]
    /\ LinkOf[n] = i /\ link[n] = "unminted"
    /\ lapsed' = [lapsed EXCEPT ![i] = FALSE]
    /\ link' = [link EXCEPT ![n] = "open"]
    /\ To(c, Resting)
    /\ CommitOver(c, {i})
    /\ UNCHANGED <<state, userVars, redeemed, activations, enrolments>>

\* The loaded row gets a new expiry, and the role unless the copy had it; its
\* open links are deleted, which waits for a redemption in flight, and a new
\* one is minted.  The row's state is not written, whatever it is by now.
InviteRefresh(c, i, n, r) ==
    /\ \E old \in Roles :
          /\ call[c] = Refreshing(i, old)
          /\ roleOf' = [roleOf EXCEPT ![i] = IF r = old THEN @ ELSE r]
    /\ LinkOf[n] = i /\ link[n] = "unminted"
    /\ \A m \in OpenLinks(i), d \in Callers : call[d] # Claiming(m)
    /\ lapsed' = [lapsed EXCEPT ![i] = FALSE]
    /\ link' = [m \in Links |-> IF m = n THEN "open"
                                ELSE IF m \in OpenLinks(i) THEN "dropped" ELSE link[m]]
    /\ To(c, Resting)
    /\ CommitOver(c, {i})
    /\ UNCHANGED <<state, userVars, redeemed, activations, enrolments>>

-----------------------------------------------------------------------------
(* The invitee redeems the link.                                           *)

ClaimLinkUnlocked(c, n) ==
    /\ call[c] = Resting
    /\ link[n] = "open" /\ ~lapsed[LinkOf[n]]
    /\ state[LinkOf[n]] = "pending"
    /\ To(c, Claiming(n))
    /\ UNCHANGED <<rowVars, link, userVars, pastVars>>

\* The UPDATE of an open link, which waits for another claim of it, and the
\* look at the invitation, which must be pending.
ClaimLink(c, n) ==
    /\ call[c] = Resting
    /\ link[n] = "open" /\ ~lapsed[LinkOf[n]]
    /\ \A d \in Callers : call[d] # Claiming(n)
    /\ state[LinkOf[n]] = "pending"
    /\ To(c, Claiming(n))
    /\ UNCHANGED <<rowVars, link, userVars, pastVars>>

\* A new user goes on to enrol, one who is signed in gets the card.
Redeem(c, n) ==
    /\ call[c] = Claiming(n)
    /\ link' = [link EXCEPT ![n] = "spent"]
    /\ redeemed' = [redeemed EXCEPT ![n] = @ + 1]
    /\ To(c, Resting)
    /\ UNCHANGED <<rowVars, userVars, activations, enrolments, late>>

\* An existing user who is not signed in is refused by an exception, which
\* rolls the claim back with everything else.
ReleaseLink(c, n) ==
    /\ call[c] = Claiming(n)
    /\ To(c, Resting)
    /\ UNCHANGED <<rowVars, link, userVars, pastVars>>

-----------------------------------------------------------------------------
(* The invitee accepts.                                                    *)

MayAcceptAny(i) == state[i] # "none" /\ ~lapsed[i]

\* _load_pending_invite_for_accept
MayAccept(i) == state[i] = "pending" /\ ~lapsed[i]

\* confirm_invite of a signed-in user.
ConfirmLoad(c, i) ==
    /\ call[c] = Resting
    /\ MayAccept(i)
    /\ AddressOf[i] \in enrolled
    /\ To(c, Accepting("confirming", i, roleOf[i]))
    /\ UNCHANGED <<rowVars, link, userVars, pastVars>>

\* register_invite_passkey_finish up to the lock: some link of the invitation
\* was redeemed, and the user has no passkey yet.
EnrolLoad(c, i) ==
    /\ call[c] = Resting
    /\ MayAccept(i)
    /\ \E n \in Links : LinkOf[n] = i /\ link[n] = "spent"
    /\ AddressOf[i] \notin enrolled
    /\ To(c, Accepting("enrolling", i, roleOf[i]))
    /\ UNCHANGED <<rowVars, link, userVars, pastVars>>

EnrolLockUnchecked(c, i, r) ==
    /\ call[c] = Accepting("enrolling", i, r)
    /\ userLock[AddressOf[i]] = NoCaller
    /\ userLock' = [userLock EXCEPT ![AddressOf[i]] = c]
    /\ To(c, Accepting("locking", i, r))
    /\ UNCHANGED <<rowVars, link, enrolled, granted, pastVars>>

\* The row of the user is locked and the passkeys are looked at again.
EnrolLock(c, i, r) ==
    /\ call[c] = Accepting("enrolling", i, r)
    /\ userLock[AddressOf[i]] = NoCaller
    /\ AddressOf[i] \notin enrolled
    /\ userLock' = [userLock EXCEPT ![AddressOf[i]] = c]
    /\ To(c, Accepting("locking", i, r))
    /\ UNCHANGED <<rowVars, link, enrolled, granted, pastVars>>

\* What the constraints let through: no live grant of the role, and no other
\* accepted invitation of the address.
Fits(i, r) ==
    /\ r \notin granted[AddressOf[i]]
    /\ \A j \in Of(AddressOf[i]) \ {i} : state[j] # "accepted"

\* _activate_invite with the loaded copy, and the commit.
Activate(i, r) ==
    /\ Fits(i, r)
    /\ granted' = [granted EXCEPT ![AddressOf[i]] = @ \cup {r}]
    /\ state' = [state EXCEPT ![i] = "accepted"]
    /\ activations' = [activations EXCEPT ![i] = @ + 1]

Confirm(c, i, r) ==
    /\ call[c] = Accepting("confirming", i, r)
    /\ Activate(i, r)
    /\ To(c, Resting)
    /\ CommitOver(c, {i})
    /\ UNCHANGED <<lapsed, roleOf, link, enrolled, userLock, redeemed, enrolments>>

\* The passkey and the activation are one transaction.
Enrol(c, i, r) ==
    /\ call[c] = Accepting("locking", i, r)
    /\ Activate(i, r)
    /\ enrolled' = enrolled \cup {AddressOf[i]}
    /\ enrolments' = [enrolments EXCEPT ![AddressOf[i]] = @ + 1]
    /\ userLock' = [userLock EXCEPT ![AddressOf[i]] = NoCaller]
    /\ To(c, Resting)
    /\ CommitOver(c, {i})
    /\ UNCHANGED <<lapsed, roleOf, link, redeemed>>

\* The attestation, a constraint or the connection fails, or the user turns
\* out to have a passkey.
AcceptFails(c, i, r) ==
    /\ \E place \in {"confirming", "enrolling", "locking"} : call[c] = Accepting(place, i, r)
    /\ userLock' = [e \in Addresses |-> IF userLock[e] = c THEN NoCaller ELSE userLock[e]]
    /\ Ends(c)
    /\ UNCHANGED <<rowVars, link, enrolled, granted, redeemed, activations, enrolments>>

-----------------------------------------------------------------------------
(* Time, the sweep, and revocations.                                       *)

Lapse(i) ==
    /\ state[i] = "pending" /\ ~lapsed[i]
    /\ lapsed' = [lapsed EXCEPT ![i] = TRUE]
    /\ UNCHANGED <<state, roleOf, link, userVars, call, pastVars>>

PruneSelectFresh(c) ==
    LET found == {i \in Invites : state[i] = "pending" /\ ~lapsed[i]}
    IN  /\ call[c] = Resting
        /\ found # {}
        /\ To(c, Expiring(found))
        /\ UNCHANGED <<rowVars, link, userVars, pastVars>>

\* The SELECT of prune_stale_invites.
PruneSelect(c) ==
    LET found == {i \in Invites : Lapsed(i)}
    IN  /\ call[c] = Resting
        /\ found # {}
        /\ To(c, Expiring(found))
        /\ UNCHANGED <<rowVars, link, userVars, pastVars>>

\* Another invitation of the address has expired before.
Collides(S) ==
    \E i \in S : \E j \in Of(AddressOf[i]) \ {i} : j \in S \/ state[j] = "expired"

\* The guard on the loaded copies is always true: whatever the rows are by
\* now, they become expired.
PruneCommit(c, S) ==
    /\ call[c] = Expiring(S)
    /\ ~Collides(S)
    /\ state' = [i \in Invites |-> IF i \in S THEN "expired" ELSE state[i]]
    /\ To(c, Resting)
    /\ CommitOver(c, S)
    /\ UNCHANGED <<lapsed, roleOf, link, userVars, redeemed, activations, enrolments>>

\* The constraint refuses one row, and the whole sweep is rolled back.
PruneFails(c, S) ==
    /\ call[c] = Expiring(S)
    /\ Collides(S)
    /\ Ends(c)
    /\ UNCHANGED <<rowVars, link, userVars, redeemed, activations, enrolments>>

\* A manager takes a role away.
RevokeRole(e, r) ==
    /\ r \in granted[e]
    /\ granted' = [granted EXCEPT ![e] = @ \ {r}]
    /\ UNCHANGED <<rowVars, link, enrolled, userLock, call, pastVars>>

-----------------------------------------------------------------------------
ManagerStep(c) ==
    \/ \E e \in Addresses : InviteLoad(c, e) \/ InviteRefused(c, e)
    \/ \E i \in Invites, n \in Links, r \in Roles : InviteInsert(c, i, n, r) \/ InviteRefresh(c, i, n, r)

InviteeStep(c) ==
    \/ \E n \in Links : ClaimLink(c, n) \/ Redeem(c, n) \/ ReleaseLink(c, n)
    \/ \E i \in Invites : ConfirmLoad(c, i) \/ EnrolLoad(c, i)
    \/ \E i \in Invites, r \in Roles :
          EnrolLock(c, i, r) \/ Confirm(c, i, r) \/ Enrol(c, i, r) \/ AcceptFails(c, i, r)

PruneStep(c) ==
    \/ PruneSelect(c)
    \/ \E S \in SUBSET Invites : PruneCommit(c, S) \/ PruneFails(c, S)

InviteNext ==
    \/ \E c \in Managers : ManagerStep(c)
    \/ \E c \in Invitees : InviteeStep(c)
    \/ \E c \in InviteSweepers : PruneStep(c)
    \/ \E i \in Invites : Lapse(i)
    \/ \E e \in Addresses, r \in Roles : RevokeRole(e, r)

\* The sweep is an interval job of every worker process.
InviteFairness == \A c \in InviteSweepers : WF_inviteVars(PruneStep(c))

InviteSpec == InviteInit /\ [][InviteNext]_inviteVars /\ InviteFairness

-----------------------------------------------------------------------------
(* Properties.                                                             *)

InviteTypeOK ==
    /\ state \in [Invites -> {"none", "pending", "accepted", "expired"}]
    /\ lapsed \in [Invites -> BOOLEAN]
    /\ roleOf \in [Invites -> Roles]
    /\ link \in [Links -> {"unminted", "open", "spent", "dropped"}]
    /\ enrolled \in SUBSET Addresses
    /\ granted \in [Addresses -> SUBSET Roles]
    /\ userLock \in [Addresses -> Callers \cup {NoCaller}]
    /\ call \in [Callers ->
          {Resting}
          \cup {Inserting(e) : e \in Addresses}
          \cup {Refreshing(i, r) : i \in Invites, r \in Roles}
          \cup {Claiming(n) : n \in Links}
          \cup {Accepting(p, i, r) : p \in {"confirming", "enrolling", "locking"},
                                     i \in Invites, r \in Roles}
          \cup {Expiring(S) : S \in SUBSET Invites}]
    /\ redeemed \in [Links -> Nat] /\ activations \in [Invites -> Nat]
    /\ enrolments \in [Addresses -> Nat]
    /\ late \in SUBSET (Callers \X Invites)

\* A link is redeemed once, however many present it at once; of the links of
\* an invitation only the latest is open, however requests to invite overlap
\* each other and redemptions; and a pending one has a link that is open or
\* was redeemed, so that the invitee can go on.
LinksAreSingleUse ==
    /\ \A n \in Links : redeemed[n] = IF link[n] = "spent" THEN 1 ELSE 0
    /\ \A m, n \in Links : m # n /\ LinkOf[m] = LinkOf[n] /\ link[m] = "open" => link[n] # "open"
    /\ \A i \in Invites : state[i] = "pending" =>
          \E n \in Links : LinkOf[n] = i /\ link[n] \in {"open", "spent"}

\* However many requests enrol at once, for one invitation or for several of
\* one address, one passkey is registered, with the activation of an
\* invitation whose link was redeemed.
EnrolmentIsProven ==
    \A e \in Addresses : enrolments[e] # 0 =>
        /\ enrolments[e] = 1 /\ e \in enrolled
        /\ \E i \in Of(e) : activations[i] # 0 /\ \E n \in Links : LinkOf[n] = i /\ redeemed[n] = 1

\* An invitation expires only past its time, and once accepted or expired it
\* neither changes nor is activated again, except by a request or a sweep
\* that loaded it before it was last settled or refreshed.
SettledIsLeftByLate ==
    [][\A i \in Invites :
          \/ state[i] \in {"none", "pending"} /\ state'[i] # "expired" /\ activations[i] = 0
          \/ Lapsed(i) /\ activations[i] = 0
          \/ state'[i] = state[i] /\ activations'[i] = activations[i]
          \/ \E c \in Callers : <<c, i>> \in late /\ call[c] # Resting /\ call'[c] = Resting
      ]_inviteVars

\* An invitation that nobody accepts in time is expired, unless an address
\* has one that expired before it, which stops the sweep.
LapsedAreExpired ==
    \A i \in Invites :
        Lapsed(i) ~> ~Lapsed(i) \/ \E j \in Invites : Lapsed(j) /\ Collides({j})

\* What the scheduler and the specification say of the sweep: within a tick of
\* its time an invitation is no longer shown as pending.
LapsedIsExpired == \A i \in Invites : Lapsed(i) ~> ~Lapsed(i)
=============================================================================
