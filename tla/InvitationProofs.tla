-------------------------- MODULE InvitationProofs --------------------------
(***************************************************************************)
(* Proofs about Invitation, for any addresses, invitations, links, roles   *)
(* and requests: links are single use, an enrolment follows a redemption,  *)
(* and what is settled is disturbed only by those who loaded it before.    *)
(***************************************************************************)
EXTENDS MCDecisions, ApprovalProofs

-----------------------------------------------------------------------------
(* The inductive invariant.                                                *)

\* An invitation is inserted before its links are minted and its row is loaded.
RowsComeFirst ==
    /\ \A n \in Links : link[n] # "unminted" => state[LinkOf[n]] # "none"
    /\ \A c \in Callers, i \in Invites, r \in Roles :
          call[c] = Refreshing(i, r) => state[i] # "none"

\* The UPDATE of a link is that of one request, and finds the link open.
ClaimsAreOpen ==
    \A c \in Callers, n \in Links : call[c] = Claiming(n) =>
        /\ link[n] = "open"
        /\ \A d \in Callers : call[d] = Claiming(n) => d = c

\* Who enrols came with a redeemed link.
EnrollersRedeemed ==
    \A c \in Callers, i \in Invites, r \in Roles :
        call[c] \in {Accepting("enrolling", i, r), Accepting("locking", i, r)} =>
            \E n \in Links : LinkOf[n] = i /\ link[n] = "spent"

\* Past the lock, the passkeys stay as they were looked at.
LockersHold ==
    \A c \in Callers, i \in Invites, r \in Roles :
        call[c] = Accepting("locking", i, r) =>
            userLock[AddressOf[i]] = c /\ AddressOf[i] \notin enrolled

\* What nobody settled was not activated.
OpenAreInactive ==
    \A i \in Invites : state[i] \in {"none", "pending"} => activations[i] = 0

\* A copy is of a pending invitation, unless a later commit is remembered.
CopiesAreCurrent ==
    \A c \in Callers, i \in Invites : i \in Copies(c) /\ <<c, i>> \notin late =>
        /\ state[i] = "pending"
        /\ call[c].at = "expiring" => lapsed[i]

InviteIInv ==
    /\ InviteTypeOK
    /\ RowsComeFirst
    /\ ClaimsAreOpen
    /\ LinksAreSingleUse
    /\ EnrollersRedeemed
    /\ LockersHold
    /\ EnrolmentIsProven
    /\ OpenAreInactive
    /\ CopiesAreCurrent

-----------------------------------------------------------------------------
(* Facts.                                                                  *)

\* What callers hold is told apart by its label and carries what it was given.
LEMMA HeldFacts ==
    /\ Resting.at = "resting"
    /\ \A e : Inserting(e).at = "inserting"
    /\ \A i, r : Refreshing(i, r).at = "refreshing" /\ Refreshing(i, r).invite = i
    /\ \A n : Claiming(n).at = "claiming" /\ Claiming(n).link = n
    /\ \A p, i, r : Accepting(p, i, r).at = p /\ Accepting(p, i, r).invite = i
    /\ \A S : Expiring(S).at = "expiring" /\ Expiring(S).invites = S
BY DEF Resting, Inserting, Refreshing, Claiming, Accepting, Expiring

\* The copies that the holder of each has.
LEMMA CopyFacts ==
    ASSUME NEW c \in Callers
    PROVE  /\ \A i, r : \A p \in {"confirming", "enrolling", "locking"} :
                 call[c] = Accepting(p, i, r) => Copies(c) = {i}
           /\ \A S : call[c] = Expiring(S) => Copies(c) = S
           /\ call[c].at \in {"resting", "inserting", "refreshing", "claiming"} => Copies(c) = {}
BY HeldFacts DEF Copies

\* A commit over S leaves no copy of a member of S unremembered.
LEMMA LateFacts ==
    ASSUME InviteTypeOK,
           NEW d \in Callers, NEW S \in SUBSET Invites, CommitOver(d, S),
           NEW c \in Callers, c # d, NEW i \in Copies(c), <<c, i>> \notin late'
    PROVE  i \notin S /\ <<c, i>> \notin late
<1>1. <<c, i>> \notin late
    BY DEF CommitOver
<1>2. i \notin S
    <2>1. SUFFICES ASSUME i \in S PROVE FALSE
        OBVIOUS
    <2>2. <<c, i>> \in {x \in Callers \X S : x[1] # d /\ x[2] \in Copies(x[1])}
        BY <2>1
    <2> QED
        BY <2>2 DEF CommitOver
<1> QED
    BY <1>1, <1>2

\* The steps of one caller, and all kinds of step.
StepOf(c) ==
    \/ \E e \in Addresses : InviteLoad(c, e) \/ InviteRefused(c, e)
    \/ \E i \in Invites, n \in Links, r \in Roles :
          InviteInsert(c, i, n, r) \/ InviteRefresh(c, i, n, r)
    \/ \E n \in Links : ClaimLink(c, n) \/ Redeem(c, n) \/ ReleaseLink(c, n)
    \/ \E i \in Invites : ConfirmLoad(c, i) \/ EnrolLoad(c, i)
    \/ \E i \in Invites, r \in Roles :
          EnrolLock(c, i, r) \/ Confirm(c, i, r) \/ Enrol(c, i, r) \/ AcceptFails(c, i, r)
    \/ PruneSelect(c)
    \/ \E S \in SUBSET Invites : PruneCommit(c, S) \/ PruneFails(c, S)

LEMMA StepCases ==
    ASSUME [InviteNext]_inviteVars
    PROVE  \/ \E c \in Callers : StepOf(c)
           \/ \E i \in Invites : Lapse(i)
           \/ \E e \in Addresses, r \in Roles : RevokeRole(e, r)
           \/ UNCHANGED inviteVars
BY DEF InviteNext, ManagerStep, InviteeStep, PruneStep, Callers, StepOf

\* What callers may hold.
Held ==
    {Resting}
    \cup {Inserting(e) : e \in Addresses}
    \cup {Refreshing(i, r) : i \in Invites, r \in Roles}
    \cup {Claiming(n) : n \in Links}
    \cup {Accepting(p, i, r) : p \in {"confirming", "enrolling", "locking"}, i \in Invites, r \in Roles}
    \cup {Expiring(S) : S \in SUBSET Invites}

LEMMA HeldTypes ==
    /\ Resting \in Held
    /\ \A e \in Addresses : Inserting(e) \in Held
    /\ \A i \in Invites, r \in Roles : Refreshing(i, r) \in Held
    /\ \A n \in Links : Claiming(n) \in Held
    /\ \A p \in {"confirming", "enrolling", "locking"}, i \in Invites, r \in Roles :
          Accepting(p, i, r) \in Held
    /\ \A S \in SUBSET Invites : Expiring(S) \in Held
BY DEF Held

\* The record of late callers keeps its type.
LEMMA LateTypes ==
    ASSUME InviteTypeOK, NEW c
    PROVE  /\ \A S \in SUBSET Invites : CommitOver(c, S) => late' \in SUBSET (Callers \X Invites)
           /\ Ends(c) => late' \in SUBSET (Callers \X Invites)
BY DEF InviteTypeOK, CommitOver, Ends

-----------------------------------------------------------------------------
(* Types.                                                                  *)

LEMMA InviteInitInv == InviteInit => InviteIInv
<1> SUFFICES ASSUME InviteInit PROVE InviteIInv
    OBVIOUS
<1>1. \A c \in Callers : call[c] = Resting /\ call[c].at = "resting" /\ Copies(c) = {}
    BY HeldFacts, CopyFacts DEF InviteInit
<1>2. (CHOOSE r \in Roles : TRUE) \in Roles
    BY RolesAssumption
<1>3. InviteTypeOK
    <2>1. call \in [Callers -> Held]
        BY HeldTypes DEF InviteInit
    <2> QED
        BY <1>2, <2>1 DEF InviteInit, InviteTypeOK, Held
<1>4. RowsComeFirst /\ ClaimsAreOpen /\ EnrollersRedeemed /\ LockersHold
    BY <1>1, HeldFacts DEF InviteInit, RowsComeFirst, ClaimsAreOpen, EnrollersRedeemed, LockersHold
<1>5. LinksAreSingleUse /\ EnrolmentIsProven /\ OpenAreInactive
    BY DEF InviteInit, LinksAreSingleUse, EnrolmentIsProven, OpenAreInactive
<1>6. CopiesAreCurrent
    BY <1>1 DEF CopiesAreCurrent
<1> QED
    BY <1>3, <1>4, <1>5, <1>6 DEF InviteIInv

LEMMA InviteTypeStep == InviteTypeOK /\ [InviteNext]_inviteVars => InviteTypeOK'
<1> SUFFICES ASSUME InviteTypeOK, [InviteNext]_inviteVars PROVE InviteTypeOK'
    OBVIOUS
<1>0. call \in [Callers -> Held]
    BY DEF InviteTypeOK, Held
<1>1. ASSUME NEW h \in Held, NEW c \in Callers, To(c, h) PROVE call' \in [Callers -> Held]
    BY <1>0, <1>1 DEF To
<1>2. ASSUME call' \in [Callers -> Held], UNCHANGED <<rowVars, link, userVars, pastVars>>
      PROVE  InviteTypeOK'
    BY <1>2 DEF InviteTypeOK, Held, rowVars, userVars, pastVars
<1> USE DEF rowVars, userVars, pastVars
<1>3. ASSUME NEW c \in Callers, NEW e \in Addresses, InviteLoad(c, e) \/ InviteRefused(c, e)
      PROVE  InviteTypeOK'
    <2>1. \A i \in PendingOf(e) : roleOf[i] \in Roles /\ i \in Invites
        BY DEF PendingOf, Of, InviteTypeOK
    <2>2. call' \in [Callers -> Held]
        BY <1>1, <1>3, <2>1, HeldTypes DEF InviteLoad, InviteRefused
    <2> QED
        BY <1>2, <1>3, <2>2 DEF InviteLoad, InviteRefused
<1>4. ASSUME NEW c \in Callers, NEW i \in Invites, NEW n \in Links, NEW r \in Roles, InviteInsert(c, i, n, r)
      PROVE  InviteTypeOK'
    <2>1. call' \in [Callers -> Held]
        BY <1>1, <1>4, HeldTypes DEF InviteInsert
    <2> QED
        BY <1>4, <2>1 DEF InviteInsert, InviteTypeOK, Held
<1>5. ASSUME NEW c \in Callers, NEW i \in Invites, NEW n \in Links, NEW r \in Roles, InviteRefresh(c, i, n, r)
      PROVE  InviteTypeOK'
    <2>1. call' \in [Callers -> Held]
        BY <1>1, <1>5, HeldTypes DEF InviteRefresh
    <2>2. late' \in SUBSET (Callers \X Invites)
        BY <1>5, LateTypes DEF InviteRefresh
    <2> QED
        BY <1>5, <2>1, <2>2 DEF InviteRefresh, InviteTypeOK, Held
<1>6. ASSUME NEW c \in Callers, NEW n \in Links, ClaimLink(c, n) \/ ReleaseLink(c, n)
      PROVE  InviteTypeOK'
    <2>1. call' \in [Callers -> Held]
        BY <1>1, <1>6, HeldTypes DEF ClaimLink, ReleaseLink
    <2> QED
        BY <1>2, <1>6, <2>1 DEF ClaimLink, ReleaseLink
<1>7. ASSUME NEW c \in Callers, NEW n \in Links, Redeem(c, n) PROVE InviteTypeOK'
    <2>1. call' \in [Callers -> Held]
        BY <1>1, <1>7, HeldTypes DEF Redeem
    <2> QED
        BY <1>7, <2>1 DEF Redeem, InviteTypeOK, Held
<1>8. ASSUME NEW c \in Callers, NEW i \in Invites, ConfirmLoad(c, i) \/ EnrolLoad(c, i)
      PROVE  InviteTypeOK'
    <2>1. roleOf[i] \in Roles
        BY DEF InviteTypeOK
    <2>2. call' \in [Callers -> Held]
        BY <1>1, <1>8, <2>1, HeldTypes DEF ConfirmLoad, EnrolLoad
    <2> QED
        BY <1>2, <1>8, <2>2 DEF ConfirmLoad, EnrolLoad
<1>9. ASSUME NEW c \in Callers, NEW i \in Invites, NEW r \in Roles, EnrolLock(c, i, r)
      PROVE  InviteTypeOK'
    <2>1. call' \in [Callers -> Held]
        BY <1>1, <1>9, HeldTypes DEF EnrolLock
    <2>2. userLock' \in [Addresses -> Callers \cup {NoCaller}]
        <3>1. userLock \in [Addresses -> Callers \cup {NoCaller}]
            BY DEF InviteTypeOK
        <3>2. userLock' = [userLock EXCEPT ![AddressOf[i]] = c]
            BY <1>9 DEF EnrolLock
        <3> QED
            BY <3>1, <3>2
    <2> QED
        BY <1>9, <2>1, <2>2 DEF EnrolLock, InviteTypeOK, Held
<1>10. ASSUME NEW c \in Callers, NEW i \in Invites, NEW r \in Roles, Confirm(c, i, r)
      PROVE  InviteTypeOK'
    <2>1. call' \in [Callers -> Held]
        BY <1>1, <1>10, HeldTypes DEF Confirm
    <2>2. late' \in SUBSET (Callers \X Invites)
        BY <1>10, LateTypes DEF Confirm
    <2>3. AddressOf[i] \in Addresses
        BY AddressAssumption
    <2> QED
        BY <1>10, <2>1, <2>2, <2>3 DEF Confirm, Activate, InviteTypeOK, Held
<1>11. ASSUME NEW c \in Callers, NEW i \in Invites, NEW r \in Roles, Enrol(c, i, r)
      PROVE  InviteTypeOK'
    <2>1. call' \in [Callers -> Held]
        BY <1>1, <1>11, HeldTypes DEF Enrol
    <2>2. late' \in SUBSET (Callers \X Invites)
        BY <1>11, LateTypes DEF Enrol
    <2>3. AddressOf[i] \in Addresses
        BY AddressAssumption
    <2> QED
        BY <1>11, <2>1, <2>2, <2>3 DEF Enrol, Activate, InviteTypeOK, Held
<1>12. ASSUME NEW c \in Callers, NEW i \in Invites, NEW r \in Roles, AcceptFails(c, i, r)
      PROVE  InviteTypeOK'
    <2>1. call' \in [Callers -> Held]
        BY <1>1, <1>12, HeldTypes DEF AcceptFails, Ends
    <2>2. late' \in SUBSET (Callers \X Invites)
        BY <1>12, LateTypes DEF AcceptFails
    <2> QED
        BY <1>12, <2>1, <2>2 DEF AcceptFails, InviteTypeOK, Held
<1>13. ASSUME NEW c \in Callers, PruneSelect(c) PROVE InviteTypeOK'
    <2>1. call' \in [Callers -> Held]
        BY <1>1, <1>13, HeldTypes DEF PruneSelect
    <2> QED
        BY <1>2, <1>13, <2>1 DEF PruneSelect
<1>14. ASSUME NEW c \in Callers, NEW S \in SUBSET Invites, PruneCommit(c, S) \/ PruneFails(c, S)
      PROVE  InviteTypeOK'
    <2>1. call' \in [Callers -> Held]
        BY <1>1, <1>14, HeldTypes DEF PruneCommit, PruneFails, Ends
    <2>2. late' \in SUBSET (Callers \X Invites)
        BY <1>14, LateTypes DEF PruneCommit, PruneFails
    <2> QED
        BY <1>14, <2>1, <2>2 DEF PruneCommit, PruneFails, InviteTypeOK, Held
<1>15. ASSUME NEW i \in Invites, Lapse(i) PROVE InviteTypeOK'
    BY <1>0, <1>15 DEF Lapse, InviteTypeOK, Held
<1>16. ASSUME NEW e \in Addresses, NEW r \in Roles, RevokeRole(e, r) PROVE InviteTypeOK'
    BY <1>0, <1>16 DEF RevokeRole, InviteTypeOK, Held
<1>17. CASE UNCHANGED inviteVars
    BY <1>0, <1>2, <1>17 DEF inviteVars
<1> QED
    BY <1>3, <1>4, <1>5, <1>6, <1>7, <1>8, <1>9, <1>10, <1>11, <1>12, <1>13, <1>14, <1>15,
       <1>16, <1>17, StepCases DEF StepOf

-----------------------------------------------------------------------------
(* What the steps leave alone.                                             *)

LEMMA OthersKeep ==
    ASSUME InviteTypeOK, NEW d \in Callers, StepOf(d), NEW c \in Callers, c # d
    PROVE  call'[c] = call[c]
<1>1. ASSUME NEW h, To(d, h) PROVE call'[c] = call[c]
    BY <1>1 DEF To, InviteTypeOK
<1>2. ASSUME NEW e \in Addresses, InviteLoad(d, e) \/ InviteRefused(d, e) PROVE call'[c] = call[c]
    BY <1>1, <1>2 DEF InviteLoad, InviteRefused
<1>3. ASSUME NEW i \in Invites, NEW n \in Links, NEW r \in Roles,
             InviteInsert(d, i, n, r) \/ InviteRefresh(d, i, n, r)
      PROVE  call'[c] = call[c]
    BY <1>1, <1>3 DEF InviteInsert, InviteRefresh
<1>4. ASSUME NEW n \in Links, ClaimLink(d, n) \/ Redeem(d, n) \/ ReleaseLink(d, n)
      PROVE  call'[c] = call[c]
    BY <1>1, <1>4 DEF ClaimLink, Redeem, ReleaseLink
<1>5. ASSUME NEW i \in Invites, ConfirmLoad(d, i) \/ EnrolLoad(d, i) PROVE call'[c] = call[c]
    BY <1>1, <1>5 DEF ConfirmLoad, EnrolLoad
<1>6. ASSUME NEW i \in Invites, NEW r \in Roles,
             EnrolLock(d, i, r) \/ Confirm(d, i, r) \/ Enrol(d, i, r) \/ AcceptFails(d, i, r)
      PROVE  call'[c] = call[c]
    BY <1>1, <1>6 DEF EnrolLock, Confirm, Enrol, AcceptFails, Ends
<1>7. ASSUME PruneSelect(d) PROVE call'[c] = call[c]
    BY <1>1, <1>7 DEF PruneSelect
<1>8. ASSUME NEW S \in SUBSET Invites, PruneCommit(d, S) \/ PruneFails(d, S)
      PROVE  call'[c] = call[c]
    BY <1>1, <1>8 DEF PruneCommit, PruneFails, Ends
<1> QED
    BY <1>2, <1>3, <1>4, <1>5, <1>6, <1>7, <1>8 DEF StepOf

\* A caller's own step changes what it holds.
LEMMA MoverFacts ==
    ASSUME InviteTypeOK, [InviteNext]_inviteVars, NEW c \in Callers, call'[c] # call[c]
    PROVE  StepOf(c)
BY StepCases, OthersKeep DEF Lapse, RevokeRole, inviteVars

\* What a caller holds after its step tells which step it was.
LEMMA LabelFacts ==
    ASSUME InviteTypeOK, NEW c \in Callers, StepOf(c)
    PROVE  /\ call'[c].at = "refreshing" => \E e \in Addresses : InviteLoad(c, e)
           /\ call'[c].at = "confirming" => \E i \in Invites : ConfirmLoad(c, i)
           /\ call'[c].at = "enrolling" => \E i \in Invites : EnrolLoad(c, i)
           /\ call'[c].at = "locking" => \E i \in Invites, r \in Roles : EnrolLock(c, i, r)
           /\ call'[c].at = "expiring" => PruneSelect(c)
<1>0. \A h : To(c, h) => call'[c] = h
    BY DEF To, InviteTypeOK
<1>1. ASSUME NEW e \in Addresses, InviteLoad(c, e) PROVE call'[c].at \in {"inserting", "refreshing"}
    BY <1>0, <1>1, HeldFacts DEF InviteLoad
<1>2. ASSUME NEW e \in Addresses, InviteRefused(c, e) PROVE call'[c].at = "resting"
    BY <1>0, <1>2, HeldFacts DEF InviteRefused
<1>3. ASSUME NEW i \in Invites, NEW n \in Links, NEW r \in Roles,
             InviteInsert(c, i, n, r) \/ InviteRefresh(c, i, n, r)
      PROVE  call'[c].at = "resting"
    BY <1>0, <1>3, HeldFacts DEF InviteInsert, InviteRefresh
<1>4. ASSUME NEW n \in Links, ClaimLink(c, n) \/ Redeem(c, n) \/ ReleaseLink(c, n)
      PROVE  call'[c].at \in {"resting", "claiming"}
    BY <1>0, <1>4, HeldFacts DEF ClaimLink, Redeem, ReleaseLink
<1>5. ASSUME NEW i \in Invites, ConfirmLoad(c, i) PROVE call'[c].at = "confirming"
    BY <1>0, <1>5, HeldFacts DEF ConfirmLoad
<1>6. ASSUME NEW i \in Invites, EnrolLoad(c, i) PROVE call'[c].at = "enrolling"
    BY <1>0, <1>6, HeldFacts DEF EnrolLoad
<1>7. ASSUME NEW i \in Invites, NEW r \in Roles, EnrolLock(c, i, r) PROVE call'[c].at = "locking"
    BY <1>0, <1>7, HeldFacts DEF EnrolLock
<1>8. ASSUME NEW i \in Invites, NEW r \in Roles,
             Confirm(c, i, r) \/ Enrol(c, i, r) \/ AcceptFails(c, i, r)
      PROVE  call'[c].at = "resting"
    BY <1>0, <1>8, HeldFacts DEF Confirm, Enrol, AcceptFails, Ends
<1>9. ASSUME PruneSelect(c) PROVE call'[c].at = "expiring"
    BY <1>0, <1>9, HeldFacts DEF PruneSelect
<1>10. ASSUME NEW S \in SUBSET Invites, PruneCommit(c, S) \/ PruneFails(c, S)
       PROVE  call'[c].at = "resting"
    BY <1>0, <1>10, HeldFacts DEF PruneCommit, PruneFails, Ends
<1> QED
    BY <1>1, <1>2, <1>3, <1>4, <1>5, <1>6, <1>7, <1>8, <1>9, <1>10 DEF StepOf

\* Only managers mint and drop links, and only the invited claim them.
LEMMA LinkFrame ==
    ASSUME InviteTypeOK, [InviteNext]_inviteVars,
           \A c \in Callers, i \in Invites, n \in Links, r \in Roles :
              ~InviteInsert(c, i, n, r) /\ ~InviteRefresh(c, i, n, r),
           \A c \in Callers, n \in Links : ~ClaimLink(c, n) /\ ~Redeem(c, n)
    PROVE  /\ link' = link /\ redeemed' = redeemed
           /\ \A i \in Invites : state'[i] \in {"none", "pending"} => state'[i] = state[i]
           /\ \A i \in Invites : state[i] # "none" => state'[i] # "none"
           /\ \A c \in Callers, n \in Links : call'[c] = Claiming(n) => call[c] = Claiming(n)
<1> DEFINE Kept == /\ link' = link /\ redeemed' = redeemed
                   /\ \A i \in Invites : state'[i] \in {"none", "pending"} => state'[i] = state[i]
                   /\ \A i \in Invites : state[i] # "none" => state'[i] # "none"
<1> USE DEF rowVars, userVars, pastVars
<1>1. ASSUME NEW d \in Callers, StepOf(d)
      PROVE  Kept /\ \A n \in Links : call'[d] # Claiming(n)
    <2> USE HeldFacts DEF To, InviteTypeOK
    <2>1. ASSUME NEW e \in Addresses, InviteLoad(d, e) \/ InviteRefused(d, e)
          PROVE  Kept /\ \A n \in Links : call'[d] # Claiming(n)
        BY <2>1 DEF InviteLoad, InviteRefused
    <2>2. ASSUME NEW n \in Links, ReleaseLink(d, n)
          PROVE  Kept /\ \A m \in Links : call'[d] # Claiming(m)
        BY <2>2 DEF ReleaseLink
    <2>3. ASSUME NEW i \in Invites, ConfirmLoad(d, i) \/ EnrolLoad(d, i)
          PROVE  Kept /\ \A n \in Links : call'[d] # Claiming(n)
        <3>1. call'[d].at \in {"confirming", "enrolling"}
            BY <2>3 DEF ConfirmLoad, EnrolLoad
        <3>2. Kept
            BY <2>3 DEF ConfirmLoad, EnrolLoad
        <3> QED
            BY <3>1, <3>2
    <2>4. ASSUME NEW i \in Invites, NEW r \in Roles, EnrolLock(d, i, r) \/ AcceptFails(d, i, r)
          PROVE  Kept /\ \A n \in Links : call'[d] # Claiming(n)
        BY <2>4 DEF EnrolLock, AcceptFails, Ends
    <2>5. ASSUME NEW i \in Invites, NEW r \in Roles, Confirm(d, i, r) \/ Enrol(d, i, r)
          PROVE  Kept /\ \A n \in Links : call'[d] # Claiming(n)
        BY <2>5 DEF Confirm, Enrol, Activate
    <2>6. ASSUME PruneSelect(d)
          PROVE  Kept /\ \A n \in Links : call'[d] # Claiming(n)
        BY <2>6 DEF PruneSelect
    <2>7. ASSUME NEW S \in SUBSET Invites, PruneCommit(d, S) \/ PruneFails(d, S)
          PROVE  Kept /\ \A n \in Links : call'[d] # Claiming(n)
        BY <2>7 DEF PruneCommit, PruneFails, Ends
    <2> QED
        BY <1>1, <2>1, <2>2, <2>3, <2>4, <2>5, <2>6, <2>7 DEF StepOf
<1>2. ASSUME NEW i \in Invites, Lapse(i) PROVE Kept /\ call' = call
    BY <1>2 DEF Lapse
<1>3. ASSUME NEW e \in Addresses, NEW r \in Roles, RevokeRole(e, r) PROVE Kept /\ call' = call
    BY <1>3 DEF RevokeRole
<1>4. CASE UNCHANGED inviteVars
    BY <1>4 DEF inviteVars
<1> QED
    BY <1>1, <1>2, <1>3, <1>4, StepCases, OthersKeep

\* Rows are not deleted, and a redemption is not undone.
LEMMA Persistence ==
    ASSUME InviteIInv, [InviteNext]_inviteVars
    PROVE  /\ \A i \in Invites : state[i] # "none" => state'[i] # "none"
           /\ \A n \in Links : link[n] = "spent" => link'[n] = "spent"
<1> USE DEF InviteIInv, InviteTypeOK, rowVars, userVars, pastVars
<1>1. ASSUME NEW c \in Callers, NEW i \in Invites, NEW n \in Links, NEW r \in Roles, InviteInsert(c, i, n, r)
      PROVE  /\ \A j \in Invites : state[j] # "none" => state'[j] # "none"
             /\ \A m \in Links : link[m] = "spent" => link'[m] = "spent"
    BY <1>1 DEF InviteInsert
<1>2. ASSUME NEW c \in Callers, NEW i \in Invites, NEW n \in Links, NEW r \in Roles, InviteRefresh(c, i, n, r)
      PROVE  /\ \A j \in Invites : state[j] # "none" => state'[j] # "none"
             /\ \A m \in Links : link[m] = "spent" => link'[m] = "spent"
    BY <1>2 DEF InviteRefresh, OpenLinks
<1>3. ASSUME NEW c \in Callers, NEW n \in Links, ClaimLink(c, n) \/ Redeem(c, n)
      PROVE  /\ \A j \in Invites : state[j] # "none" => state'[j] # "none"
             /\ \A m \in Links : link[m] = "spent" => link'[m] = "spent"
    BY <1>3 DEF ClaimLink, Redeem
<1>4. CASE /\ \A c \in Callers, i \in Invites, n \in Links, r \in Roles :
                 ~InviteInsert(c, i, n, r) /\ ~InviteRefresh(c, i, n, r)
           /\ \A c \in Callers, n \in Links : ~ClaimLink(c, n) /\ ~Redeem(c, n)
    <2>1. InviteTypeOK
        BY DEF InviteIInv
    <2> HIDE DEF InviteIInv, InviteTypeOK, rowVars, userVars, pastVars
    <2>2. link' = link /\ \A i \in Invites : state[i] # "none" => state'[i] # "none"
        BY <1>4, <2>1, LinkFrame
    <2> QED
        BY <2>2
<1> QED
    BY <1>1, <1>2, <1>3, <1>4

-----------------------------------------------------------------------------
(* Links.                                                                  *)

LEMMA RowsComeFirstStep == InviteIInv /\ [InviteNext]_inviteVars => RowsComeFirst'
<1> SUFFICES ASSUME InviteIInv, [InviteNext]_inviteVars PROVE RowsComeFirst'
    OBVIOUS
<1> USE DEF rowVars, userVars, pastVars
<1>0. InviteTypeOK /\ RowsComeFirst
    BY DEF InviteIInv
<1>1. \A n \in Links : link'[n] # "unminted" => state'[LinkOf[n]] # "none"
    <2>1. SUFFICES ASSUME NEW n \in Links, link'[n] # "unminted" PROVE state'[LinkOf[n]] # "none"
        OBVIOUS
    <2>2. LinkOf[n] \in Invites
        BY LinkAssumption
    <2>3. CASE link[n] # "unminted"
        BY <1>0, <2>2, <2>3, Persistence DEF RowsComeFirst
    <2>4. ASSUME link[n] = "unminted",
                 NEW c \in Callers, NEW i \in Invites, NEW m \in Links, NEW r \in Roles, InviteInsert(c, i, m, r)
          PROVE  state'[LinkOf[n]] # "none"
        BY <1>0, <2>1, <2>2, <2>4 DEF InviteInsert, InviteTypeOK
    <2>5. ASSUME link[n] = "unminted",
                 NEW c \in Callers, NEW i \in Invites, NEW m \in Links, NEW r \in Roles, InviteRefresh(c, i, m, r)
          PROVE  state'[LinkOf[n]] # "none"
        <3>1. m = n /\ LinkOf[m] = i
            BY <1>0, <2>1, <2>5 DEF InviteRefresh, InviteTypeOK, OpenLinks
        <3>2. state[i] # "none"
            BY <1>0, <2>5 DEF InviteRefresh, RowsComeFirst
        <3> QED
            BY <3>1, <3>2, Persistence
    <2>6. ASSUME NEW c \in Callers, NEW m \in Links, ClaimLink(c, m) \/ Redeem(c, m), link[n] = "unminted"
          PROVE  FALSE
        <3>1. link[m] = "open"
            BY <2>6 DEF ClaimLink, Redeem, ClaimsAreOpen, InviteIInv
        <3> QED
            BY <1>0, <2>1, <2>6, <3>1 DEF ClaimLink, Redeem, InviteTypeOK
    <2> QED
        BY <1>0, <2>1, <2>3, <2>4, <2>5, <2>6, LinkFrame
<1>2. \A c \in Callers, i \in Invites, r \in Roles : call'[c] = Refreshing(i, r) => state'[i] # "none"
    <2>1. SUFFICES ASSUME NEW c \in Callers, NEW i \in Invites, NEW r \in Roles, call'[c] = Refreshing(i, r)
                   PROVE  state[i] # "none"
        BY Persistence
    <2>2. CASE call[c] = Refreshing(i, r)
        BY <1>0, <2>2 DEF RowsComeFirst
    <2>3. CASE call[c] # Refreshing(i, r)
        <3>1. call'[c].at = "refreshing"
            BY <2>1, HeldFacts
        <3>2. StepOf(c)
            BY <1>0, <2>1, <2>3, MoverFacts
        <3>3. \E e \in Addresses : InviteLoad(c, e)
            BY <1>0, <3>1, <3>2, LabelFacts
        <3>4. PICK e \in Addresses : InviteLoad(c, e)
            BY <3>3
        <3>5. PICK j \in PendingOf(e) : To(c, Refreshing(j, roleOf[j]))
            <4>1. ~To(c, Inserting(e))
                BY <1>0, <3>1, HeldFacts DEF To, InviteTypeOK
            <4> QED
                BY <3>4, <4>1 DEF InviteLoad
        <3>6. j = i
            BY <1>0, <2>1, <3>5, HeldFacts DEF To, InviteTypeOK
        <3> QED
            BY <3>5, <3>6 DEF PendingOf
    <2> QED
        BY <2>2, <2>3
<1> QED
    BY <1>1, <1>2 DEF RowsComeFirst

LEMMA ClaimsAreOpenStep == InviteIInv /\ [InviteNext]_inviteVars => ClaimsAreOpen'
<1> SUFFICES ASSUME InviteIInv, [InviteNext]_inviteVars PROVE ClaimsAreOpen'
    OBVIOUS
<1> USE DEF rowVars, userVars, pastVars
<1>0. InviteTypeOK /\ ClaimsAreOpen
    BY DEF InviteIInv
<1>1. ASSUME NEW c \in Callers, NEW i \in Invites, NEW n \in Links, NEW r \in Roles, InviteInsert(c, i, n, r)
      PROVE  ClaimsAreOpen'
    <2>1. \A d \in Callers, m \in Links : call'[d] = Claiming(m) => call[d] = Claiming(m)
        BY <1>0, <1>1, HeldFacts DEF InviteInsert, To, InviteTypeOK
    <2>2. \A m \in Links : link[m] = "open" => link'[m] = "open"
        BY <1>0, <1>1 DEF InviteInsert, InviteTypeOK
    <2> QED
        BY <1>0, <2>1, <2>2 DEF ClaimsAreOpen
<1>2. ASSUME NEW c \in Callers, NEW i \in Invites, NEW n \in Links, NEW r \in Roles, InviteRefresh(c, i, n, r)
      PROVE  ClaimsAreOpen'
    <2>1. \A d \in Callers, m \in Links : call'[d] = Claiming(m) => call[d] = Claiming(m)
        BY <1>0, <1>2, HeldFacts DEF InviteRefresh, To, InviteTypeOK
    <2>2. \A d \in Callers, m \in Links : call[d] = Claiming(m) => link'[m] = link[m]
        BY <1>0, <1>2 DEF InviteRefresh, InviteTypeOK, ClaimsAreOpen
    <2> QED
        BY <1>0, <2>1, <2>2 DEF ClaimsAreOpen
<1>3. ASSUME NEW c \in Callers, NEW n \in Links, ClaimLink(c, n) PROVE ClaimsAreOpen'
    <2>1. /\ link' = link /\ link[n] = "open"
          /\ \A d \in Callers : call[d] # Claiming(n)
          /\ call'[c] = Claiming(n)
          /\ \A d \in Callers \ {c} : call'[d] = call[d]
        BY <1>0, <1>3 DEF ClaimLink, To, InviteTypeOK
    <2>2. \A m \in Links : Claiming(m) = Claiming(n) => m = n
        BY HeldFacts
    <2> QED
        BY <1>0, <2>1, <2>2 DEF ClaimsAreOpen
<1>4. ASSUME NEW c \in Callers, NEW n \in Links, Redeem(c, n) PROVE ClaimsAreOpen'
    <2>1. /\ \A m \in Links \ {n} : link'[m] = link[m]
          /\ call[c] = Claiming(n) /\ call'[c] = Resting
          /\ \A d \in Callers \ {c} : call'[d] = call[d]
        BY <1>0, <1>4 DEF Redeem, To, InviteTypeOK
    <2>2. \A d \in Callers, m \in Links : call'[d] = Claiming(m) => d # c /\ call[d] = Claiming(m) /\ m # n
        BY <1>0, <2>1, HeldFacts DEF ClaimsAreOpen
    <2> QED
        BY <1>0, <2>1, <2>2 DEF ClaimsAreOpen
<1>5. CASE /\ \A c \in Callers, i \in Invites, n \in Links, r \in Roles :
                 ~InviteInsert(c, i, n, r) /\ ~InviteRefresh(c, i, n, r)
           /\ \A c \in Callers, n \in Links : ~ClaimLink(c, n) /\ ~Redeem(c, n)
    BY <1>0, <1>5, LinkFrame DEF ClaimsAreOpen
<1> QED
    BY <1>1, <1>2, <1>3, <1>4, <1>5

LEMMA LinksAreSingleUseStep == InviteIInv /\ [InviteNext]_inviteVars => LinksAreSingleUse'
<1> SUFFICES ASSUME InviteIInv, [InviteNext]_inviteVars PROVE LinksAreSingleUse'
    OBVIOUS
<1> USE DEF rowVars, userVars, pastVars
<1>0. InviteTypeOK /\ LinksAreSingleUse /\ RowsComeFirst /\ ClaimsAreOpen
    BY DEF InviteIInv
<1>1. ASSUME NEW c \in Callers, NEW i \in Invites, NEW n \in Links, NEW r \in Roles, InviteInsert(c, i, n, r)
      PROVE  LinksAreSingleUse'
    <2>1. \A m \in Links : LinkOf[m] = i => link[m] = "unminted"
        BY <1>0, <1>1 DEF InviteInsert, RowsComeFirst
    <2>2. /\ LinkOf[n] = i /\ link'[n] = "open" /\ redeemed' = redeemed
          /\ \A m \in Links \ {n} : link'[m] = link[m]
          /\ \A j \in Invites \ {i} : state'[j] = state[j]
        BY <1>0, <1>1 DEF InviteInsert, InviteTypeOK
    <2>3. \A m \in Links : redeemed'[m] = IF link'[m] = "spent" THEN 1 ELSE 0
        BY <1>0, <2>1, <2>2 DEF LinksAreSingleUse
    <2>4. \A k, m \in Links : k # m /\ LinkOf[k] = LinkOf[m] /\ link'[k] = "open" => link'[m] # "open"
        BY <1>0, <2>1, <2>2 DEF LinksAreSingleUse
    <2>5. \A j \in Invites : state'[j] = "pending" =>
             \E m \in Links : LinkOf[m] = j /\ link'[m] \in {"open", "spent"}
        BY <1>0, <2>1, <2>2 DEF LinksAreSingleUse
    <2> QED
        BY <2>3, <2>4, <2>5 DEF LinksAreSingleUse
<1>2. ASSUME NEW c \in Callers, NEW i \in Invites, NEW n \in Links, NEW r \in Roles, InviteRefresh(c, i, n, r)
      PROVE  LinksAreSingleUse'
    <2>1. /\ LinkOf[n] = i /\ link[n] = "unminted" /\ link'[n] = "open" /\ redeemed' = redeemed /\ state' = state
          /\ \A m \in Links \ {n} : LinkOf[m] = i /\ link[m] = "open" => link'[m] = "dropped"
          /\ \A m \in Links \ {n} : LinkOf[m] # i \/ link[m] # "open" => link'[m] = link[m]
        BY <1>0, <1>2 DEF InviteRefresh, OpenLinks, InviteTypeOK
    <2>2. \A m \in Links : redeemed'[m] = IF link'[m] = "spent" THEN 1 ELSE 0
        BY <1>0, <2>1 DEF LinksAreSingleUse
    <2>3. \A k, m \in Links : k # m /\ LinkOf[k] = LinkOf[m] /\ link'[k] = "open" => link'[m] # "open"
        BY <1>0, <2>1 DEF LinksAreSingleUse
    <2>4. \A j \in Invites : state'[j] = "pending" =>
             \E m \in Links : LinkOf[m] = j /\ link'[m] \in {"open", "spent"}
        BY <1>0, <2>1 DEF LinksAreSingleUse
    <2> QED
        BY <2>2, <2>3, <2>4 DEF LinksAreSingleUse
<1>3. ASSUME NEW c \in Callers, NEW n \in Links, ClaimLink(c, n) PROVE LinksAreSingleUse'
    BY <1>0, <1>3 DEF ClaimLink, LinksAreSingleUse
<1>4. ASSUME NEW c \in Callers, NEW n \in Links, Redeem(c, n) PROVE LinksAreSingleUse'
    <2>1. link[n] = "open"
        BY <1>0, <1>4 DEF Redeem, ClaimsAreOpen
    <2>2. redeemed[n] = 0
        BY <1>0, <2>1 DEF LinksAreSingleUse
    <2>3. /\ link'[n] = "spent" /\ redeemed'[n] = 1 /\ state' = state
          /\ \A m \in Links \ {n} : link'[m] = link[m] /\ redeemed'[m] = redeemed[m]
        BY <1>0, <1>4, <2>2 DEF Redeem, InviteTypeOK
    <2> QED
        BY <1>0, <2>1, <2>3 DEF LinksAreSingleUse
<1>5. CASE /\ \A c \in Callers, i \in Invites, n \in Links, r \in Roles :
                 ~InviteInsert(c, i, n, r) /\ ~InviteRefresh(c, i, n, r)
           /\ \A c \in Callers, n \in Links : ~ClaimLink(c, n) /\ ~Redeem(c, n)
    <2>1. link' = link /\ redeemed' = redeemed
        BY <1>0, <1>5, LinkFrame
    <2>2. \A i \in Invites : state'[i] = "pending" => state[i] = "pending"
        BY <1>0, <1>5, LinkFrame
    <2> QED
        BY <1>0, <2>1, <2>2 DEF LinksAreSingleUse
<1> QED
    BY <1>1, <1>2, <1>3, <1>4, <1>5

-----------------------------------------------------------------------------
(* Enrolments.                                                             *)

\* Only an enrolment registers a passkey; nothing else counts one, or takes
\* back an activation.
LEMMA EnrolFrame ==
    ASSUME InviteTypeOK, [InviteNext]_inviteVars,
           \A c \in Callers, i \in Invites, r \in Roles : ~Enrol(c, i, r)
    PROVE  /\ enrolled' = enrolled /\ enrolments' = enrolments
           /\ \A i \in Invites : activations[i] # 0 => activations'[i] # 0
<1> DEFINE Kept == /\ enrolled' = enrolled /\ enrolments' = enrolments
                   /\ \A i \in Invites : activations[i] # 0 => activations'[i] # 0
<1> USE DEF rowVars, userVars, pastVars
<1>1. ASSUME NEW c \in Callers, StepOf(c) PROVE Kept
    <2>1. ASSUME NEW e \in Addresses, InviteLoad(c, e) \/ InviteRefused(c, e) PROVE Kept
        BY <2>1 DEF InviteLoad, InviteRefused
    <2>2. ASSUME NEW i \in Invites, NEW n \in Links, NEW r \in Roles,
                 InviteInsert(c, i, n, r) \/ InviteRefresh(c, i, n, r)
          PROVE  Kept
        BY <2>2 DEF InviteInsert, InviteRefresh
    <2>3. ASSUME NEW n \in Links, ClaimLink(c, n) \/ Redeem(c, n) \/ ReleaseLink(c, n) PROVE Kept
        BY <2>3 DEF ClaimLink, Redeem, ReleaseLink
    <2>4. ASSUME NEW i \in Invites, ConfirmLoad(c, i) \/ EnrolLoad(c, i) PROVE Kept
        BY <2>4 DEF ConfirmLoad, EnrolLoad
    <2>5. ASSUME NEW i \in Invites, NEW r \in Roles, EnrolLock(c, i, r) \/ AcceptFails(c, i, r)
          PROVE  Kept
        BY <2>5 DEF EnrolLock, AcceptFails
    <2>6. ASSUME NEW i \in Invites, NEW r \in Roles, Confirm(c, i, r) PROVE Kept
        BY <2>6 DEF Confirm, Activate, InviteTypeOK
    <2>7. ASSUME PruneSelect(c) PROVE Kept
        BY <2>7 DEF PruneSelect
    <2>8. ASSUME NEW S \in SUBSET Invites, PruneCommit(c, S) \/ PruneFails(c, S) PROVE Kept
        BY <2>8 DEF PruneCommit, PruneFails
    <2> QED
        BY <1>1, <2>1, <2>2, <2>3, <2>4, <2>5, <2>6, <2>7, <2>8 DEF StepOf
<1>2. ASSUME NEW i \in Invites, Lapse(i) PROVE Kept
    BY <1>2 DEF Lapse
<1>3. ASSUME NEW e \in Addresses, NEW r \in Roles, RevokeRole(e, r) PROVE Kept
    BY <1>3 DEF RevokeRole
<1>4. CASE UNCHANGED inviteVars
    BY <1>4 DEF inviteVars
<1> QED
    BY <1>1, <1>2, <1>3, <1>4, StepCases

LEMMA EnrollersRedeemedStep == InviteIInv /\ [InviteNext]_inviteVars => EnrollersRedeemed'
<1> SUFFICES ASSUME InviteIInv, [InviteNext]_inviteVars,
                    NEW c \in Callers, NEW i \in Invites, NEW r \in Roles,
                    call'[c] \in {Accepting("enrolling", i, r), Accepting("locking", i, r)}
             PROVE  \E n \in Links : LinkOf[n] = i /\ link'[n] = "spent"
    BY DEF EnrollersRedeemed
<1>0. InviteTypeOK /\ EnrollersRedeemed
    BY DEF InviteIInv
<1>1. SUFFICES \E n \in Links : LinkOf[n] = i /\ link[n] = "spent"
    BY Persistence
<1>2. CASE call'[c] = call[c]
    BY <1>0, <1>2 DEF EnrollersRedeemed
<1>3. CASE call'[c] # call[c]
    <2>1. call'[c].at \in {"enrolling", "locking"} /\ call'[c].invite = i
        BY HeldFacts
    <2>2. StepOf(c)
        BY <1>0, <1>3, MoverFacts
    <2>3. ASSUME NEW j \in Invites, EnrolLoad(c, j) PROVE \E n \in Links : LinkOf[n] = i /\ link[n] = "spent"
        <3>1. j = i
            BY <1>0, <2>1, <2>3, HeldFacts DEF EnrolLoad, To, InviteTypeOK
        <3> QED
            BY <2>3, <3>1 DEF EnrolLoad
    <2>4. ASSUME NEW j \in Invites, NEW q \in Roles, EnrolLock(c, j, q)
          PROVE  \E n \in Links : LinkOf[n] = i /\ link[n] = "spent"
        <3>1. j = i
            BY <1>0, <2>1, <2>4, HeldFacts DEF EnrolLock, To, InviteTypeOK
        <3>2. call[c] = Accepting("enrolling", i, q)
            BY <2>4, <3>1 DEF EnrolLock
        <3> QED
            BY <1>0, <3>2 DEF EnrollersRedeemed
    <2> QED
        BY <1>0, <2>1, <2>2, <2>3, <2>4, LabelFacts
<1> QED
    BY <1>2, <1>3

\* The lock of an address is not taken from who holds it.
LEMMA LockFrame ==
    ASSUME InviteTypeOK, [InviteNext]_inviteVars,
           NEW c \in Callers, NEW e \in Addresses, userLock[e] = c, call'[c] = call[c],
           \A i \in Invites, r \in Roles : ~Enrol(c, i, r) /\ ~AcceptFails(c, i, r),
           \A d \in Callers, i \in Invites, r \in Roles : Enrol(d, i, r) => userLock[AddressOf[i]] = d
    PROVE  userLock'[e] = c /\ (e \in enrolled' => e \in enrolled)
<1> DEFINE Kept == userLock'[e] = c /\ (e \in enrolled' => e \in enrolled)
<1> USE DEF rowVars, userVars, pastVars
<1>0. c # NoCaller
    BY NoCallerAssumption DEF Callers
<1>1. ASSUME NEW d \in Callers, StepOf(d) PROVE Kept
    <2>1. ASSUME NEW f \in Addresses, InviteLoad(d, f) \/ InviteRefused(d, f) PROVE Kept
        BY <2>1 DEF InviteLoad, InviteRefused
    <2>2. ASSUME NEW i \in Invites, NEW n \in Links, NEW r \in Roles,
                 InviteInsert(d, i, n, r) \/ InviteRefresh(d, i, n, r)
          PROVE  Kept
        BY <2>2 DEF InviteInsert, InviteRefresh
    <2>3. ASSUME NEW n \in Links, ClaimLink(d, n) \/ Redeem(d, n) \/ ReleaseLink(d, n) PROVE Kept
        BY <2>3 DEF ClaimLink, Redeem, ReleaseLink
    <2>4. ASSUME NEW i \in Invites, ConfirmLoad(d, i) \/ EnrolLoad(d, i) PROVE Kept
        BY <2>4 DEF ConfirmLoad, EnrolLoad
    <2>5. ASSUME NEW i \in Invites, NEW r \in Roles, EnrolLock(d, i, r) PROVE Kept
        <3>1. /\ userLock[AddressOf[i]] = NoCaller /\ enrolled' = enrolled
              /\ userLock' = [userLock EXCEPT ![AddressOf[i]] = d]
            BY <2>5 DEF EnrolLock
        <3>2. AddressOf[i] # e
            BY <1>0, <3>1
        <3>3. userLock \in [Addresses -> Callers \cup {NoCaller}]
            BY DEF InviteTypeOK
        <3> QED
            BY <3>1, <3>2, <3>3
    <2>6. ASSUME NEW i \in Invites, NEW r \in Roles, AcceptFails(d, i, r) PROVE Kept
        <3>1. d # c
            BY <2>6
        <3> QED
            BY <2>6, <3>1 DEF AcceptFails
    <2>7. ASSUME NEW i \in Invites, NEW r \in Roles, Confirm(d, i, r) PROVE Kept
        BY <2>7 DEF Confirm
    <2>8. ASSUME NEW i \in Invites, NEW r \in Roles, Enrol(d, i, r) PROVE Kept
        <3>1. AddressOf[i] # e
            BY <2>8
        <3>2. /\ userLock' = [userLock EXCEPT ![AddressOf[i]] = NoCaller]
              /\ enrolled' = enrolled \cup {AddressOf[i]}
            BY <2>8 DEF Enrol
        <3>3. userLock \in [Addresses -> Callers \cup {NoCaller}]
            BY DEF InviteTypeOK
        <3> QED
            BY <3>1, <3>2, <3>3
    <2>9. ASSUME PruneSelect(d) PROVE Kept
        BY <2>9 DEF PruneSelect
    <2>10. ASSUME NEW S \in SUBSET Invites, PruneCommit(d, S) \/ PruneFails(d, S) PROVE Kept
        BY <2>10 DEF PruneCommit, PruneFails
    <2> QED
        BY <1>1, <2>1, <2>2, <2>3, <2>4, <2>5, <2>6, <2>7, <2>8, <2>9, <2>10 DEF StepOf
<1>2. ASSUME NEW i \in Invites, Lapse(i) PROVE Kept
    BY <1>2 DEF Lapse
<1>3. ASSUME NEW f \in Addresses, NEW r \in Roles, RevokeRole(f, r) PROVE Kept
    BY <1>3 DEF RevokeRole
<1>4. CASE UNCHANGED inviteVars
    BY <1>4 DEF inviteVars
<1> QED
    BY <1>1, <1>2, <1>3, <1>4, StepCases

LEMMA LockersHoldStep == InviteIInv /\ [InviteNext]_inviteVars => LockersHold'
<1> SUFFICES ASSUME InviteIInv, [InviteNext]_inviteVars,
                    NEW c \in Callers, NEW i \in Invites, NEW r \in Roles,
                    call'[c] = Accepting("locking", i, r)
             PROVE  userLock'[AddressOf[i]] = c /\ AddressOf[i] \notin enrolled'
    BY DEF LockersHold
<1>0. InviteTypeOK /\ LockersHold /\ AddressOf[i] \in Addresses /\ call'[c].at = "locking" /\ call'[c].invite = i
    BY HeldFacts, AddressAssumption DEF InviteIInv
<1>1. CASE call'[c] = call[c]
    <2>1. userLock[AddressOf[i]] = c /\ AddressOf[i] \notin enrolled
        BY <1>0, <1>1 DEF LockersHold
    <2>2. \A j \in Invites, q \in Roles : ~Enrol(c, j, q) /\ ~AcceptFails(c, j, q)
        BY <1>0, HeldFacts DEF Enrol, AcceptFails, Ends, To, InviteTypeOK
    <2>3. \A d \in Callers, j \in Invites, q \in Roles : Enrol(d, j, q) => userLock[AddressOf[j]] = d
        BY <1>0 DEF Enrol, LockersHold
    <2> QED
        BY <1>0, <1>1, <2>1, <2>2, <2>3, LockFrame
<1>2. CASE call'[c] # call[c]
    <2>1. PICK j \in Invites, q \in Roles : EnrolLock(c, j, q)
        BY <1>0, <1>2, MoverFacts, LabelFacts
    <2>2. j = i
        BY <1>0, <2>1, HeldFacts DEF EnrolLock, To, InviteTypeOK
    <2>3. userLock \in [Addresses -> Callers \cup {NoCaller}]
        BY <1>0 DEF InviteTypeOK
    <2> QED
        BY <1>0, <2>1, <2>2, <2>3 DEF EnrolLock
<1> QED
    BY <1>1, <1>2

LEMMA EnrolmentIsProvenStep == InviteIInv /\ [InviteNext]_inviteVars => EnrolmentIsProven'
<1> SUFFICES ASSUME InviteIInv, [InviteNext]_inviteVars PROVE EnrolmentIsProven'
    OBVIOUS
<1>0. InviteTypeOK /\ EnrolmentIsProven /\ LinksAreSingleUse /\ LinksAreSingleUse'
    BY LinksAreSingleUseStep DEF InviteIInv
<1>1. \A n \in Links : link[n] = "spent" => redeemed'[n] = 1
    BY <1>0, Persistence DEF LinksAreSingleUse
<1>2. \A n \in Links : redeemed[n] = 1 => redeemed'[n] = 1
    BY <1>0, <1>1 DEF LinksAreSingleUse
<1>3. ASSUME NEW c \in Callers, NEW i \in Invites, NEW r \in Roles, Enrol(c, i, r)
      PROVE  EnrolmentIsProven'
    <2>1. call[c] = Accepting("locking", i, r) /\ AddressOf[i] \in Addresses
        BY <1>3, AddressAssumption DEF Enrol
    <2>2. PICK n \in Links : LinkOf[n] = i /\ link[n] = "spent"
        BY <2>1 DEF InviteIInv, EnrollersRedeemed
    <2>3. AddressOf[i] \notin enrolled
        BY <2>1 DEF InviteIInv, LockersHold
    <2>4. enrolments[AddressOf[i]] = 0
        BY <1>0, <2>1, <2>3 DEF EnrolmentIsProven
    <2>5. /\ enrolments'[AddressOf[i]] = 1
          /\ \A e \in Addresses \ {AddressOf[i]} : enrolments'[e] = enrolments[e]
        BY <1>0, <1>3, <2>1, <2>4 DEF Enrol, InviteTypeOK
    <2>6. /\ activations'[i] # 0
          /\ \A j \in Invites : activations[j] # 0 => activations'[j] # 0
        BY <1>0, <1>3 DEF Enrol, Activate, InviteTypeOK
    <2>7. enrolled' = enrolled \cup {AddressOf[i]}
        BY <1>3 DEF Enrol
    <2>8. ASSUME NEW e \in Addresses, enrolments'[e] # 0
          PROVE  /\ enrolments'[e] = 1 /\ e \in enrolled'
                 /\ \E j \in Of(e) : activations'[j] # 0 /\ \E m \in Links : LinkOf[m] = j /\ redeemed'[m] = 1
        <3>1. CASE e = AddressOf[i]
            <4>1. i \in Of(e) /\ redeemed'[n] = 1
                BY <1>1, <2>2, <3>1 DEF Of
            <4> QED
                BY <2>2, <2>5, <2>6, <2>7, <3>1, <4>1
        <3>2. CASE e # AddressOf[i]
            BY <1>0, <1>2, <2>5, <2>6, <2>7, <2>8, <3>2 DEF EnrolmentIsProven, Of
        <3> QED
            BY <3>1, <3>2
    <2> QED
        BY <2>8 DEF EnrolmentIsProven, Of
<1>4. CASE \A c \in Callers, i \in Invites, r \in Roles : ~Enrol(c, i, r)
    <2>1. /\ enrolled' = enrolled /\ enrolments' = enrolments
          /\ \A i \in Invites : activations[i] # 0 => activations'[i] # 0
        BY <1>0, <1>4, EnrolFrame
    <2> QED
        BY <1>0, <1>2, <2>1 DEF EnrolmentIsProven, Of
<1> QED
    BY <1>3, <1>4

-----------------------------------------------------------------------------
(* Settlements.                                                            *)

\* What a step that inserts, refreshes, accepts or expires nothing leaves.
LEMMA RowFrame ==
    ASSUME InviteTypeOK, [InviteNext]_inviteVars,
           \A c \in Callers, i \in Invites, n \in Links, r \in Roles :
              ~InviteInsert(c, i, n, r) /\ ~InviteRefresh(c, i, n, r),
           \A c \in Callers, i \in Invites, r \in Roles : ~Confirm(c, i, r) /\ ~Enrol(c, i, r),
           \A c \in Callers, S \in SUBSET Invites : ~PruneCommit(c, S)
    PROVE  /\ state' = state /\ activations' = activations
           /\ \A i \in Invites : lapsed[i] => lapsed'[i]
           /\ \A c \in Callers, i \in Invites :
                 call'[c] = call[c] /\ Copies(c) # {} => (<<c, i>> \in late' <=> <<c, i>> \in late)
<1> DEFINE Kept == /\ state' = state /\ activations' = activations
                   /\ \A i \in Invites : lapsed[i] => lapsed'[i]
<1> USE DEF rowVars, userVars, pastVars
<1>1. ASSUME NEW d \in Callers, StepOf(d)
      PROVE  Kept /\ (late' = late \/ (Ends(d) /\ call[d] # Resting))
    <2>1. ASSUME NEW e \in Addresses, InviteLoad(d, e) \/ InviteRefused(d, e) PROVE Kept /\ late' = late
        BY <2>1 DEF InviteLoad, InviteRefused
    <2>2. ASSUME NEW n \in Links, ClaimLink(d, n) \/ Redeem(d, n) \/ ReleaseLink(d, n)
          PROVE  Kept /\ late' = late
        BY <2>2 DEF ClaimLink, Redeem, ReleaseLink
    <2>3. ASSUME NEW i \in Invites, ConfirmLoad(d, i) \/ EnrolLoad(d, i) PROVE Kept /\ late' = late
        BY <2>3 DEF ConfirmLoad, EnrolLoad
    <2>4. ASSUME NEW i \in Invites, NEW r \in Roles, EnrolLock(d, i, r) PROVE Kept /\ late' = late
        BY <2>4 DEF EnrolLock
    <2>5. ASSUME NEW i \in Invites, NEW r \in Roles, AcceptFails(d, i, r)
          PROVE  Kept /\ Ends(d) /\ call[d] # Resting
        BY <2>5, HeldFacts DEF AcceptFails
    <2>6. ASSUME PruneSelect(d) PROVE Kept /\ late' = late
        BY <2>6 DEF PruneSelect
    <2>7. ASSUME NEW S \in SUBSET Invites, PruneFails(d, S)
          PROVE  Kept /\ Ends(d) /\ call[d] # Resting
        BY <2>7, HeldFacts DEF PruneFails
    <2> HIDE DEF Kept
    <2> QED
        BY <1>1, <2>1, <2>2, <2>3, <2>4, <2>5, <2>6, <2>7 DEF StepOf
<1>2. ASSUME NEW i \in Invites, Lapse(i) PROVE Kept /\ late' = late
    BY <1>2 DEF Lapse, InviteTypeOK
<1>3. ASSUME NEW e \in Addresses, NEW r \in Roles, RevokeRole(e, r) PROVE Kept /\ late' = late
    BY <1>3 DEF RevokeRole
<1>4. CASE UNCHANGED inviteVars
    BY <1>4 DEF inviteVars
<1>5. ASSUME NEW d \in Callers, Ends(d), call[d] # Resting
      PROVE  \A c \in Callers, i \in Invites : call'[c] = call[c] => (<<c, i>> \in late' <=> <<c, i>> \in late)
    <2>1. call'[d] # call[d]
        BY <1>5 DEF Ends, To, InviteTypeOK
    <2> QED
        BY <1>5, <2>1 DEF Ends
<1> QED
    BY <1>1, <1>2, <1>3, <1>4, <1>5, StepCases

\* What a copy is good for, at the commit of its holder.
LEMMA CommitFacts ==
    ASSUME InviteIInv, NEW c \in Callers, NEW i \in Copies(c), i \in Invites, <<c, i>> \notin late
    PROVE  state[i] = "pending" /\ activations[i] = 0 /\ (call[c].at = "expiring" => lapsed[i])
BY DEF InviteIInv, CopiesAreCurrent, OpenAreInactive

LEMMA OpenAreInactiveStep == InviteIInv /\ [InviteNext]_inviteVars => OpenAreInactive'
<1> SUFFICES ASSUME InviteIInv, [InviteNext]_inviteVars PROVE OpenAreInactive'
    OBVIOUS
<1> USE DEF rowVars, userVars, pastVars
<1>0. InviteTypeOK /\ OpenAreInactive
    BY DEF InviteIInv
<1>1. ASSUME NEW c \in Callers, NEW i \in Invites, NEW n \in Links, NEW r \in Roles,
             InviteInsert(c, i, n, r) \/ InviteRefresh(c, i, n, r)
      PROVE  OpenAreInactive'
    BY <1>0, <1>1 DEF InviteInsert, InviteRefresh, OpenAreInactive, InviteTypeOK
<1>2. ASSUME NEW c \in Callers, NEW i \in Invites, NEW r \in Roles, Confirm(c, i, r) \/ Enrol(c, i, r)
      PROVE  OpenAreInactive'
    <2>1. Activate(i, r)
        BY <1>2 DEF Confirm, Enrol
    <2> QED
        BY <1>0, <2>1 DEF Activate, OpenAreInactive, InviteTypeOK
<1>3. ASSUME NEW c \in Callers, NEW S \in SUBSET Invites, PruneCommit(c, S) PROVE OpenAreInactive'
    BY <1>0, <1>3 DEF PruneCommit, OpenAreInactive
<1>4. CASE /\ \A c \in Callers, i \in Invites, n \in Links, r \in Roles :
                 ~InviteInsert(c, i, n, r) /\ ~InviteRefresh(c, i, n, r)
           /\ \A c \in Callers, i \in Invites, r \in Roles : ~Confirm(c, i, r) /\ ~Enrol(c, i, r)
           /\ \A c \in Callers, S \in SUBSET Invites : ~PruneCommit(c, S)
    <2>1. state' = state /\ activations' = activations
        BY <1>0, <1>4, RowFrame
    <2> QED
        BY <1>0, <2>1 DEF OpenAreInactive
<1> QED
    BY <1>1, <1>2, <1>3, <1>4

LEMMA CopiesAreCurrentStep == InviteIInv /\ [InviteNext]_inviteVars => CopiesAreCurrent'
<1> SUFFICES ASSUME InviteIInv, [InviteNext]_inviteVars,
                    NEW c \in Callers, NEW i \in Invites, i \in Copies(c)', <<c, i>> \notin late'
             PROVE  state'[i] = "pending" /\ (call'[c].at = "expiring" => lapsed'[i])
    BY DEF CopiesAreCurrent
<1> USE DEF rowVars, userVars, pastVars
<1>0. InviteTypeOK /\ CopiesAreCurrent
    BY DEF InviteIInv
<1>1. CASE call'[c] # call[c]
    <2>1. StepOf(c)
        BY <1>0, <1>1, MoverFacts
    <2>2. ASSUME NEW j \in Invites, ConfirmLoad(c, j) \/ EnrolLoad(c, j)
          PROVE  state'[i] = "pending" /\ call'[c].at # "expiring"
        <3>1. call'[c] = Accepting("confirming", j, roleOf[j]) \/ call'[c] = Accepting("enrolling", j, roleOf[j])
            BY <1>0, <2>2 DEF ConfirmLoad, EnrolLoad, To, InviteTypeOK
        <3>2. i = j
            BY <3>1, HeldFacts DEF Copies
        <3>3. state[j] = "pending" /\ state' = state
            BY <2>2 DEF ConfirmLoad, EnrolLoad, MayAccept
        <3> QED
            BY <3>1, <3>2, <3>3, HeldFacts
    <2>3. ASSUME NEW j \in Invites, NEW r \in Roles, EnrolLock(c, j, r)
          PROVE  state'[i] = "pending" /\ call'[c].at # "expiring"
        <3>1. call[c] = Accepting("enrolling", j, r) /\ call'[c] = Accepting("locking", j, r)
            BY <1>0, <2>3 DEF EnrolLock, To, InviteTypeOK
        <3>2. i = j /\ i \in Copies(c)
            BY <3>1, HeldFacts DEF Copies
        <3>3. state' = state /\ late' = late
            BY <2>3 DEF EnrolLock
        <3> QED
            BY <1>0, <3>1, <3>2, <3>3, HeldFacts DEF CopiesAreCurrent
    <2>4. ASSUME PruneSelect(c) PROVE state'[i] = "pending" /\ lapsed'[i]
        <3>1. call'[c] = Expiring({j \in Invites : Lapsed(j)})
            BY <1>0, <2>4 DEF PruneSelect, To, InviteTypeOK
        <3>2. Lapsed(i)
            BY <3>1, HeldFacts DEF Copies
        <3> QED
            BY <2>4, <3>2 DEF PruneSelect, Lapsed
    <2>5. call'[c].at \in {"confirming", "enrolling", "locking", "expiring"}
        BY DEF Copies
    <2> QED
        BY <1>0, <2>1, <2>2, <2>3, <2>4, <2>5, LabelFacts
<1>2. CASE call'[c] = call[c]
    <2>0. i \in Copies(c)
        BY <1>2 DEF Copies
    <2>1. ASSUME NEW d \in Callers, NEW j \in Invites, NEW n \in Links, NEW r \in Roles, InviteInsert(d, j, n, r)
          PROVE  state'[i] = "pending" /\ (call[c].at = "expiring" => lapsed'[i])
        <3>1. state[i] = "pending" /\ (call[c].at = "expiring" => lapsed[i])
            BY <1>0, <2>0, <2>1 DEF InviteInsert, CopiesAreCurrent
        <3> QED
            BY <1>0, <2>1, <3>1 DEF InviteInsert, InviteTypeOK
    <2>2. ASSUME NEW d \in Callers, NEW S \in SUBSET Invites, CommitOver(d, S), call'[d] = Resting
          PROVE  i \notin S /\ state[i] = "pending" /\ (call[c].at = "expiring" => lapsed[i])
        <3>1. d # c
            BY <1>2, <2>0, <2>2, HeldFacts DEF Copies
        <3>2. i \notin S /\ <<c, i>> \notin late
            BY <1>0, <2>0, <2>2, <3>1, LateFacts
        <3> QED
            BY <1>0, <2>0, <3>2 DEF CopiesAreCurrent
    <2>3. ASSUME NEW d \in Callers, NEW j \in Invites, NEW n \in Links, NEW r \in Roles, InviteRefresh(d, j, n, r)
          PROVE  state'[i] = "pending" /\ (call[c].at = "expiring" => lapsed'[i])
        <3>1. CommitOver(d, {j}) /\ call'[d] = Resting /\ state' = state
            BY <1>0, <2>3 DEF InviteRefresh, To, InviteTypeOK
        <3>2. i # j /\ state[i] = "pending" /\ (call[c].at = "expiring" => lapsed[i])
            BY <2>2, <3>1
        <3> QED
            BY <1>0, <2>3, <3>1, <3>2 DEF InviteRefresh, InviteTypeOK
    <2>4. ASSUME NEW d \in Callers, NEW j \in Invites, NEW r \in Roles, Confirm(d, j, r) \/ Enrol(d, j, r)
          PROVE  state'[i] = "pending" /\ (call[c].at = "expiring" => lapsed'[i])
        <3>1. /\ CommitOver(d, {j}) /\ call'[d] = Resting /\ lapsed' = lapsed
              /\ state' = [state EXCEPT ![j] = "accepted"]
            BY <1>0, <2>4 DEF Confirm, Enrol, Activate, To, InviteTypeOK
        <3>2. i # j /\ state[i] = "pending" /\ (call[c].at = "expiring" => lapsed[i])
            BY <2>2, <3>1
        <3> QED
            BY <1>0, <3>1, <3>2 DEF InviteTypeOK
    <2>5. ASSUME NEW d \in Callers, NEW S \in SUBSET Invites, PruneCommit(d, S)
          PROVE  state'[i] = "pending" /\ (call[c].at = "expiring" => lapsed'[i])
        <3>1. CommitOver(d, S) /\ call'[d] = Resting /\ lapsed' = lapsed
            BY <1>0, <2>5 DEF PruneCommit, To, InviteTypeOK
        <3>2. i \notin S /\ state[i] = "pending" /\ (call[c].at = "expiring" => lapsed[i])
            BY <2>2, <3>1
        <3> QED
            BY <2>5, <3>1, <3>2 DEF PruneCommit
    <2>6. CASE /\ \A d \in Callers, j \in Invites, n \in Links, r \in Roles :
                     ~InviteInsert(d, j, n, r) /\ ~InviteRefresh(d, j, n, r)
               /\ \A d \in Callers, j \in Invites, r \in Roles : ~Confirm(d, j, r) /\ ~Enrol(d, j, r)
               /\ \A d \in Callers, S \in SUBSET Invites : ~PruneCommit(d, S)
        <3>1. state' = state /\ (lapsed[i] => lapsed'[i]) /\ <<c, i>> \notin late
            BY <1>0, <1>2, <2>0, <2>6, RowFrame
        <3> QED
            BY <1>0, <1>2, <2>0, <3>1 DEF CopiesAreCurrent
    <2> QED
        BY <1>2, <2>1, <2>3, <2>4, <2>5, <2>6
<1> QED
    BY <1>1, <1>2

-----------------------------------------------------------------------------
(* The theorems.                                                           *)

LEMMA InviteNextInv == InviteIInv /\ [InviteNext]_inviteVars => InviteIInv'
BY InviteTypeStep, RowsComeFirstStep, ClaimsAreOpenStep, LinksAreSingleUseStep, EnrollersRedeemedStep,
   LockersHoldStep, EnrolmentIsProvenStep, OpenAreInactiveStep, CopiesAreCurrentStep
   DEF InviteIInv

\* The inductive invariant holds in every reachable state.
THEOREM InviteInvariance == InviteSpec => []InviteIInv
BY InviteInitInv, InviteNextInv, PTL DEF InviteSpec

\* Every variable keeps its type.
THEOREM InviteTypeCorrectness == InviteSpec => []InviteTypeOK
<1>1. InviteIInv => InviteTypeOK
    BY DEF InviteIInv
<1> QED
    BY InviteInvariance, <1>1, PTL

\* A link is redeemed at most once, and of the links of an invitation one is open.
THEOREM SingleUse == InviteSpec => []LinksAreSingleUse
<1>1. InviteIInv => LinksAreSingleUse
    BY DEF InviteIInv
<1> QED
    BY InviteInvariance, <1>1, PTL

\* Invitations register one passkey for an address, after a redemption.
THEOREM ProvenEnrolment == InviteSpec => []EnrolmentIsProven
<1>1. InviteIInv => EnrolmentIsProven
    BY DEF InviteIInv
<1> QED
    BY InviteInvariance, <1>1, PTL

\* The step of SettledIsLeftByLate.
SettledStep ==
    \A i \in Invites :
        \/ state[i] \in {"none", "pending"} /\ state'[i] # "expired" /\ activations[i] = 0
        \/ Lapsed(i) /\ activations[i] = 0
        \/ state'[i] = state[i] /\ activations'[i] = activations[i]
        \/ \E c \in Callers : <<c, i>> \in late /\ call[c] # Resting /\ call'[c] = Resting

LEMMA SettledStepStep == InviteIInv /\ [InviteNext]_inviteVars => SettledStep
<1> SUFFICES ASSUME InviteIInv, [InviteNext]_inviteVars PROVE SettledStep
    OBVIOUS
<1> USE DEF rowVars, userVars, pastVars
<1>0. InviteTypeOK /\ OpenAreInactive
    BY DEF InviteIInv
<1>1. ASSUME NEW c \in Callers, NEW j \in Invites, NEW n \in Links, NEW r \in Roles,
             InviteInsert(c, j, n, r) \/ InviteRefresh(c, j, n, r)
      PROVE  SettledStep
    BY <1>0, <1>1 DEF InviteInsert, InviteRefresh, SettledStep, OpenAreInactive, InviteTypeOK
<1>2. ASSUME NEW c \in Callers, NEW j \in Invites, NEW r \in Roles, Confirm(c, j, r) \/ Enrol(c, j, r)
      PROVE  SettledStep
    <2>1. Activate(j, r) /\ call'[c] = Resting
          /\ call[c] \in {Accepting("confirming", j, r), Accepting("locking", j, r)}
        BY <1>0, <1>2 DEF Confirm, Enrol, To, InviteTypeOK
    <2>2. call[c] # Resting /\ j \in Copies(c)
        BY <2>1, HeldFacts, CopyFacts
    <2>3. \/ <<c, j>> \in late
          \/ state[j] = "pending" /\ activations[j] = 0
        BY <2>2, CommitFacts
    <2>4. /\ state'[j] = "accepted"
          /\ \A i \in Invites \ {j} : state'[i] = state[i] /\ activations'[i] = activations[i]
        BY <1>0, <2>1 DEF Activate, InviteTypeOK
    <2> QED
        BY <2>1, <2>2, <2>3, <2>4 DEF SettledStep
<1>3. ASSUME NEW c \in Callers, NEW S \in SUBSET Invites, PruneCommit(c, S) PROVE SettledStep
    <2>1. call[c] = Expiring(S) /\ call'[c] = Resting /\ activations' = activations
          /\ \A i \in Invites \ S : state'[i] = state[i]
        BY <1>0, <1>3 DEF PruneCommit, To, InviteTypeOK
    <2>2. call[c] # Resting /\ Copies(c) = S /\ call[c].at = "expiring"
        BY <2>1, HeldFacts, CopyFacts
    <2>3. \A i \in S : <<c, i>> \in late \/ (Lapsed(i) /\ activations[i] = 0)
        <3>1. SUFFICES ASSUME NEW i \in S, <<c, i>> \notin late PROVE Lapsed(i) /\ activations[i] = 0
            OBVIOUS
        <3>2. i \in Invites /\ i \in Copies(c)
            BY <2>2
        <3>3. state[i] = "pending" /\ activations[i] = 0 /\ (call[c].at = "expiring" => lapsed[i])
            BY <3>1, <3>2, CommitFacts
        <3> QED
            BY <2>2, <3>3 DEF Lapsed
    <2> QED
        BY <2>1, <2>2, <2>3 DEF SettledStep
<1>4. CASE /\ \A c \in Callers, i \in Invites, n \in Links, r \in Roles :
                 ~InviteInsert(c, i, n, r) /\ ~InviteRefresh(c, i, n, r)
           /\ \A c \in Callers, i \in Invites, r \in Roles : ~Confirm(c, i, r) /\ ~Enrol(c, i, r)
           /\ \A c \in Callers, S \in SUBSET Invites : ~PruneCommit(c, S)
    <2>1. state' = state /\ activations' = activations
        BY <1>0, <1>4, RowFrame
    <2> QED
        BY <2>1 DEF SettledStep
<1> QED
    BY <1>1, <1>2, <1>3, <1>4

\* An invitation that is settled is disturbed only by the commit of a request
\* or a sweep that had loaded it before.
THEOREM LeftByLate == InviteSpec => SettledIsLeftByLate
<1>1. InviteIInv /\ [InviteNext]_inviteVars => [SettledStep]_inviteVars
    BY SettledStepStep
<1>2. [SettledStep]_inviteVars <=>
         [\A i \in Invites :
             \/ state[i] \in {"none", "pending"} /\ state'[i] # "expired" /\ activations[i] = 0
             \/ Lapsed(i) /\ activations[i] = 0
             \/ state'[i] = state[i] /\ activations'[i] = activations[i]
             \/ \E c \in Callers : <<c, i>> \in late /\ call[c] # Resting /\ call'[c] = Resting]_inviteVars
    BY DEF SettledStep
<1> QED
    BY <1>1, <1>2, InviteInvariance, PTL DEF InviteSpec, SettledIsLeftByLate

-----------------------------------------------------------------------------
(* Invitations beside approvals, as MCDecisions composes them.             *)

\* A behaviour of both is one of either, and keeps the types of both.
THEOREM DecisionsKeepTypes == MCSpec => []DecisionsTypeOK
<1>1. MCInit => Init /\ InviteInit
  BY DEF MCInit
<1>2. [MCNext]_allVars => [Next]_vars /\ [InviteNext]_inviteVars
  BY DEF MCNext, allVars
<1>3. MCSpec => Spec
  BY <1>1, <1>2, PTL DEF MCSpec, Spec
<1>4. MCSpec => []InviteIInv
  BY <1>1, <1>2, InviteInitInv, InviteNextInv, PTL DEF MCSpec
<1>5. InviteIInv => InviteTypeOK
  BY DEF InviteIInv
<1>. QED
  BY <1>3, <1>4, <1>5, TypeCorrect, PTL DEF DecisionsTypeOK
=============================================================================
