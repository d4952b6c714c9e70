--------------------------- MODULE ApprovalProofs ---------------------------
(* Proofs about Approval, for any number of calls, sweeps and targets and   *)
(* for both tools.                                                          *)
EXTENDS Approval, TLAPS

-----------------------------------------------------------------------------
(* The inductive invariant.                                                *)

\* Before the row is minted, nobody is past a load.
NobodyLoadsNothing ==
    row.status = "absent" => \A a \in Actors : pc[a] \in {"idle", "done"}

\* Once the row is decided, those past their load are known.
RacersAreKnown ==
    row.status \in Decided => \A a \in Actors : pc[a] \notin {"idle", "done"} => a \in racing

\* Unless replays overlapped, at most one is open, and it read the truth.
ReplaysAreSerial ==
    ~overlapped =>
        /\ \A t \in Targets : effects[t] <= 1
        /\ \A c, d \in Approvals : pc[c] = "act" /\ pc[d] = "act" => c = d
        /\ \A c \in Approvals : pc[c] = "act" => seen[c] = {t \in Targets : effects[t] > 0}

\* What an open replay saw is not taken back, and its caller was let through.
SeenIsCommitted ==
    \A c \in Approvals : pc[c] = "act" =>
        Permitted(c) /\ \A t \in seen[c] : effects[t] > 0

\* An approval that is about to be committed has a real result.
ResultsAreEarned ==
    \A c \in Approvals : pc[c] = "decide" =>
        /\ result[c] # "none"
        /\ result[c] = "sent" => Permitted(c) /\ \A t \in Targets : effects[t] > 0

IInv ==
    /\ TypeOK
    /\ NobodyLoadsNothing
    /\ RacersAreKnown
    /\ ReplaysAreSerial
    /\ SeenIsCommitted
    /\ ResultsAreEarned
    /\ ResultsAreReal
    /\ SignedByTheCapable

-----------------------------------------------------------------------------
(* Every conjunct is preserved by every step.                              *)

\* Types are preserved.
LEMMA TypeStep ==
    ASSUME TypeOK, [Next]_vars PROVE TypeOK'
<1>. USE DEF TypeOK, Decided, Results, Calls, Actors, vars
<1>1. ASSUME Mint PROVE TypeOK'
  BY <1>1 DEF Mint
<1>2. ASSUME Expire PROVE TypeOK'
  BY <1>2 DEF Expire
<1>3. ASSUME NEW c \in Calls, Load(c) PROVE TypeOK'
  BY <1>3 DEF Load, Goto
<1>4. ASSUME NEW c \in Calls, Forbidden(c) PROVE TypeOK'
  BY <1>4 DEF Forbidden, Goto
<1>5. ASSUME NEW c \in Calls, Abort(c) PROVE TypeOK'
  BY <1>5 DEF Abort, Goto
<1>6. ASSUME NEW c \in Approvals, ReplayRead(c) PROVE TypeOK'
  BY <1>6 DEF ReplayRead, Goto
<1>7. ASSUME NEW c \in Approvals, ReplayCommit(c) PROVE TypeOK'
  BY <1>7 DEF ReplayCommit, Goto
<1>8. ASSUME NEW c \in Approvals, ReplayFails(c) PROVE TypeOK'
  BY <1>8 DEF ReplayFails, Goto
<1>9. ASSUME NEW c \in Approvals, ApproveCommit(c) PROVE TypeOK'
  BY <1>9 DEF ApproveCommit, Commit, Goto
<1>10. ASSUME NEW c \in Denials, DenyCommit(c) PROVE TypeOK'
  BY <1>10 DEF DenyCommit, Commit, Goto
<1>11. ASSUME NEW s \in Sweepers, SweepSelect(s) PROVE TypeOK'
  BY <1>11 DEF SweepSelect, Goto
<1>12. ASSUME NEW s \in Sweepers, SweepCommit(s) PROVE TypeOK'
  BY <1>12 DEF SweepCommit, Commit, Goto
<1>13. ASSUME NEW s \in Sweepers, SweepAbort(s) PROVE TypeOK'
  BY <1>13 DEF SweepAbort, Goto
<1>14. CASE UNCHANGED vars
  BY <1>14
<1>. QED
  BY <1>1, <1>2, <1>3, <1>4, <1>5, <1>6, <1>7,
     <1>8, <1>9, <1>10, <1>11, <1>12, <1>13, <1>14
     DEF Next, Approve, Sweep

\* The row is minted once, and only a minted row is loaded.
LEMMA NobodyLoadsNothingStep ==
    ASSUME TypeOK, NobodyLoadsNothing, [Next]_vars PROVE NobodyLoadsNothing'
<1>. USE DEF TypeOK, Actors, Calls, Decided, vars, NobodyLoadsNothing
<1>1. ASSUME Mint PROVE NobodyLoadsNothing'
  BY <1>1 DEF Mint
<1>2. ASSUME Expire PROVE NobodyLoadsNothing'
  BY <1>2 DEF Expire
<1>3. ASSUME NEW c \in Calls, Load(c) PROVE NobodyLoadsNothing'
  BY <1>3 DEF Load, Goto
<1>4. ASSUME NEW c \in Calls, Forbidden(c) PROVE NobodyLoadsNothing'
  BY <1>4 DEF Forbidden, Goto
<1>5. ASSUME NEW c \in Calls, Abort(c) PROVE NobodyLoadsNothing'
  BY <1>5 DEF Abort, Goto
<1>6. ASSUME NEW c \in Approvals, ReplayRead(c) PROVE NobodyLoadsNothing'
  BY <1>6 DEF ReplayRead, Goto
<1>7. ASSUME NEW c \in Approvals, ReplayCommit(c) PROVE NobodyLoadsNothing'
  BY <1>7 DEF ReplayCommit, Goto
<1>8. ASSUME NEW c \in Approvals, ReplayFails(c) PROVE NobodyLoadsNothing'
  BY <1>8 DEF ReplayFails, Goto
<1>9. ASSUME NEW c \in Approvals, ApproveCommit(c) PROVE NobodyLoadsNothing'
  BY <1>9 DEF ApproveCommit, Commit, Goto
<1>10. ASSUME NEW c \in Denials, DenyCommit(c) PROVE NobodyLoadsNothing'
  BY <1>10 DEF DenyCommit, Commit, Goto
<1>11. ASSUME NEW s \in Sweepers, SweepSelect(s) PROVE NobodyLoadsNothing'
  BY <1>11 DEF SweepSelect, Goto
<1>12. ASSUME NEW s \in Sweepers, SweepCommit(s) PROVE NobodyLoadsNothing'
  BY <1>12 DEF SweepCommit, Commit, Goto
<1>13. ASSUME NEW s \in Sweepers, SweepAbort(s) PROVE NobodyLoadsNothing'
  BY <1>13 DEF SweepAbort, Goto
<1>14. CASE UNCHANGED vars
  BY <1>14
<1>. QED
  BY <1>1, <1>2, <1>3, <1>4, <1>5, <1>6, <1>7,
     <1>8, <1>9, <1>10, <1>11, <1>12, <1>13, <1>14
     DEF Next, Approve, Sweep

\* The first decision finds everybody, and later loads turn away.
LEMMA RacersAreKnownStep ==
    ASSUME TypeOK, NobodyLoadsNothing, RacersAreKnown, [Next]_vars PROVE RacersAreKnown'
<1>. USE DEF TypeOK, Actors, Calls, Decided, vars, NobodyLoadsNothing, RacersAreKnown
<1>1. ASSUME Mint PROVE RacersAreKnown'
  BY <1>1 DEF Mint
<1>2. ASSUME Expire PROVE RacersAreKnown'
  BY <1>2 DEF Expire
<1>3. ASSUME NEW c \in Calls, Load(c) PROVE RacersAreKnown'
  BY <1>3 DEF Load, Goto
<1>4. ASSUME NEW c \in Calls, Forbidden(c) PROVE RacersAreKnown'
  BY <1>4 DEF Forbidden, Goto
<1>5. ASSUME NEW c \in Calls, Abort(c) PROVE RacersAreKnown'
  BY <1>5 DEF Abort, Goto
<1>6. ASSUME NEW c \in Approvals, ReplayRead(c) PROVE RacersAreKnown'
  BY <1>6 DEF ReplayRead, Goto
<1>7. ASSUME NEW c \in Approvals, ReplayCommit(c) PROVE RacersAreKnown'
  BY <1>7 DEF ReplayCommit, Goto
<1>8. ASSUME NEW c \in Approvals, ReplayFails(c) PROVE RacersAreKnown'
  BY <1>8 DEF ReplayFails, Goto
<1>9. ASSUME NEW c \in Approvals, ApproveCommit(c) PROVE RacersAreKnown'
  BY <1>9 DEF ApproveCommit, Commit, Goto
<1>10. ASSUME NEW c \in Denials, DenyCommit(c) PROVE RacersAreKnown'
  BY <1>10 DEF DenyCommit, Commit, Goto
<1>11. ASSUME NEW s \in Sweepers, SweepSelect(s) PROVE RacersAreKnown'
  BY <1>11 DEF SweepSelect, Goto
<1>12. ASSUME NEW s \in Sweepers, SweepCommit(s) PROVE RacersAreKnown'
  BY <1>12 DEF SweepCommit, Commit, Goto
<1>13. ASSUME NEW s \in Sweepers, SweepAbort(s) PROVE RacersAreKnown'
  BY <1>13 DEF SweepAbort, Goto
<1>14. CASE UNCHANGED vars
  BY <1>14
<1>. QED
  BY <1>1, <1>2, <1>3, <1>4, <1>5, <1>6, <1>7,
     <1>8, <1>9, <1>10, <1>11, <1>12, <1>13, <1>14
     DEF Next, Approve, Sweep

\* A replay that opens alone commits what it read to be missing.
LEMMA ReplaysAreSerialStep ==
    ASSUME TypeOK, ReplaysAreSerial, [Next]_vars PROVE ReplaysAreSerial'
<1>. USE DEF TypeOK, Actors, Calls, Decided, vars, ReplaysAreSerial
<1>1. ASSUME Mint PROVE ReplaysAreSerial'
  BY <1>1 DEF Mint
<1>2. ASSUME Expire PROVE ReplaysAreSerial'
  BY <1>2 DEF Expire
<1>3. ASSUME NEW c \in Calls, Load(c) PROVE ReplaysAreSerial'
  BY <1>3 DEF Load, Goto
<1>4. ASSUME NEW c \in Calls, Forbidden(c) PROVE ReplaysAreSerial'
  BY <1>4 DEF Forbidden, Goto
<1>5. ASSUME NEW c \in Calls, Abort(c) PROVE ReplaysAreSerial'
  BY <1>5 DEF Abort, Goto
<1>6. ASSUME NEW c \in Approvals, ReplayRead(c) PROVE ReplaysAreSerial'
  BY <1>6 DEF ReplayRead, Goto
<1>7. ASSUME NEW c \in Approvals, ReplayCommit(c) PROVE ReplaysAreSerial'
  BY <1>7 DEF ReplayCommit, Goto
<1>8. ASSUME NEW c \in Approvals, ReplayFails(c) PROVE ReplaysAreSerial'
  BY <1>8 DEF ReplayFails, Goto
<1>9. ASSUME NEW c \in Approvals, ApproveCommit(c) PROVE ReplaysAreSerial'
  BY <1>9 DEF ApproveCommit, Commit, Goto
<1>10. ASSUME NEW c \in Denials, DenyCommit(c) PROVE ReplaysAreSerial'
  BY <1>10 DEF DenyCommit, Commit, Goto
<1>11. ASSUME NEW s \in Sweepers, SweepSelect(s) PROVE ReplaysAreSerial'
  BY <1>11 DEF SweepSelect, Goto
<1>12. ASSUME NEW s \in Sweepers, SweepCommit(s) PROVE ReplaysAreSerial'
  BY <1>12 DEF SweepCommit, Commit, Goto
<1>13. ASSUME NEW s \in Sweepers, SweepAbort(s) PROVE ReplaysAreSerial'
  BY <1>13 DEF SweepAbort, Goto
<1>14. CASE UNCHANGED vars
  BY <1>14
<1>. QED
  BY <1>1, <1>2, <1>3, <1>4, <1>5, <1>6, <1>7,
     <1>8, <1>9, <1>10, <1>11, <1>12, <1>13, <1>14
     DEF Next, Approve, Sweep

\* Effects are never taken back.
LEMMA SeenIsCommittedStep ==
    ASSUME TypeOK, SeenIsCommitted, [Next]_vars PROVE SeenIsCommitted'
<1>. USE DEF TypeOK, Actors, Calls, Decided, vars, SeenIsCommitted, Permitted
<1>1. ASSUME Mint PROVE SeenIsCommitted'
  BY <1>1 DEF Mint
<1>2. ASSUME Expire PROVE SeenIsCommitted'
  BY <1>2 DEF Expire
<1>3. ASSUME NEW c \in Calls, Load(c) PROVE SeenIsCommitted'
  BY <1>3 DEF Load, Goto
<1>4. ASSUME NEW c \in Calls, Forbidden(c) PROVE SeenIsCommitted'
  BY <1>4 DEF Forbidden, Goto
<1>5. ASSUME NEW c \in Calls, Abort(c) PROVE SeenIsCommitted'
  BY <1>5 DEF Abort, Goto
<1>6. ASSUME NEW c \in Approvals, ReplayRead(c) PROVE SeenIsCommitted'
  BY <1>6 DEF ReplayRead, Goto
<1>7. ASSUME NEW c \in Approvals, ReplayCommit(c) PROVE SeenIsCommitted'
  BY <1>7 DEF ReplayCommit, Goto
<1>8. ASSUME NEW c \in Approvals, ReplayFails(c) PROVE SeenIsCommitted'
  BY <1>8 DEF ReplayFails, Goto
<1>9. ASSUME NEW c \in Approvals, ApproveCommit(c) PROVE SeenIsCommitted'
  BY <1>9 DEF ApproveCommit, Commit, Goto
<1>10. ASSUME NEW c \in Denials, DenyCommit(c) PROVE SeenIsCommitted'
  BY <1>10 DEF DenyCommit, Commit, Goto
<1>11. ASSUME NEW s \in Sweepers, SweepSelect(s) PROVE SeenIsCommitted'
  BY <1>11 DEF SweepSelect, Goto
<1>12. ASSUME NEW s \in Sweepers, SweepCommit(s) PROVE SeenIsCommitted'
  BY <1>12 DEF SweepCommit, Commit, Goto
<1>13. ASSUME NEW s \in Sweepers, SweepAbort(s) PROVE SeenIsCommitted'
  BY <1>13 DEF SweepAbort, Goto
<1>14. CASE UNCHANGED vars
  BY <1>14
<1>. QED
  BY <1>1, <1>2, <1>3, <1>4, <1>5, <1>6, <1>7,
     <1>8, <1>9, <1>10, <1>11, <1>12, <1>13, <1>14
     DEF Next, Approve, Sweep

\* A replay that ends as "sent" has acted on what it did not find done.
LEMMA ResultsAreEarnedStep ==
    ASSUME TypeOK, SeenIsCommitted, ResultsAreEarned, [Next]_vars PROVE ResultsAreEarned'
<1>. USE DEF TypeOK, Actors, Calls, Decided, vars, SeenIsCommitted, ResultsAreEarned, Permitted
<1>1. ASSUME Mint PROVE ResultsAreEarned'
  BY <1>1 DEF Mint
<1>2. ASSUME Expire PROVE ResultsAreEarned'
  BY <1>2 DEF Expire
<1>3. ASSUME NEW c \in Calls, Load(c) PROVE ResultsAreEarned'
  BY <1>3 DEF Load, Goto
<1>4. ASSUME NEW c \in Calls, Forbidden(c) PROVE ResultsAreEarned'
  BY <1>4 DEF Forbidden, Goto
<1>5. ASSUME NEW c \in Calls, Abort(c) PROVE ResultsAreEarned'
  BY <1>5 DEF Abort, Goto
<1>6. ASSUME NEW c \in Approvals, ReplayRead(c) PROVE ResultsAreEarned'
  BY <1>6 DEF ReplayRead, Goto
<1>7. ASSUME NEW c \in Approvals, ReplayCommit(c) PROVE ResultsAreEarned'
  BY <1>7 DEF ReplayCommit, Goto
<1>8. ASSUME NEW c \in Approvals, ReplayFails(c) PROVE ResultsAreEarned'
  BY <1>8 DEF ReplayFails, Goto
<1>9. ASSUME NEW c \in Approvals, ApproveCommit(c) PROVE ResultsAreEarned'
  BY <1>9 DEF ApproveCommit, Commit, Goto
<1>10. ASSUME NEW c \in Denials, DenyCommit(c) PROVE ResultsAreEarned'
  BY <1>10 DEF DenyCommit, Commit, Goto
<1>11. ASSUME NEW s \in Sweepers, SweepSelect(s) PROVE ResultsAreEarned'
  BY <1>11 DEF SweepSelect, Goto
<1>12. ASSUME NEW s \in Sweepers, SweepCommit(s) PROVE ResultsAreEarned'
  BY <1>12 DEF SweepCommit, Commit, Goto
<1>13. ASSUME NEW s \in Sweepers, SweepAbort(s) PROVE ResultsAreEarned'
  BY <1>13 DEF SweepAbort, Goto
<1>14. CASE UNCHANGED vars
  BY <1>14
<1>. QED
  BY <1>1, <1>2, <1>3, <1>4, <1>5, <1>6, <1>7,
     <1>8, <1>9, <1>10, <1>11, <1>12, <1>13, <1>14
     DEF Next, Approve, Sweep

\* Only an approval writes the result, and it writes an earned one.
LEMMA ResultsAreRealStep ==
    ASSUME TypeOK, ResultsAreEarned, ResultsAreReal, [Next]_vars PROVE ResultsAreReal'
<1>. USE DEF TypeOK, Actors, Calls, Decided, vars, ResultsAreEarned, ResultsAreReal
<1>1. ASSUME Mint PROVE ResultsAreReal'
  BY <1>1 DEF Mint
<1>2. ASSUME Expire PROVE ResultsAreReal'
  BY <1>2 DEF Expire
<1>3. ASSUME NEW c \in Calls, Load(c) PROVE ResultsAreReal'
  BY <1>3 DEF Load, Goto
<1>4. ASSUME NEW c \in Calls, Forbidden(c) PROVE ResultsAreReal'
  BY <1>4 DEF Forbidden, Goto
<1>5. ASSUME NEW c \in Calls, Abort(c) PROVE ResultsAreReal'
  BY <1>5 DEF Abort, Goto
<1>6. ASSUME NEW c \in Approvals, ReplayRead(c) PROVE ResultsAreReal'
  BY <1>6 DEF ReplayRead, Goto
<1>7. ASSUME NEW c \in Approvals, ReplayCommit(c) PROVE ResultsAreReal'
  BY <1>7 DEF ReplayCommit, Goto
<1>8. ASSUME NEW c \in Approvals, ReplayFails(c) PROVE ResultsAreReal'
  BY <1>8 DEF ReplayFails, Goto
<1>9. ASSUME NEW c \in Approvals, ApproveCommit(c) PROVE ResultsAreReal'
  BY <1>9 DEF ApproveCommit, Commit, Goto
<1>10. ASSUME NEW c \in Denials, DenyCommit(c) PROVE ResultsAreReal'
  BY <1>10 DEF DenyCommit, Commit, Goto
<1>11. ASSUME NEW s \in Sweepers, SweepSelect(s) PROVE ResultsAreReal'
  BY <1>11 DEF SweepSelect, Goto
<1>12. ASSUME NEW s \in Sweepers, SweepCommit(s) PROVE ResultsAreReal'
  BY <1>12 DEF SweepCommit, Commit, Goto
<1>13. ASSUME NEW s \in Sweepers, SweepAbort(s) PROVE ResultsAreReal'
  BY <1>13 DEF SweepAbort, Goto
<1>14. CASE UNCHANGED vars
  BY <1>14
<1>. QED
  BY <1>1, <1>2, <1>3, <1>4, <1>5, <1>6, <1>7,
     <1>8, <1>9, <1>10, <1>11, <1>12, <1>13, <1>14
     DEF Next, Approve, Sweep

\* An approval writes the signature and the result together.
LEMMA SignedByTheCapableStep ==
    ASSUME TypeOK, ResultsAreEarned, SignedByTheCapable, [Next]_vars PROVE SignedByTheCapable'
<1>. USE DEF TypeOK, Actors, Calls, Decided, vars, Results, ResultsAreEarned, SignedByTheCapable, Permitted
<1>1. ASSUME Mint PROVE SignedByTheCapable'
  BY <1>1 DEF Mint
<1>2. ASSUME Expire PROVE SignedByTheCapable'
  BY <1>2 DEF Expire
<1>3. ASSUME NEW c \in Calls, Load(c) PROVE SignedByTheCapable'
  BY <1>3 DEF Load, Goto
<1>4. ASSUME NEW c \in Calls, Forbidden(c) PROVE SignedByTheCapable'
  BY <1>4 DEF Forbidden, Goto
<1>5. ASSUME NEW c \in Calls, Abort(c) PROVE SignedByTheCapable'
  BY <1>5 DEF Abort, Goto
<1>6. ASSUME NEW c \in Approvals, ReplayRead(c) PROVE SignedByTheCapable'
  BY <1>6 DEF ReplayRead, Goto
<1>7. ASSUME NEW c \in Approvals, ReplayCommit(c) PROVE SignedByTheCapable'
  BY <1>7 DEF ReplayCommit, Goto
<1>8. ASSUME NEW c \in Approvals, ReplayFails(c) PROVE SignedByTheCapable'
  BY <1>8 DEF ReplayFails, Goto
<1>9. ASSUME NEW c \in Approvals, ApproveCommit(c) PROVE SignedByTheCapable'
  BY <1>9 DEF ApproveCommit, Commit, Goto
<1>10. ASSUME NEW c \in Denials, DenyCommit(c) PROVE SignedByTheCapable'
  BY <1>10 DEF DenyCommit, Commit, Goto
<1>11. ASSUME NEW s \in Sweepers, SweepSelect(s) PROVE SignedByTheCapable'
  BY <1>11 DEF SweepSelect, Goto
<1>12. ASSUME NEW s \in Sweepers, SweepCommit(s) PROVE SignedByTheCapable'
  BY <1>12 DEF SweepCommit, Commit, Goto
<1>13. ASSUME NEW s \in Sweepers, SweepAbort(s) PROVE SignedByTheCapable'
  BY <1>13 DEF SweepAbort, Goto
<1>14. CASE UNCHANGED vars
  BY <1>14
<1>. QED
  BY <1>1, <1>2, <1>3, <1>4, <1>5, <1>6, <1>7,
     <1>8, <1>9, <1>10, <1>11, <1>12, <1>13, <1>14
     DEF Next, Approve, Sweep

\* The step form of DecisionIsFinal.
FinalStep ==
    row.status \in Decided /\ row' # row =>
        \E a \in racing : pc[a] # "done" /\ pc'[a] # pc[a]

\* Whoever writes over a decision was past its load when it was made.
LEMMA FinalStepStep ==
    ASSUME TypeOK, RacersAreKnown, [Next]_vars PROVE FinalStep
<1>. USE DEF TypeOK, Actors, Calls, Decided, vars, RacersAreKnown, FinalStep
<1>1. ASSUME Mint PROVE FinalStep
  BY <1>1 DEF Mint
<1>2. ASSUME Expire PROVE FinalStep
  BY <1>2 DEF Expire
<1>3. ASSUME NEW c \in Calls, Load(c) PROVE FinalStep
  BY <1>3 DEF Load, Goto
<1>4. ASSUME NEW c \in Calls, Forbidden(c) PROVE FinalStep
  BY <1>4 DEF Forbidden, Goto
<1>5. ASSUME NEW c \in Calls, Abort(c) PROVE FinalStep
  BY <1>5 DEF Abort, Goto
<1>6. ASSUME NEW c \in Approvals, ReplayRead(c) PROVE FinalStep
  BY <1>6 DEF ReplayRead, Goto
<1>7. ASSUME NEW c \in Approvals, ReplayCommit(c) PROVE FinalStep
  BY <1>7 DEF ReplayCommit, Goto
<1>8. ASSUME NEW c \in Approvals, ReplayFails(c) PROVE FinalStep
  BY <1>8 DEF ReplayFails, Goto
<1>9. ASSUME NEW c \in Approvals, ApproveCommit(c) PROVE FinalStep
  BY <1>9 DEF ApproveCommit, Commit, Goto
<1>10. ASSUME NEW c \in Denials, DenyCommit(c) PROVE FinalStep
  BY <1>10 DEF DenyCommit, Commit, Goto
<1>11. ASSUME NEW s \in Sweepers, SweepSelect(s) PROVE FinalStep
  BY <1>11 DEF SweepSelect, Goto
<1>12. ASSUME NEW s \in Sweepers, SweepCommit(s) PROVE FinalStep
  BY <1>12 DEF SweepCommit, Commit, Goto
<1>13. ASSUME NEW s \in Sweepers, SweepAbort(s) PROVE FinalStep
  BY <1>13 DEF SweepAbort, Goto
<1>14. CASE UNCHANGED vars
  BY <1>14
<1>. QED
  BY <1>1, <1>2, <1>3, <1>4, <1>5, <1>6, <1>7,
     <1>8, <1>9, <1>10, <1>11, <1>12, <1>13, <1>14
     DEF Next, Approve, Sweep

-----------------------------------------------------------------------------
(* Theorems.                                                               *)

\* The strengthening is an invariant of every behaviour.
THEOREM Invariance == Spec => []IInv
<1>1. ASSUME Init PROVE IInv
  <2>0. row \in [status : {"absent", "pending"} \cup Decided, tool : Tools,
                 by : Calls \cup {Nobody}, result : Results]
    BY <1>1 DEF Init, Decided, Results
  <2>1. TypeOK
    BY <1>1, <2>0 DEF Init, TypeOK, Calls, Decided, Results
  <2>2. NobodyLoadsNothing /\ RacersAreKnown
    BY <1>1 DEF Init, NobodyLoadsNothing, RacersAreKnown, Decided
  <2>3. ReplaysAreSerial
    BY <1>1 DEF Init, ReplaysAreSerial, Actors, Calls
  <2>4. SeenIsCommitted /\ ResultsAreEarned
    BY <1>1 DEF Init, SeenIsCommitted, ResultsAreEarned, Actors, Calls
  <2>5. ResultsAreReal /\ SignedByTheCapable
    BY <1>1 DEF Init, ResultsAreReal, SignedByTheCapable
  <2>. QED
    BY <2>1, <2>2, <2>3, <2>4, <2>5 DEF IInv
<1>2. IInv /\ [Next]_vars => IInv'
  BY TypeStep, NobodyLoadsNothingStep, RacersAreKnownStep, ReplaysAreSerialStep,
     SeenIsCommittedStep, ResultsAreEarnedStep, ResultsAreRealStep, SignedByTheCapableStep
     DEF IInv
<1>. QED
  BY <1>1, <1>2, PTL DEF Spec

\* Type correctness: the row, the calls and the sweeps stay in their domains.
THEOREM TypeCorrect == Spec => []TypeOK
<1>1. IInv => TypeOK
  BY DEF IInv
<1>. QED
  BY <1>1, Invariance, PTL

\* A replay retried after a failed approval does not act a second time, as long
\* as replays do not overlap: what the dedup reads of broadcast and cancel buy.
THEOREM FiresOnce == Spec => []FiresOnceWithoutOverlap
<1>1. IInv => FiresOnceWithoutOverlap
  BY DEF IInv, ReplaysAreSerial, FiresOnceWithoutOverlap
<1>. QED
  BY <1>1, Invariance, PTL

\* result_json never claims what the tool call did not do.
THEOREM RealResults == Spec => []ResultsAreReal
<1>1. IInv => ResultsAreReal
  BY DEF IInv
<1>. QED
  BY <1>1, Invariance, PTL

\* decided_by of a cancellation never names someone who may not cancel, unless
\* the replay failed.
THEOREM CapableSigners == Spec => []SignedByTheCapable
<1>1. IInv => SignedByTheCapable
  BY DEF IInv
<1>. QED
  BY <1>1, Invariance, PTL

\* The two together: what a reader of a decided row can rely on.
THEOREM RealDecisions == Spec => []DecisionsAreReal
<1>1. IInv => DecisionsAreReal
  BY DEF IInv, DecisionsAreReal
<1>. QED
  BY <1>1, Invariance, PTL

\* A committed decision is overwritten only by those already past their load.
THEOREM FinalDecisions == Spec => DecisionIsFinal
<1>1. IInv /\ [Next]_vars => [FinalStep]_vars
  BY FinalStepStep DEF IInv
<1>2. [FinalStep]_vars <=> [row.status \in Decided /\ row' # row =>
          \E c \in racing : pc[c] # "done" /\ pc'[c] # pc[c]]_vars
  BY DEF FinalStep
<1>. QED
  BY <1>1, <1>2, Invariance, PTL DEF Spec, DecisionIsFinal
=============================================================================
