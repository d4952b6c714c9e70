------------------------- MODULE IdempotencyProofs -------------------------
(* Proofs about Idempotency, for every number of requests, keys and bodies *)
(* and every TTL.                                                          *)
EXTENDS Idempotency, TLAPS

-----------------------------------------------------------------------------
(* The inductive invariant.                                                *)

\* A reply is formed once, by the step that ends the request or stores its
\* response.
ReplyIsLast ==
    \A r \in Requests :
        pc[r] \in {"unsent", "lookup", "handler", "collect", "persist", "reread"}
            => reply[r] = NoReply

\* A handler has run exactly when the program counter is past it.
RanIsPast ==
    \A r \in Requests :
        /\ pc[r] \in {"unsent", "lookup", "handler"} => r \notin ran
        /\ pc[r] \in {"collect", "persist", "stored", "reread"} => r \in ran

\* Requests that had ended when another was sent stay ended.
BeforeIsEnded == \A r \in Requests : before[r] \subseteq Ended

\* A row is the committed response of the request it names.
RowIsStored ==
    \A k \in Keys : table[k] # NoRow =>
        LET w == table[k].from IN
        /\ w \in ran
        /\ req[w] = [key |-> k, body |-> table[k].body]
        /\ reply[w].kind = "stored"
        /\ table[k].at = stamp[w]

\* A committed response is in the table until its TTL is over.
StoredLivesForTtl ==
    \A w \in Requests : reply[w].kind = "stored" =>
        \/ table[req[w].key] # NoRow /\ table[req[w].key].from = w
        \/ stamp[w] + TTL < now

SweepNotAhead == sweepAt <= now

\* An answer given in the current epoch of its key is the one in the table.
AnswersAreCurrent ==
    \A r \in Requests : Protected(r) =>
        /\ reply[r].epoch <= epoch[req[r].key]
        /\ reply[r].epoch = epoch[req[r].key] =>
              /\ table[req[r].key] # NoRow
              /\ table[req[r].key].from = reply[r].from
              /\ table[req[r].key].body = req[r].body

\* What the lookup established for a retry holds from the miss on.
MissedAfterTtl ==
    \A r \in Requests : \A w \in before[r] :
        /\ r \in ran \/ pc[r] = "handler"
        /\ reply[w].kind = "stored"
        /\ req[w].key = req[r].key
        => stamp[w] + TTL < missAt[r]

IInv ==
    /\ TypeOK
    /\ ReplyIsLast
    /\ RanIsPast
    /\ BeforeIsEnded
    /\ RowIsStored
    /\ StoredLivesForTtl
    /\ SweepNotAhead
    /\ AnswersAreCurrent
    /\ AnswersMatchRequest
    /\ OneResponsePerKey
    /\ MissedAfterTtl

-----------------------------------------------------------------------------
(* Every conjunct is preserved by every step.                              *)

\* Types are preserved.
LEMMA TypeStep ==
    ASSUME TypeOK, [Next]_vars PROVE TypeOK'
<1>. USE TTLAssumption, MaxClockAssumption DEF TypeOK, Rows, NoRow, Replies, NoReply, Never
<1>1. ASSUME NEW r \in Requests, SendKeyed(r)
      PROVE  TypeOK'
  BY <1>1 DEF SendKeyed, Goto, Ended
<1>2. ASSUME NEW r \in Requests, NEW kind \in {"bypass", "too_large"}, SendOutside(r, kind)
      PROVE  TypeOK'
  BY <1>2 DEF SendOutside, Goto, Answer, Ended
<1>3. ASSUME NEW r \in Requests, LookupHit(r)
      PROVE  TypeOK'
  BY <1>3 DEF LookupHit, Goto, Answer, AnswerFromRow
<1>4. ASSUME NEW r \in Requests, LookupMiss(r)
      PROVE  TypeOK'
  BY <1>4 DEF LookupMiss, Goto
<1>5. ASSUME NEW r \in Requests, HandlerCacheable(r)
      PROVE  TypeOK'
  BY <1>5 DEF HandlerCacheable, Goto
<1>6. ASSUME NEW r \in Requests, NEW kind \in {"unstored", "raised"}, HandlerUncached(r, kind)
      PROVE  TypeOK'
  BY <1>6 DEF HandlerUncached, Goto, Answer
<1>7. ASSUME NEW r \in Requests, Stamp(r)
      PROVE  TypeOK'
  BY <1>7 DEF Stamp, Goto
<1>8. ASSUME NEW r \in Requests, PersistInsert(r)
      PROVE  TypeOK'
  BY <1>8 DEF PersistInsert, Goto
<1>9. ASSUME NEW r \in Requests, PersistRefused(r)
      PROVE  TypeOK'
  BY <1>9 DEF PersistRefused, Goto
<1>10. ASSUME NEW r \in Requests, Return(r)
      PROVE  TypeOK'
  BY <1>10 DEF Return, Goto
<1>11. ASSUME NEW r \in Requests, RereadWinner(r)
      PROVE  TypeOK'
  BY <1>11 DEF RereadWinner, Goto, Answer, AnswerFromRow
<1>12. ASSUME NEW r \in Requests, RereadSwept(r)
      PROVE  TypeOK'
  BY <1>12 DEF RereadSwept, Goto, Answer
<1>13. ASSUME NEW r \in Requests, Crash(r)
      PROVE  TypeOK'
  BY <1>13 DEF Crash, Goto
<1>14. ASSUME SweepBegin PROVE TypeOK'
  BY <1>14 DEF SweepBegin
<1>15. ASSUME SweepDelete PROVE TypeOK'
  BY <1>15 DEF SweepDelete, Expired
<1>16. ASSUME Tick PROVE TypeOK'
  BY <1>16 DEF Tick
<1>17. CASE UNCHANGED vars
  BY <1>17 DEF vars
<1>. QED
  BY <1>1, <1>2, <1>3, <1>4, <1>5, <1>6, <1>7, <1>8, <1>9, <1>10,
     <1>11, <1>12, <1>13, <1>14, <1>15, <1>16, <1>17
     DEF Next, Dispatch

\* A request is answered at most once, by its last step.
LEMMA ReplyIsLastStep ==
    ASSUME TypeOK, ReplyIsLast, [Next]_vars PROVE ReplyIsLast'
<1>. USE TTLAssumption, MaxClockAssumption DEF TypeOK, Rows, NoRow, Replies, NoReply, Never, ReplyIsLast
<1>1. ASSUME NEW r \in Requests, SendKeyed(r)
      PROVE  ReplyIsLast'
  BY <1>1 DEF SendKeyed, Goto, Ended
<1>2. ASSUME NEW r \in Requests, NEW kind \in {"bypass", "too_large"}, SendOutside(r, kind)
      PROVE  ReplyIsLast'
  BY <1>2 DEF SendOutside, Goto, Answer, Ended
<1>3. ASSUME NEW r \in Requests, LookupHit(r)
      PROVE  ReplyIsLast'
  BY <1>3 DEF LookupHit, Goto, Answer, AnswerFromRow
<1>4. ASSUME NEW r \in Requests, LookupMiss(r)
      PROVE  ReplyIsLast'
  BY <1>4 DEF LookupMiss, Goto
<1>5. ASSUME NEW r \in Requests, HandlerCacheable(r)
      PROVE  ReplyIsLast'
  BY <1>5 DEF HandlerCacheable, Goto
<1>6. ASSUME NEW r \in Requests, NEW kind \in {"unstored", "raised"}, HandlerUncached(r, kind)
      PROVE  ReplyIsLast'
  BY <1>6 DEF HandlerUncached, Goto, Answer
<1>7. ASSUME NEW r \in Requests, Stamp(r)
      PROVE  ReplyIsLast'
  BY <1>7 DEF Stamp, Goto
<1>8. ASSUME NEW r \in Requests, PersistInsert(r)
      PROVE  ReplyIsLast'
  BY <1>8 DEF PersistInsert, Goto
<1>9. ASSUME NEW r \in Requests, PersistRefused(r)
      PROVE  ReplyIsLast'
  BY <1>9 DEF PersistRefused, Goto
<1>10. ASSUME NEW r \in Requests, Return(r)
      PROVE  ReplyIsLast'
  BY <1>10 DEF Return, Goto
<1>11. ASSUME NEW r \in Requests, RereadWinner(r)
      PROVE  ReplyIsLast'
  BY <1>11 DEF RereadWinner, Goto, Answer, AnswerFromRow
<1>12. ASSUME NEW r \in Requests, RereadSwept(r)
      PROVE  ReplyIsLast'
  BY <1>12 DEF RereadSwept, Goto, Answer
<1>13. ASSUME NEW r \in Requests, Crash(r)
      PROVE  ReplyIsLast'
  BY <1>13 DEF Crash, Goto
<1>14. ASSUME SweepBegin PROVE ReplyIsLast'
  BY <1>14 DEF SweepBegin
<1>15. ASSUME SweepDelete PROVE ReplyIsLast'
  BY <1>15 DEF SweepDelete, Expired
<1>16. ASSUME Tick PROVE ReplyIsLast'
  BY <1>16 DEF Tick
<1>17. CASE UNCHANGED vars
  BY <1>17 DEF vars
<1>. QED
  BY <1>1, <1>2, <1>3, <1>4, <1>5, <1>6, <1>7, <1>8, <1>9, <1>10,
     <1>11, <1>12, <1>13, <1>14, <1>15, <1>16, <1>17
     DEF Next, Dispatch

\* Program counters and handler runs agree.
LEMMA RanIsPastStep ==
    ASSUME TypeOK, RanIsPast, [Next]_vars PROVE RanIsPast'
<1>. USE TTLAssumption, MaxClockAssumption DEF TypeOK, Rows, NoRow, Replies, NoReply, Never, RanIsPast
<1>1. ASSUME NEW r \in Requests, SendKeyed(r)
      PROVE  RanIsPast'
  BY <1>1 DEF SendKeyed, Goto, Ended
<1>2. ASSUME NEW r \in Requests, NEW kind \in {"bypass", "too_large"}, SendOutside(r, kind)
      PROVE  RanIsPast'
  BY <1>2 DEF SendOutside, Goto, Answer, Ended
<1>3. ASSUME NEW r \in Requests, LookupHit(r)
      PROVE  RanIsPast'
  BY <1>3 DEF LookupHit, Goto, Answer, AnswerFromRow
<1>4. ASSUME NEW r \in Requests, LookupMiss(r)
      PROVE  RanIsPast'
  BY <1>4 DEF LookupMiss, Goto
<1>5. ASSUME NEW r \in Requests, HandlerCacheable(r)
      PROVE  RanIsPast'
  BY <1>5 DEF HandlerCacheable, Goto
<1>6. ASSUME NEW r \in Requests, NEW kind \in {"unstored", "raised"}, HandlerUncached(r, kind)
      PROVE  RanIsPast'
  BY <1>6 DEF HandlerUncached, Goto, Answer
<1>7. ASSUME NEW r \in Requests, Stamp(r)
      PROVE  RanIsPast'
  BY <1>7 DEF Stamp, Goto
<1>8. ASSUME NEW r \in Requests, PersistInsert(r)
      PROVE  RanIsPast'
  BY <1>8 DEF PersistInsert, Goto
<1>9. ASSUME NEW r \in Requests, PersistRefused(r)
      PROVE  RanIsPast'
  BY <1>9 DEF PersistRefused, Goto
<1>10. ASSUME NEW r \in Requests, Return(r)
      PROVE  RanIsPast'
  BY <1>10 DEF Return, Goto
<1>11. ASSUME NEW r \in Requests, RereadWinner(r)
      PROVE  RanIsPast'
  BY <1>11 DEF RereadWinner, Goto, Answer, AnswerFromRow
<1>12. ASSUME NEW r \in Requests, RereadSwept(r)
      PROVE  RanIsPast'
  BY <1>12 DEF RereadSwept, Goto, Answer
<1>13. ASSUME NEW r \in Requests, Crash(r)
      PROVE  RanIsPast'
  BY <1>13 DEF Crash, Goto
<1>14. ASSUME SweepBegin PROVE RanIsPast'
  BY <1>14 DEF SweepBegin
<1>15. ASSUME SweepDelete PROVE RanIsPast'
  BY <1>15 DEF SweepDelete, Expired
<1>16. ASSUME Tick PROVE RanIsPast'
  BY <1>16 DEF Tick
<1>17. CASE UNCHANGED vars
  BY <1>17 DEF vars
<1>. QED
  BY <1>1, <1>2, <1>3, <1>4, <1>5, <1>6, <1>7, <1>8, <1>9, <1>10,
     <1>11, <1>12, <1>13, <1>14, <1>15, <1>16, <1>17
     DEF Next, Dispatch

\* A request never leaves Ended.
LEMMA BeforeIsEndedStep ==
    ASSUME TypeOK, BeforeIsEnded, [Next]_vars PROVE BeforeIsEnded'
<1>. USE TTLAssumption, MaxClockAssumption DEF TypeOK, Rows, NoRow, Replies, NoReply, Never, BeforeIsEnded, Ended
<1>1. ASSUME NEW r \in Requests, SendKeyed(r)
      PROVE  BeforeIsEnded'
  BY <1>1 DEF SendKeyed, Goto, Ended
<1>2. ASSUME NEW r \in Requests, NEW kind \in {"bypass", "too_large"}, SendOutside(r, kind)
      PROVE  BeforeIsEnded'
  BY <1>2 DEF SendOutside, Goto, Answer, Ended
<1>3. ASSUME NEW r \in Requests, LookupHit(r)
      PROVE  BeforeIsEnded'
  BY <1>3 DEF LookupHit, Goto, Answer, AnswerFromRow
<1>4. ASSUME NEW r \in Requests, LookupMiss(r)
      PROVE  BeforeIsEnded'
  BY <1>4 DEF LookupMiss, Goto
<1>5. ASSUME NEW r \in Requests, HandlerCacheable(r)
      PROVE  BeforeIsEnded'
  BY <1>5 DEF HandlerCacheable, Goto
<1>6. ASSUME NEW r \in Requests, NEW kind \in {"unstored", "raised"}, HandlerUncached(r, kind)
      PROVE  BeforeIsEnded'
  BY <1>6 DEF HandlerUncached, Goto, Answer
<1>7. ASSUME NEW r \in Requests, Stamp(r)
      PROVE  BeforeIsEnded'
  BY <1>7 DEF Stamp, Goto
<1>8. ASSUME NEW r \in Requests, PersistInsert(r)
      PROVE  BeforeIsEnded'
  BY <1>8 DEF PersistInsert, Goto
<1>9. ASSUME NEW r \in Requests, PersistRefused(r)
      PROVE  BeforeIsEnded'
  BY <1>9 DEF PersistRefused, Goto
<1>10. ASSUME NEW r \in Requests, Return(r)
      PROVE  BeforeIsEnded'
  BY <1>10 DEF Return, Goto
<1>11. ASSUME NEW r \in Requests, RereadWinner(r)
      PROVE  BeforeIsEnded'
  BY <1>11 DEF RereadWinner, Goto, Answer, AnswerFromRow
<1>12. ASSUME NEW r \in Requests, RereadSwept(r)
      PROVE  BeforeIsEnded'
  BY <1>12 DEF RereadSwept, Goto, Answer
<1>13. ASSUME NEW r \in Requests, Crash(r)
      PROVE  BeforeIsEnded'
  BY <1>13 DEF Crash, Goto
<1>14. ASSUME SweepBegin PROVE BeforeIsEnded'
  BY <1>14 DEF SweepBegin
<1>15. ASSUME SweepDelete PROVE BeforeIsEnded'
  BY <1>15 DEF SweepDelete, Expired
<1>16. ASSUME Tick PROVE BeforeIsEnded'
  BY <1>16 DEF Tick
<1>17. CASE UNCHANGED vars
  BY <1>17 DEF vars
<1>. QED
  BY <1>1, <1>2, <1>3, <1>4, <1>5, <1>6, <1>7, <1>8, <1>9, <1>10,
     <1>11, <1>12, <1>13, <1>14, <1>15, <1>16, <1>17
     DEF Next, Dispatch

\* Rows are only inserted for the request that stores its response.
LEMMA RowIsStoredStep ==
    ASSUME TypeOK, ReplyIsLast, RanIsPast, RowIsStored, [Next]_vars PROVE RowIsStored'
<1>. USE TTLAssumption, MaxClockAssumption DEF TypeOK, Rows, NoRow, Replies, NoReply, Never, ReplyIsLast, RanIsPast, RowIsStored
<1>1. ASSUME NEW r \in Requests, SendKeyed(r)
      PROVE  RowIsStored'
  BY <1>1 DEF SendKeyed, Goto, Ended
<1>2. ASSUME NEW r \in Requests, NEW kind \in {"bypass", "too_large"}, SendOutside(r, kind)
      PROVE  RowIsStored'
  BY <1>2 DEF SendOutside, Goto, Answer, Ended
<1>3. ASSUME NEW r \in Requests, LookupHit(r)
      PROVE  RowIsStored'
  BY <1>3 DEF LookupHit, Goto, Answer, AnswerFromRow
<1>4. ASSUME NEW r \in Requests, LookupMiss(r)
      PROVE  RowIsStored'
  BY <1>4 DEF LookupMiss, Goto
<1>5. ASSUME NEW r \in Requests, HandlerCacheable(r)
      PROVE  RowIsStored'
  BY <1>5 DEF HandlerCacheable, Goto
<1>6. ASSUME NEW r \in Requests, NEW kind \in {"unstored", "raised"}, HandlerUncached(r, kind)
      PROVE  RowIsStored'
  BY <1>6 DEF HandlerUncached, Goto, Answer
<1>7. ASSUME NEW r \in Requests, Stamp(r)
      PROVE  RowIsStored'
  BY <1>7 DEF Stamp, Goto
<1>8. ASSUME NEW r \in Requests, PersistInsert(r)
      PROVE  RowIsStored'
  BY <1>8 DEF PersistInsert, Goto
<1>9. ASSUME NEW r \in Requests, PersistRefused(r)
      PROVE  RowIsStored'
  BY <1>9 DEF PersistRefused, Goto
<1>10. ASSUME NEW r \in Requests, Return(r)
      PROVE  RowIsStored'
  BY <1>10 DEF Return, Goto
<1>11. ASSUME NEW r \in Requests, RereadWinner(r)
      PROVE  RowIsStored'
  BY <1>11 DEF RereadWinner, Goto, Answer, AnswerFromRow
<1>12. ASSUME NEW r \in Requests, RereadSwept(r)
      PROVE  RowIsStored'
  BY <1>12 DEF RereadSwept, Goto, Answer
<1>13. ASSUME NEW r \in Requests, Crash(r)
      PROVE  RowIsStored'
  BY <1>13 DEF Crash, Goto
<1>14. ASSUME SweepBegin PROVE RowIsStored'
  BY <1>14 DEF SweepBegin
<1>15. ASSUME SweepDelete PROVE RowIsStored'
  BY <1>15 DEF SweepDelete, Expired
<1>16. ASSUME Tick PROVE RowIsStored'
  BY <1>16 DEF Tick
<1>17. CASE UNCHANGED vars
  BY <1>17 DEF vars
<1>. QED
  BY <1>1, <1>2, <1>3, <1>4, <1>5, <1>6, <1>7, <1>8, <1>9, <1>10,
     <1>11, <1>12, <1>13, <1>14, <1>15, <1>16, <1>17
     DEF Next, Dispatch

\* Only SweepDelete removes a row, and only an expired one.
LEMMA StoredLivesForTtlStep ==
    ASSUME TypeOK, ReplyIsLast, RowIsStored, SweepNotAhead, StoredLivesForTtl, [Next]_vars PROVE StoredLivesForTtl'
<1>. USE TTLAssumption, MaxClockAssumption DEF TypeOK, Rows, NoRow, Replies, NoReply, Never, ReplyIsLast, RowIsStored, SweepNotAhead, StoredLivesForTtl
<1>1. ASSUME NEW r \in Requests, SendKeyed(r)
      PROVE  StoredLivesForTtl'
  BY <1>1 DEF SendKeyed, Goto, Ended
<1>2. ASSUME NEW r \in Requests, NEW kind \in {"bypass", "too_large"}, SendOutside(r, kind)
      PROVE  StoredLivesForTtl'
  BY <1>2 DEF SendOutside, Goto, Answer, Ended
<1>3. ASSUME NEW r \in Requests, LookupHit(r)
      PROVE  StoredLivesForTtl'
  BY <1>3 DEF LookupHit, Goto, Answer, AnswerFromRow
<1>4. ASSUME NEW r \in Requests, LookupMiss(r)
      PROVE  StoredLivesForTtl'
  BY <1>4 DEF LookupMiss, Goto
<1>5. ASSUME NEW r \in Requests, HandlerCacheable(r)
      PROVE  StoredLivesForTtl'
  BY <1>5 DEF HandlerCacheable, Goto
<1>6. ASSUME NEW r \in Requests, NEW kind \in {"unstored", "raised"}, HandlerUncached(r, kind)
      PROVE  StoredLivesForTtl'
  BY <1>6 DEF HandlerUncached, Goto, Answer
<1>7. ASSUME NEW r \in Requests, Stamp(r)
      PROVE  StoredLivesForTtl'
  BY <1>7 DEF Stamp, Goto
<1>8. ASSUME NEW r \in Requests, PersistInsert(r)
      PROVE  StoredLivesForTtl'
  BY <1>8 DEF PersistInsert, Goto
<1>9. ASSUME NEW r \in Requests, PersistRefused(r)
      PROVE  StoredLivesForTtl'
  BY <1>9 DEF PersistRefused, Goto
<1>10. ASSUME NEW r \in Requests, Return(r)
      PROVE  StoredLivesForTtl'
  BY <1>10 DEF Return, Goto
<1>11. ASSUME NEW r \in Requests, RereadWinner(r)
      PROVE  StoredLivesForTtl'
  BY <1>11 DEF RereadWinner, Goto, Answer, AnswerFromRow
<1>12. ASSUME NEW r \in Requests, RereadSwept(r)
      PROVE  StoredLivesForTtl'
  BY <1>12 DEF RereadSwept, Goto, Answer
<1>13. ASSUME NEW r \in Requests, Crash(r)
      PROVE  StoredLivesForTtl'
  BY <1>13 DEF Crash, Goto
<1>14. ASSUME SweepBegin PROVE StoredLivesForTtl'
  BY <1>14 DEF SweepBegin
<1>15. ASSUME SweepDelete PROVE StoredLivesForTtl'
  <2>. SUFFICES ASSUME NEW w \in Requests, reply[w].kind = "stored",
                       ~(stamp[w] + TTL < now)
                PROVE  table'[req[w].key] # NoRow /\ table'[req[w].key].from = w
    BY <1>15 DEF SweepDelete
  <2>. DEFINE k == req[w].key
  <2>1. k \in Keys /\ table[k] # NoRow /\ table[k].from = w
    OBVIOUS
  <2>2. table[k].at = stamp[w] /\ stamp[w] \in Nat
    BY <2>1
  <2>3. ~Expired(table[k])
    BY <1>15, <2>2 DEF SweepDelete, Expired
  <2>4. table'[k] = table[k]
    BY <1>15, <2>1, <2>3 DEF SweepDelete
  <2>. QED
    BY <2>1, <2>4
<1>16. ASSUME Tick PROVE StoredLivesForTtl'
  BY <1>16 DEF Tick
<1>17. CASE UNCHANGED vars
  BY <1>17 DEF vars
<1>. QED
  BY <1>1, <1>2, <1>3, <1>4, <1>5, <1>6, <1>7, <1>8, <1>9, <1>10,
     <1>11, <1>12, <1>13, <1>14, <1>15, <1>16, <1>17
     DEF Next, Dispatch

\* A sweep's cutoff is computed from a clock value of the past.
LEMMA SweepNotAheadStep ==
    ASSUME TypeOK, SweepNotAhead, [Next]_vars PROVE SweepNotAhead'
<1>. USE TTLAssumption, MaxClockAssumption DEF TypeOK, SweepNotAhead, Never
<1>1. ASSUME NEW r \in Requests, SendKeyed(r)
      PROVE  SweepNotAhead'
  BY <1>1 DEF SendKeyed, Goto, Ended
<1>2. ASSUME NEW r \in Requests, NEW kind \in {"bypass", "too_large"}, SendOutside(r, kind)
      PROVE  SweepNotAhead'
  BY <1>2 DEF SendOutside, Goto, Answer, Ended
<1>3. ASSUME NEW r \in Requests, LookupHit(r)
      PROVE  SweepNotAhead'
  BY <1>3 DEF LookupHit, Goto, Answer, AnswerFromRow
<1>4. ASSUME NEW r \in Requests, LookupMiss(r)
      PROVE  SweepNotAhead'
  BY <1>4 DEF LookupMiss, Goto
<1>5. ASSUME NEW r \in Requests, HandlerCacheable(r)
      PROVE  SweepNotAhead'
  BY <1>5 DEF HandlerCacheable, Goto
<1>6. ASSUME NEW r \in Requests, NEW kind \in {"unstored", "raised"}, HandlerUncached(r, kind)
      PROVE  SweepNotAhead'
  BY <1>6 DEF HandlerUncached, Goto, Answer
<1>7. ASSUME NEW r \in Requests, Stamp(r)
      PROVE  SweepNotAhead'
  BY <1>7 DEF Stamp, Goto
<1>8. ASSUME NEW r \in Requests, PersistInsert(r)
      PROVE  SweepNotAhead'
  BY <1>8 DEF PersistInsert, Goto
<1>9. ASSUME NEW r \in Requests, PersistRefused(r)
      PROVE  SweepNotAhead'
  BY <1>9 DEF PersistRefused, Goto
<1>10. ASSUME NEW r \in Requests, Return(r)
      PROVE  SweepNotAhead'
  BY <1>10 DEF Return, Goto
<1>11. ASSUME NEW r \in Requests, RereadWinner(r)
      PROVE  SweepNotAhead'
  BY <1>11 DEF RereadWinner, Goto, Answer, AnswerFromRow
<1>12. ASSUME NEW r \in Requests, RereadSwept(r)
      PROVE  SweepNotAhead'
  BY <1>12 DEF RereadSwept, Goto, Answer
<1>13. ASSUME NEW r \in Requests, Crash(r)
      PROVE  SweepNotAhead'
  BY <1>13 DEF Crash, Goto
<1>14. ASSUME SweepBegin PROVE SweepNotAhead'
  BY <1>14 DEF SweepBegin
<1>15. ASSUME SweepDelete PROVE SweepNotAhead'
  BY <1>15 DEF SweepDelete, Expired
<1>16. ASSUME Tick PROVE SweepNotAhead'
  BY <1>16 DEF Tick
<1>17. CASE UNCHANGED vars
  BY <1>17 DEF vars
<1>. QED
  BY <1>1, <1>2, <1>3, <1>4, <1>5, <1>6, <1>7, <1>8, <1>9, <1>10,
     <1>11, <1>12, <1>13, <1>14, <1>15, <1>16, <1>17
     DEF Next, Dispatch

\* Answers of the current epoch agree with the table.
LEMMA AnswersAreCurrentStep ==
    ASSUME TypeOK, ReplyIsLast, AnswersAreCurrent, [Next]_vars PROVE AnswersAreCurrent'
<1>. USE TTLAssumption, MaxClockAssumption DEF TypeOK, Rows, NoRow, Replies, NoReply, Never, ReplyIsLast, AnswersAreCurrent, Protected
<1>1. ASSUME NEW r \in Requests, SendKeyed(r)
      PROVE  AnswersAreCurrent'
  BY <1>1 DEF SendKeyed, Goto, Ended
<1>2. ASSUME NEW r \in Requests, NEW kind \in {"bypass", "too_large"}, SendOutside(r, kind)
      PROVE  AnswersAreCurrent'
  BY <1>2 DEF SendOutside, Goto, Answer, Ended
<1>3. ASSUME NEW r \in Requests, LookupHit(r)
      PROVE  AnswersAreCurrent'
  BY <1>3 DEF LookupHit, Goto, Answer, AnswerFromRow
<1>4. ASSUME NEW r \in Requests, LookupMiss(r)
      PROVE  AnswersAreCurrent'
  BY <1>4 DEF LookupMiss, Goto
<1>5. ASSUME NEW r \in Requests, HandlerCacheable(r)
      PROVE  AnswersAreCurrent'
  BY <1>5 DEF HandlerCacheable, Goto
<1>6. ASSUME NEW r \in Requests, NEW kind \in {"unstored", "raised"}, HandlerUncached(r, kind)
      PROVE  AnswersAreCurrent'
  BY <1>6 DEF HandlerUncached, Goto, Answer
<1>7. ASSUME NEW r \in Requests, Stamp(r)
      PROVE  AnswersAreCurrent'
  BY <1>7 DEF Stamp, Goto
<1>8. ASSUME NEW r \in Requests, PersistInsert(r)
      PROVE  AnswersAreCurrent'
  <2>. DEFINE k == req[r].key
  <2>1. /\ k \in Keys
        /\ table[k] = NoRow
        /\ table' = [table EXCEPT ![k] = [from |-> r, body |-> req[r].body, at |-> stamp[r]]]
        /\ reply' = [reply EXCEPT ![r] = [kind |-> "stored", from |-> r, epoch |-> epoch[k]]]
        /\ UNCHANGED <<req, epoch>>
    BY <1>8 DEF PersistInsert
  <2>2. table'[k] = [from |-> r, body |-> req[r].body, at |-> stamp[r]]
    BY <2>1
  <2>. SUFFICES ASSUME NEW q \in Requests, Protected(q)'
                PROVE  /\ reply'[q].epoch <= epoch'[req'[q].key]
                       /\ reply'[q].epoch = epoch'[req'[q].key] =>
                             /\ table'[req'[q].key] # NoRow
                             /\ table'[req'[q].key].from = reply'[q].from
                             /\ table'[req'[q].key].body = req'[q].body
    OBVIOUS
  <2>3. CASE q = r
    <3>1. reply'[q] = [kind |-> "stored", from |-> r, epoch |-> epoch[k]]
      BY <2>1, <2>3
    <3>2. epoch[k] \in Nat /\ req'[q].key = k /\ req'[q].body = req[r].body /\ epoch' = epoch
      BY <2>1, <2>3
    <3>3. table'[k].from = r /\ table'[k].body = req[r].body
      BY <2>2
    <3>4. table'[k] # NoRow
      <4>1. "at" \in DOMAIN table'[k]
        BY <2>2
      <4>2. "at" \notin DOMAIN NoRow
        BY DEF NoRow
      <4>. QED
        BY <4>1, <4>2
    <3>. QED
      BY <3>1, <3>2, <3>3, <3>4
  <2>4. CASE q # r /\ req[q].key = k
    BY <2>1, <2>4
  <2>5. CASE q # r /\ req[q].key # k
    BY <2>1, <2>5
  <2>. QED
    BY <2>3, <2>4, <2>5
<1>9. ASSUME NEW r \in Requests, PersistRefused(r)
      PROVE  AnswersAreCurrent'
  BY <1>9 DEF PersistRefused, Goto
<1>10. ASSUME NEW r \in Requests, Return(r)
      PROVE  AnswersAreCurrent'
  BY <1>10 DEF Return, Goto
<1>11. ASSUME NEW r \in Requests, RereadWinner(r)
      PROVE  AnswersAreCurrent'
  BY <1>11 DEF RereadWinner, Goto, Answer, AnswerFromRow
<1>12. ASSUME NEW r \in Requests, RereadSwept(r)
      PROVE  AnswersAreCurrent'
  BY <1>12 DEF RereadSwept, Goto, Answer
<1>13. ASSUME NEW r \in Requests, Crash(r)
      PROVE  AnswersAreCurrent'
  BY <1>13 DEF Crash, Goto
<1>14. ASSUME SweepBegin PROVE AnswersAreCurrent'
  BY <1>14 DEF SweepBegin
<1>15. ASSUME SweepDelete PROVE AnswersAreCurrent'
  <2>. SUFFICES ASSUME NEW q \in Requests, Protected(q)
                PROVE  /\ reply[q].epoch <= epoch'[req[q].key]
                       /\ reply[q].epoch = epoch'[req[q].key] =>
                             /\ table'[req[q].key] # NoRow
                             /\ table'[req[q].key].from = reply[q].from
                             /\ table'[req[q].key].body = req[q].body
    BY <1>15 DEF SweepDelete
  <2>. DEFINE k == req[q].key
  <2>0. reply[q] \in [kind : {"stored", "replay"}, from : Requests, epoch : Nat]
    <3>1. reply[q] \in Replies \cup {NoReply}
      BY DEF TypeOK
    <3>. QED
      BY <3>1
  <2>1. k \in Keys /\ epoch[k] \in Nat /\ reply[q].epoch \in Nat
    BY <2>0
  <2>2. CASE Expired(table[k])
    <3>1. epoch'[k] = epoch[k] + 1
      BY <1>15, <2>1, <2>2 DEF SweepDelete
    <3>. QED
      BY <2>1, <3>1
  <2>3. CASE ~Expired(table[k])
    <3>1. epoch'[k] = epoch[k] /\ table'[k] = table[k]
      BY <1>15, <2>1, <2>3 DEF SweepDelete
    <3>. QED
      BY <2>1, <3>1
  <2>. QED
    BY <2>2, <2>3
<1>16. ASSUME Tick PROVE AnswersAreCurrent'
  BY <1>16 DEF Tick
<1>17. CASE UNCHANGED vars
  BY <1>17 DEF vars
<1>. QED
  BY <1>1, <1>2, <1>3, <1>4, <1>5, <1>6, <1>7, <1>8, <1>9, <1>10,
     <1>11, <1>12, <1>13, <1>14, <1>15, <1>16, <1>17
     DEF Next, Dispatch

\* Every answer is about the request's own key and body.
LEMMA AnswersMatchStep ==
    ASSUME TypeOK, ReplyIsLast, RanIsPast, RowIsStored, AnswersMatchRequest, [Next]_vars PROVE AnswersMatchRequest'
<1>. USE TTLAssumption, MaxClockAssumption DEF TypeOK, Rows, NoRow, Replies, NoReply, Never, ReplyIsLast, RanIsPast, RowIsStored, AnswersMatchRequest, Protected
<1>1. ASSUME NEW r \in Requests, SendKeyed(r)
      PROVE  AnswersMatchRequest'
  BY <1>1 DEF SendKeyed, Goto, Ended
<1>2. ASSUME NEW r \in Requests, NEW kind \in {"bypass", "too_large"}, SendOutside(r, kind)
      PROVE  AnswersMatchRequest'
  BY <1>2 DEF SendOutside, Goto, Answer, Ended
<1>3. ASSUME NEW r \in Requests, LookupHit(r)
      PROVE  AnswersMatchRequest'
  <2>. DEFINE k == req[r].key
              row == table[k]
  <2>1. /\ row # NoRow /\ k \in Keys /\ row.from \in ran
        /\ req[row.from] = [key |-> k, body |-> row.body]
    BY <1>3 DEF LookupHit
  <2>2. UNCHANGED <<req, ran>>
    BY <1>3 DEF LookupHit
  <2>3. CASE row.body = req[r].body
    <3>1. /\ req[row.from] = req[r]
          /\ reply' = [reply EXCEPT ![r] =
                [kind |-> "replay", from |-> row.from, epoch |-> epoch[k]]]
      BY <1>3, <2>1, <2>3 DEF LookupHit, Goto, Answer, AnswerFromRow
    <3>. QED
      BY <2>1, <2>2, <3>1
  <2>4. CASE row.body # req[r].body
    <3>1. reply' = [reply EXCEPT ![r] = [kind |-> "conflict", from |-> row.from]]
      BY <1>3, <2>1, <2>4 DEF LookupHit, Goto, Answer, AnswerFromRow
    <3>. QED
      BY <2>1, <2>2, <2>4, <3>1
  <2>. QED
    BY <2>3, <2>4
<1>4. ASSUME NEW r \in Requests, LookupMiss(r)
      PROVE  AnswersMatchRequest'
  BY <1>4 DEF LookupMiss, Goto
<1>5. ASSUME NEW r \in Requests, HandlerCacheable(r)
      PROVE  AnswersMatchRequest'
  BY <1>5 DEF HandlerCacheable, Goto
<1>6. ASSUME NEW r \in Requests, NEW kind \in {"unstored", "raised"}, HandlerUncached(r, kind)
      PROVE  AnswersMatchRequest'
  BY <1>6 DEF HandlerUncached, Goto, Answer
<1>7. ASSUME NEW r \in Requests, Stamp(r)
      PROVE  AnswersMatchRequest'
  BY <1>7 DEF Stamp, Goto
<1>8. ASSUME NEW r \in Requests, PersistInsert(r)
      PROVE  AnswersMatchRequest'
  BY <1>8 DEF PersistInsert, Goto
<1>9. ASSUME NEW r \in Requests, PersistRefused(r)
      PROVE  AnswersMatchRequest'
  BY <1>9 DEF PersistRefused, Goto
<1>10. ASSUME NEW r \in Requests, Return(r)
      PROVE  AnswersMatchRequest'
  BY <1>10 DEF Return, Goto
<1>11. ASSUME NEW r \in Requests, RereadWinner(r)
      PROVE  AnswersMatchRequest'
  <2>. DEFINE k == req[r].key
              row == table[k]
  <2>1. /\ row # NoRow /\ k \in Keys /\ row.from \in ran
        /\ req[row.from] = [key |-> k, body |-> row.body]
    BY <1>11 DEF RereadWinner
  <2>2. UNCHANGED <<req, ran>>
    BY <1>11 DEF RereadWinner
  <2>3. CASE row.body = req[r].body
    <3>1. /\ req[row.from] = req[r]
          /\ reply' = [reply EXCEPT ![r] =
                [kind |-> "replay", from |-> row.from, epoch |-> epoch[k]]]
      BY <1>11, <2>1, <2>3 DEF RereadWinner, Goto, Answer, AnswerFromRow
    <3>. QED
      BY <2>1, <2>2, <3>1
  <2>4. CASE row.body # req[r].body
    <3>1. reply' = [reply EXCEPT ![r] = [kind |-> "conflict", from |-> row.from]]
      BY <1>11, <2>1, <2>4 DEF RereadWinner, Goto, Answer, AnswerFromRow
    <3>. QED
      BY <2>1, <2>2, <2>4, <3>1
  <2>. QED
    BY <2>3, <2>4
<1>12. ASSUME NEW r \in Requests, RereadSwept(r)
      PROVE  AnswersMatchRequest'
  BY <1>12 DEF RereadSwept, Goto, Answer
<1>13. ASSUME NEW r \in Requests, Crash(r)
      PROVE  AnswersMatchRequest'
  BY <1>13 DEF Crash, Goto
<1>14. ASSUME SweepBegin PROVE AnswersMatchRequest'
  BY <1>14 DEF SweepBegin
<1>15. ASSUME SweepDelete PROVE AnswersMatchRequest'
  BY <1>15 DEF SweepDelete, Expired
<1>16. ASSUME Tick PROVE AnswersMatchRequest'
  BY <1>16 DEF Tick
<1>17. CASE UNCHANGED vars
  BY <1>17 DEF vars
<1>. QED
  BY <1>1, <1>2, <1>3, <1>4, <1>5, <1>6, <1>7, <1>8, <1>9, <1>10,
     <1>11, <1>12, <1>13, <1>14, <1>15, <1>16, <1>17
     DEF Next, Dispatch

\* A new answer agrees with the answers of its epoch.
LEMMA OneResponseStep ==
    ASSUME TypeOK, ReplyIsLast, AnswersAreCurrent, OneResponsePerKey, [Next]_vars PROVE OneResponsePerKey'
<1>. USE TTLAssumption, MaxClockAssumption DEF TypeOK, Rows, NoRow, Replies, NoReply, Never, ReplyIsLast, AnswersAreCurrent, OneResponsePerKey, Protected
<1>1. ASSUME NEW r \in Requests, SendKeyed(r)
      PROVE  OneResponsePerKey'
  BY <1>1 DEF SendKeyed, Goto, Ended
<1>2. ASSUME NEW r \in Requests, NEW kind \in {"bypass", "too_large"}, SendOutside(r, kind)
      PROVE  OneResponsePerKey'
  BY <1>2 DEF SendOutside, Goto, Answer, Ended
<1>3. ASSUME NEW r \in Requests, LookupHit(r)
      PROVE  OneResponsePerKey'
  <2>. DEFINE k == req[r].key
              row == table[k]
  <2>1. row # NoRow /\ k \in Keys /\ UNCHANGED req
    BY <1>3 DEF LookupHit
  <2>2. CASE row.body = req[r].body
    <3>1. reply' = [reply EXCEPT ![r] =
                [kind |-> "replay", from |-> row.from, epoch |-> epoch[k]]]
      BY <1>3, <2>1, <2>2 DEF LookupHit, Goto, Answer, AnswerFromRow
    <3>2. \A q \in Requests \ {r} :
             Protected(q) /\ req[q].key = k /\ reply[q].epoch = epoch[k] =>
                 reply[q].from = row.from /\ req[q].body = row.body
      BY <2>1
    <3>3. \A q \in Requests \ {r} : reply'[q] = reply[q]
      BY <3>1
    <3>4. reply'[r] = [kind |-> "replay", from |-> row.from, epoch |-> epoch[k]]
      BY <3>1
    <3>. QED
      BY <2>1, <2>2, <3>2, <3>3, <3>4
  <2>3. CASE row.body # req[r].body
    <3>1. reply' = [reply EXCEPT ![r] = [kind |-> "conflict", from |-> row.from]]
      BY <1>3, <2>1, <2>3 DEF LookupHit, Goto, Answer, AnswerFromRow
    <3>. QED
      BY <2>1, <3>1
  <2>. QED
    BY <2>2, <2>3
<1>4. ASSUME NEW r \in Requests, LookupMiss(r)
      PROVE  OneResponsePerKey'
  BY <1>4 DEF LookupMiss, Goto
<1>5. ASSUME NEW r \in Requests, HandlerCacheable(r)
      PROVE  OneResponsePerKey'
  BY <1>5 DEF HandlerCacheable, Goto
<1>6. ASSUME NEW r \in Requests, NEW kind \in {"unstored", "raised"}, HandlerUncached(r, kind)
      PROVE  OneResponsePerKey'
  BY <1>6 DEF HandlerUncached, Goto, Answer
<1>7. ASSUME NEW r \in Requests, Stamp(r)
      PROVE  OneResponsePerKey'
  BY <1>7 DEF Stamp, Goto
<1>8. ASSUME NEW r \in Requests, PersistInsert(r)
      PROVE  OneResponsePerKey'
  BY <1>8 DEF PersistInsert, Goto
<1>9. ASSUME NEW r \in Requests, PersistRefused(r)
      PROVE  OneResponsePerKey'
  BY <1>9 DEF PersistRefused, Goto
<1>10. ASSUME NEW r \in Requests, Return(r)
      PROVE  OneResponsePerKey'
  BY <1>10 DEF Return, Goto
<1>11. ASSUME NEW r \in Requests, RereadWinner(r)
      PROVE  OneResponsePerKey'
  <2>. DEFINE k == req[r].key
              row == table[k]
  <2>1. row # NoRow /\ k \in Keys /\ UNCHANGED req
    BY <1>11 DEF RereadWinner
  <2>2. CASE row.body = req[r].body
    <3>1. reply' = [reply EXCEPT ![r] =
                [kind |-> "replay", from |-> row.from, epoch |-> epoch[k]]]
      BY <1>11, <2>1, <2>2 DEF RereadWinner, Goto, Answer, AnswerFromRow
    <3>2. \A q \in Requests \ {r} :
             Protected(q) /\ req[q].key = k /\ reply[q].epoch = epoch[k] =>
                 reply[q].from = row.from /\ req[q].body = row.body
      BY <2>1
    <3>3. \A q \in Requests \ {r} : reply'[q] = reply[q]
      BY <3>1
    <3>4. reply'[r] = [kind |-> "replay", from |-> row.from, epoch |-> epoch[k]]
      BY <3>1
    <3>. QED
      BY <2>1, <2>2, <3>2, <3>3, <3>4
  <2>3. CASE row.body # req[r].body
    <3>1. reply' = [reply EXCEPT ![r] = [kind |-> "conflict", from |-> row.from]]
      BY <1>11, <2>1, <2>3 DEF RereadWinner, Goto, Answer, AnswerFromRow
    <3>. QED
      BY <2>1, <3>1
  <2>. QED
    BY <2>2, <2>3
<1>12. ASSUME NEW r \in Requests, RereadSwept(r)
      PROVE  OneResponsePerKey'
  BY <1>12 DEF RereadSwept, Goto, Answer
<1>13. ASSUME NEW r \in Requests, Crash(r)
      PROVE  OneResponsePerKey'
  BY <1>13 DEF Crash, Goto
<1>14. ASSUME SweepBegin PROVE OneResponsePerKey'
  BY <1>14 DEF SweepBegin
<1>15. ASSUME SweepDelete PROVE OneResponsePerKey'
  BY <1>15 DEF SweepDelete, Expired
<1>16. ASSUME Tick PROVE OneResponsePerKey'
  BY <1>16 DEF Tick
<1>17. CASE UNCHANGED vars
  BY <1>17 DEF vars
<1>. QED
  BY <1>1, <1>2, <1>3, <1>4, <1>5, <1>6, <1>7, <1>8, <1>9, <1>10,
     <1>11, <1>12, <1>13, <1>14, <1>15, <1>16, <1>17
     DEF Next, Dispatch

\* A lookup that misses after a committed attempt does so past its TTL.
LEMMA MissedAfterTtlStep ==
    ASSUME TypeOK, ReplyIsLast, RanIsPast, BeforeIsEnded, StoredLivesForTtl, MissedAfterTtl, [Next]_vars PROVE MissedAfterTtl'
<1>. USE TTLAssumption, MaxClockAssumption DEF TypeOK, Rows, NoRow, Replies, NoReply, Never, ReplyIsLast, RanIsPast, BeforeIsEnded, Ended, StoredLivesForTtl, MissedAfterTtl
<1>1. ASSUME NEW r \in Requests, SendKeyed(r)
      PROVE  MissedAfterTtl'
  BY <1>1 DEF SendKeyed, Goto, Ended
<1>2. ASSUME NEW r \in Requests, NEW kind \in {"bypass", "too_large"}, SendOutside(r, kind)
      PROVE  MissedAfterTtl'
  BY <1>2 DEF SendOutside, Goto, Answer, Ended
<1>3. ASSUME NEW r \in Requests, LookupHit(r)
      PROVE  MissedAfterTtl'
  BY <1>3 DEF LookupHit, Goto, Answer, AnswerFromRow
<1>4. ASSUME NEW r \in Requests, LookupMiss(r)
      PROVE  MissedAfterTtl'
  BY <1>4 DEF LookupMiss, Goto
<1>5. ASSUME NEW r \in Requests, HandlerCacheable(r)
      PROVE  MissedAfterTtl'
  BY <1>5 DEF HandlerCacheable, Goto
<1>6. ASSUME NEW r \in Requests, NEW kind \in {"unstored", "raised"}, HandlerUncached(r, kind)
      PROVE  MissedAfterTtl'
  BY <1>6 DEF HandlerUncached, Goto, Answer
<1>7. ASSUME NEW r \in Requests, Stamp(r)
      PROVE  MissedAfterTtl'
  BY <1>7 DEF Stamp, Goto
<1>8. ASSUME NEW r \in Requests, PersistInsert(r)
      PROVE  MissedAfterTtl'
  BY <1>8 DEF PersistInsert, Goto
<1>9. ASSUME NEW r \in Requests, PersistRefused(r)
      PROVE  MissedAfterTtl'
  BY <1>9 DEF PersistRefused, Goto
<1>10. ASSUME NEW r \in Requests, Return(r)
      PROVE  MissedAfterTtl'
  BY <1>10 DEF Return, Goto
<1>11. ASSUME NEW r \in Requests, RereadWinner(r)
      PROVE  MissedAfterTtl'
  BY <1>11 DEF RereadWinner, Goto, Answer, AnswerFromRow
<1>12. ASSUME NEW r \in Requests, RereadSwept(r)
      PROVE  MissedAfterTtl'
  BY <1>12 DEF RereadSwept, Goto, Answer
<1>13. ASSUME NEW r \in Requests, Crash(r)
      PROVE  MissedAfterTtl'
  BY <1>13 DEF Crash, Goto
<1>14. ASSUME SweepBegin PROVE MissedAfterTtl'
  BY <1>14 DEF SweepBegin
<1>15. ASSUME SweepDelete PROVE MissedAfterTtl'
  BY <1>15 DEF SweepDelete, Expired
<1>16. ASSUME Tick PROVE MissedAfterTtl'
  BY <1>16 DEF Tick
<1>17. CASE UNCHANGED vars
  BY <1>17 DEF vars
<1>. QED
  BY <1>1, <1>2, <1>3, <1>4, <1>5, <1>6, <1>7, <1>8, <1>9, <1>10,
     <1>11, <1>12, <1>13, <1>14, <1>15, <1>16, <1>17
     DEF Next, Dispatch

-----------------------------------------------------------------------------
(* The theorems.                                                           *)

\* A fresh deployment satisfies the invariant.
LEMMA InitIInv == Init => IInv
<1>. SUFFICES ASSUME Init PROVE IInv
  OBVIOUS
<1>. USE DEF Init, NoRow, NoReply, Never
<1>1. TypeOK
  BY DEF TypeOK, Rows, Replies
<1>2. ReplyIsLast /\ RanIsPast /\ BeforeIsEnded
  BY DEF ReplyIsLast, RanIsPast, BeforeIsEnded
<1>3. RowIsStored /\ StoredLivesForTtl /\ SweepNotAhead
  BY DEF RowIsStored, StoredLivesForTtl, SweepNotAhead
<1>4. AnswersAreCurrent /\ AnswersMatchRequest /\ OneResponsePerKey
  BY DEF AnswersAreCurrent, AnswersMatchRequest, OneResponsePerKey, Protected
<1>5. MissedAfterTtl
  BY DEF MissedAfterTtl
<1>. QED
  BY <1>1, <1>2, <1>3, <1>4, <1>5 DEF IInv

\* The invariant is inductive: each conjunct's lemma uses the others before the
\* step only.
LEMMA NextIInv == IInv /\ [Next]_vars => IInv'
BY TypeStep, ReplyIsLastStep, RanIsPastStep, BeforeIsEndedStep, RowIsStoredStep,
   StoredLivesForTtlStep, SweepNotAheadStep, AnswersAreCurrentStep,
   AnswersMatchStep, OneResponseStep, MissedAfterTtlStep
   DEF IInv

\* The inductive invariant holds of every reachable state.
THEOREM Invariance == Spec => []IInv
BY InitIInv, NextIInv, PTL DEF Spec

\* Types hold of every reachable state.
THEOREM TypeCorrect == Spec => []TypeOK
<1>1. IInv => TypeOK
  BY DEF IInv
<1>. QED
  BY Invariance, <1>1, PTL

\* Between two sweeps of a key its requests are answered with one response: no
\* race of lookups and INSERTs, crash or retry lets out a second one.
THEOREM OneResponse == Spec => []OneResponsePerKey
<1>1. IInv => OneResponsePerKey
  BY DEF IInv
<1>. QED
  BY Invariance, <1>1, PTL

\* A response is replayed only to its own key and body, and a 409 is only given
\* for another body.
THEOREM AnswersMatch == Spec => []AnswersMatchRequest
<1>1. IInv => AnswersMatchRequest
  BY DEF IInv
<1>. QED
  BY Invariance, <1>1, PTL

\* A retry of an attempt whose response was committed, received or not, never
\* runs the handler before the TTL of that response is over.
THEOREM RetryIsSafe == Spec => []RetryWithinTtlNeverReexecutes
<1>1. IInv => RetryWithinTtlNeverReexecutes
  BY DEF IInv, MissedAfterTtl, RetryWithinTtlNeverReexecutes
<1>. QED
  BY Invariance, <1>1, PTL

\* One response per key, and no second run of the handler within its TTL.
THEOREM SoundCache == Spec => []CacheIsSound
BY OneResponse, RetryIsSafe, PTL DEF CacheIsSound

\* Stored responses are immutable, and leave the table past their TTL only.
THEOREM OnlyExpiry == Spec => RowsOnlyExpire
<1>. DEFINE Expiry ==
        \A k \in Keys : table[k] # NoRow /\ table'[k] # table[k] =>
            table'[k] = NoRow /\ table[k].at + TTL < now
<1>1. ASSUME IInv, [Next]_vars PROVE [Expiry]_vars
  <2>. SUFFICES ASSUME NEW k \in Keys, table[k] # NoRow, table'[k] # table[k]
                PROVE  table'[k] = NoRow /\ table[k].at + TTL < now
    OBVIOUS
  <2>. USE <1>1, TTLAssumption DEF IInv, TypeOK, NoRow, Never
  <2>1. CASE SweepDelete
    <3>1. Expired(table[k]) /\ table'[k] = NoRow
      BY <2>1 DEF SweepDelete
    <3>2. table[k].at \in Nat
      BY DEF Rows
    <3>. QED
      BY <3>1, <3>2 DEF Expired, SweepNotAhead
  <2>2. ASSUME NEW r \in Requests, PersistInsert(r) PROVE FALSE
    BY <2>2 DEF PersistInsert
  <2>3. table' # table
    OBVIOUS
  <2>4. SweepDelete \/ \E r \in Requests : PersistInsert(r)
    BY <2>3 DEF Next, vars, Dispatch, SendKeyed, SendOutside, LookupHit, LookupMiss,
         HandlerCacheable, HandlerUncached, Stamp, PersistRefused, Return,
         RereadWinner, RereadSwept, Crash, SweepBegin, Tick
  <2>. QED
    BY <2>1, <2>2, <2>4
<1>. QED
  BY Invariance, <1>1, PTL DEF Spec, RowsOnlyExpire

-----------------------------------------------------------------------------
(* Idempotency implements ReplayStore.                                     *)

\* The shape of a reply, by its kind.
LEMMA ReplyShape ==
    ASSUME TypeOK, NEW r \in Requests
    PROVE  \/ reply[r] = NoReply
           \/ reply[r].kind \in {"stored", "replay"} /\ reply[r].from \in Requests
           \/ reply[r].kind = "conflict" /\ reply[r].from \in Requests
           \/ reply[r].kind \in {"unstored", "bypass", "too_large", "raised"}
<1>1. reply[r] \in Replies \cup {NoReply}
  BY DEF TypeOK
<1>. QED
  BY <1>1 DEF Replies

\* A step that changes no row and no reply is a stutter.
LEMMA Stutter ==
    ASSUME UNCHANGED <<req, table, reply>> PROVE UNCHANGED Store!vars
BY DEF Store!vars, AbstractDecision, AbstractAnswer

\* A reply outside the store's promise.
LEMMA OpaqueStep ==
    ASSUME TypeOK, NEW r \in Requests, reply[r] = NoReply,
           NEW kind \in {"unstored", "bypass", "too_large", "raised"},
           reply' = [reply EXCEPT ![r] = [kind |-> kind]],
           UNCHANGED <<req, table>>
    PROVE  Store!AnswerOpaquely(r)
<1>1. AbstractAnswer[r] = Store!Unanswered
  BY DEF AbstractAnswer, NoReply, Store!Unanswered
<1>2. AbstractAnswer' = [AbstractAnswer EXCEPT ![r] = Store!Opaque]
  BY DEF AbstractAnswer, TypeOK, Store!Opaque
<1>3. UNCHANGED <<req, AbstractDecision>>
  BY DEF AbstractDecision
<1>. QED
  BY <1>1, <1>2, <1>3 DEF Store!AnswerOpaquely

\* An answer from the row that the lookup or the re-read found.
LEMMA RecallStep ==
    ASSUME TypeOK, NEW r \in Requests, reply[r] = NoReply,
           table[req[r].key] # NoRow, AnswerFromRow(r, table[req[r].key]),
           UNCHANGED <<req, table>>
    PROVE  Store!Recall(r)
<1>. DEFINE k == req[r].key
            row == table[k]
<1>1. AbstractAnswer[r] = Store!Unanswered
  BY DEF AbstractAnswer, NoReply, Store!Unanswered
<1>2. k \in Keys
  BY DEF TypeOK
<1>3. AbstractDecision[k] = [from |-> row.from, body |-> row.body]
  BY <1>2 DEF AbstractDecision
<1>4. AbstractDecision[k] # Store!Undecided
  <2>1. "body" \in DOMAIN AbstractDecision[k]
    BY <1>3
  <2>2. "body" \notin DOMAIN Store!Undecided
    BY DEF Store!Undecided
  <2>. QED
    BY <2>1, <2>2
<1>5. AbstractAnswer' = [AbstractAnswer EXCEPT ![r] =
        [kind |-> IF row.body = req[r].body THEN "response" ELSE "conflict",
         from |-> row.from]]
  BY DEF AbstractAnswer, TypeOK, AnswerFromRow, Answer
<1>6. UNCHANGED <<req, AbstractDecision>>
  BY DEF AbstractDecision
<1>. QED
  BY <1>1, <1>3, <1>4, <1>5, <1>6 DEF Store!Recall

\* The INSERT decides the key's response.
LEMMA DecideStep ==
    ASSUME TypeOK, NEW r \in Requests, reply[r] = NoReply, PersistInsert(r)
    PROVE  Store!Decide(r)
<1>. DEFINE k == req[r].key
            row == [from |-> r, body |-> req[r].body, at |-> stamp[r]]
<1>1. AbstractAnswer[r] = Store!Unanswered
  BY DEF AbstractAnswer, NoReply, Store!Unanswered
<1>2. k \in Keys
  BY DEF TypeOK
<1>3. AbstractDecision[k] = Store!Undecided
  BY <1>2 DEF PersistInsert, AbstractDecision, Store!Undecided
<1>4. row # NoRow
  <2>1. "at" \in DOMAIN row /\ "at" \notin DOMAIN NoRow
    BY DEF NoRow
  <2>. QED
    BY <2>1
<1>5. table' = [table EXCEPT ![k] = row] /\ req' = req
  BY DEF PersistInsert
<1>6. AbstractDecision' =
        [AbstractDecision EXCEPT ![k] = [from |-> r, body |-> req[r].body]]
  <2>1. \A j \in Keys : AbstractDecision'[j] =
          IF j = k THEN [from |-> r, body |-> req[r].body] ELSE AbstractDecision[j]
    BY <1>2, <1>4, <1>5 DEF AbstractDecision, TypeOK
  <2>. QED
    BY <2>1, <1>2 DEF AbstractDecision
<1>7. AbstractAnswer' =
        [AbstractAnswer EXCEPT ![r] = [kind |-> "response", from |-> r]]
  BY DEF AbstractAnswer, TypeOK, PersistInsert
<1>. QED
  BY <1>1, <1>3, <1>5, <1>6, <1>7 DEF Store!Decide

\* A sweep forgets the keys whose rows expired.
LEMMA ForgetStep ==
    ASSUME TypeOK, SweepDelete
    PROVE  Store!Forget({k \in Keys : Expired(table[k])})
<1>1. AbstractDecision' =
        [k \in Keys |-> IF k \in {j \in Keys : Expired(table[j])}
                         THEN Store!Undecided ELSE AbstractDecision[k]]
  BY DEF SweepDelete, AbstractDecision, Store!Undecided, NoRow
<1>2. UNCHANGED <<req, AbstractAnswer>>
  BY DEF SweepDelete, AbstractAnswer
<1>. QED
  BY <1>1, <1>2 DEF Store!Forget

\* Every step of the middleware is a step of the store or a stutter.
LEMMA StepSimulation ==
    ASSUME IInv, [Next]_vars PROVE [Store!Next]_(Store!vars)
<1>0. TypeOK
  BY DEF IInv
<1>. DEFINE Mapped == [Store!Next]_(Store!vars)
<1>1. ASSUME NEW r \in Requests, Dispatch(r) PROVE Mapped
  <2>1. CASE SendKeyed(r) \/ LookupMiss(r) \/ HandlerCacheable(r) \/ Stamp(r)
             \/ PersistRefused(r) \/ Return(r) \/ Crash(r)
    BY <2>1, Stutter DEF SendKeyed, LookupMiss, HandlerCacheable, Stamp,
         PersistRefused, Return, Crash
  <2>2. ASSUME NEW kind \in {"bypass", "too_large"}, SendOutside(r, kind) PROVE Mapped
    <3>1. Store!AnswerOpaquely(r)
      BY <1>0, <2>2, OpaqueStep DEF SendOutside, Answer, IInv, ReplyIsLast
    <3>. QED
      BY <3>1 DEF Store!Next
  <2>3. ASSUME NEW kind \in {"unstored", "raised"}, HandlerUncached(r, kind) PROVE Mapped
    <3>1. Store!AnswerOpaquely(r)
      BY <1>0, <2>3, OpaqueStep DEF HandlerUncached, Answer, IInv, ReplyIsLast
    <3>. QED
      BY <3>1 DEF Store!Next
  <2>4. CASE RereadSwept(r)
    <3>1. Store!AnswerOpaquely(r)
      BY <1>0, <2>4, OpaqueStep DEF RereadSwept, Answer, IInv, ReplyIsLast
    <3>. QED
      BY <3>1 DEF Store!Next
  <2>5. CASE LookupHit(r) \/ RereadWinner(r)
    <3>1. Store!Recall(r)
      BY <1>0, <2>5, RecallStep DEF LookupHit, RereadWinner, IInv, ReplyIsLast
    <3>. QED
      BY <3>1 DEF Store!Next
  <2>6. CASE PersistInsert(r)
    <3>1. reply[r] = NoReply
      BY <2>6 DEF PersistInsert, IInv, ReplyIsLast
    <3>2. Store!Decide(r)
      BY <1>0, <2>6, <3>1, DecideStep
    <3>. QED
      BY <3>2 DEF Store!Next
  <2>. QED
    BY <1>1, <2>1, <2>2, <2>3, <2>4, <2>5, <2>6 DEF Dispatch
<1>2. CASE SweepDelete
  <2>1. Store!Forget({k \in Keys : Expired(table[k])})
    BY <1>0, <1>2, ForgetStep
  <2>. QED
    BY <2>1 DEF Store!Next
<1>3. CASE SweepBegin \/ Tick \/ UNCHANGED vars
  BY <1>3, Stutter DEF SweepBegin, Tick, vars
<1>. QED
  BY <1>1, <1>2, <1>3 DEF Next

\* The middleware implements the replay store: lookups, handlers, INSERTs,
\* re-reads, crashes and sweeps in any order look to its clients like one
\* decision per key that is recalled until it is forgotten.
THEOREM Refinement == Spec => ImplementsReplayStore
<1>1. Init => Store!Init
  BY DEF Init, Store!Init, AbstractDecision, AbstractAnswer, NoRow, NoReply,
       Store!Undecided, Store!Unanswered
<1>2. IInv /\ [Next]_vars => [Store!Next]_(Store!vars)
  BY StepSimulation
<1>. QED
  BY <1>1, <1>2, Invariance, PTL DEF Spec, Store!Spec, ImplementsReplayStore

=============================================================================
