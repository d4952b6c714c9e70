---------------------------- MODULE Idempotency ----------------------------
(***************************************************************************)
(* The Idempotency-Key middleware (app/api/middleware/idempotency.py): a   *)
(* persisted replay cache in front of every POST handler.                  *)
(*                                                                         *)
(* A request is looked up in one unit of work, its handler then runs in a  *)
(* unit of work of its own, and the response is persisted in a third one.  *)
(* Requests of several processes interleave between these steps; a process *)
(* may die at any of them, and the TTL sweep of the worker deletes rows    *)
(* concurrently.                                                           *)
(*                                                                         *)
(* A member of Keys stands for a pair (token_id, Idempotency-Key), a member*)
(* of Bodies for a canonical body hash.  A retry is a further member of    *)
(* Requests sent with the same key and body.  A response is identified by  *)
(* the request whose handler produced it.                                  *)
(***************************************************************************)
EXTENDS Integers

CONSTANTS
    Requests,   \* HTTP requests, each sent at most once
    Keys,       \* (token_id, key) pairs
    Bodies,     \* canonical body hashes
    TTL,        \* IDEMPOTENCY_TTL_HOURS, in clock ticks
    MaxClock    \* bound on the clock

ASSUME TTLAssumption == TTL \in Nat
ASSUME MaxClockAssumption == MaxClock \in Nat

NoRow == [from |-> "none"]
NoReply == [kind |-> "none"]
Never == -1

Rows == [from : Requests, body : Bodies, at : Nat]

\* How _dispatch_ answers: with its own response, now stored; with the row's
\* response; with a 409; with its own response, not stored; or without the
\* cache having been consulted at all.
Replies ==
    [kind : {"stored", "replay"}, from : Requests, epoch : Nat]
        \cup [kind : {"conflict"}, from : Requests]
        \cup [kind : {"unstored", "bypass", "too_large", "raised"}]

VARIABLES
    pc,      \* pc[r]: where request r is
    req,     \* req[r]: its key and body
    table,   \* table[k]: the idempotency_key row of k, or NoRow
    stamp,   \* stamp[r]: created_at, read from the clock before the INSERT
    reply,   \* reply[r]: the response that _dispatch_ returns
    sweepAt, \* the clock value a running sweep computed its cutoff from
    now,     \* the wall clock
    \* History, read by the properties only.
    ran,     \* keyed requests whose handler was invoked
    missAt,  \* missAt[r]: when r's lookup missed
    before,  \* before[r]: requests that had ended when r was sent
    epoch    \* epoch[k]: rows of k deleted so far

vars == <<pc, req, table, stamp, reply, sweepAt, now, ran, missAt, before, epoch>>

Ended == {r \in Requests : pc[r] \in {"done", "crashed"}}

Init ==
    /\ pc = [r \in Requests |-> "unsent"]
    /\ req \in [Requests -> [key : Keys, body : Bodies]]
    /\ table = [k \in Keys |-> NoRow]
    /\ stamp = [r \in Requests |-> 0]
    /\ reply = [r \in Requests |-> NoReply]
    /\ sweepAt = Never
    /\ now = 0
    /\ ran = {}
    /\ missAt = [r \in Requests |-> 0]
    /\ before = [r \in Requests |-> {}]
    /\ epoch = [k \in Keys |-> 0]

-----------------------------------------------------------------------------
(* One request through _dispatch_.                                         *)

Goto(r, label) == pc' = [pc EXCEPT ![r] = label]

Answer(r, answer) ==
    /\ reply' = [reply EXCEPT ![r] = answer]
    /\ Goto(r, "done")

\* The request arrives and is keyed: the lookup is next.
SendKeyed(r) ==
    /\ pc[r] = "unsent"
    /\ before' = [before EXCEPT ![r] = Ended]
    /\ Goto(r, "lookup")
    /\ UNCHANGED <<req, table, stamp, reply, sweepAt, now, ran, missAt, epoch>>

\* It is not a POST, has no key, is exempt or carries no token, and the handler
\* runs outside the cache; or its body is over the cap, and 413 is returned.
SendOutside(r, kind) ==
    /\ pc[r] = "unsent"
    /\ before' = [before EXCEPT ![r] = Ended]
    /\ Answer(r, [kind |-> kind])
    /\ UNCHANGED <<req, table, stamp, sweepAt, now, ran, missAt, epoch>>

\* The row's body hash is not compared before it is replayed.
AnswerFromRowUnchecked(r, row) ==
    Answer(r, [kind |-> "replay", from |-> row.from, epoch |-> epoch[req[r].key]])

\* _read_cached found a row: replay it, or 409 when the body hash differs.
\* Shared by the lookup and by the re-read after a lost INSERT.
AnswerFromRow(r, row) ==
    Answer(r, IF row.body = req[r].body
                THEN [kind |-> "replay", from |-> row.from,
                      epoch |-> epoch[req[r].key]]
                ELSE [kind |-> "conflict", from |-> row.from])

\* The cache lookup, in a unit of work of its own.
LookupHit(r) ==
    /\ pc[r] = "lookup"
    /\ table[req[r].key] # NoRow
    /\ AnswerFromRow(r, table[req[r].key])
    /\ UNCHANGED <<req, table, stamp, sweepAt, now, ran, missAt, before, epoch>>

LookupMiss(r) ==
    /\ pc[r] = "lookup"
    /\ table[req[r].key] = NoRow
    /\ Goto(r, "handler")
    /\ missAt' = [missAt EXCEPT ![r] = now]
    /\ UNCHANGED <<req, table, stamp, reply, sweepAt, now, ran, before, epoch>>

\* await call_next(request) gives a byte-bodied response below 500, which goes
\* on to be persisted.
HandlerCacheable(r) ==
    /\ pc[r] = "handler"
    /\ ran' = ran \cup {r}
    /\ Goto(r, "collect")
    /\ UNCHANGED <<req, table, stamp, reply, sweepAt, now, missAt, before, epoch>>

\* It gives a 5xx or a body that cannot be collected, returned but not stored;
\* or it raises, and so does _dispatch_.
HandlerUncached(r, kind) ==
    /\ pc[r] = "handler"
    /\ ran' = ran \cup {r}
    /\ Answer(r, [kind |-> kind])
    /\ UNCHANGED <<req, table, stamp, sweepAt, now, missAt, before, epoch>>

\* created_at is left unset.
StampUnset(r) ==
    /\ pc[r] = "collect"
    /\ stamp' = [stamp EXCEPT ![r] = Never]
    /\ Goto(r, "persist")
    /\ UNCHANGED <<req, table, reply, sweepAt, now, ran, missAt, before, epoch>>

\* The body is buffered and created_at read from the clock.
Stamp(r) ==
    /\ pc[r] = "collect"
    /\ stamp' = [stamp EXCEPT ![r] = now]
    /\ Goto(r, "persist")
    /\ UNCHANGED <<req, table, reply, sweepAt, now, ran, missAt, before, epoch>>

\* An INSERT OR REPLACE in place of the UNIQUE constraint.
PersistUpsert(r) ==
    LET k == req[r].key IN
    /\ pc[r] = "persist"
    /\ table' = [table EXCEPT ![k] = [from |-> r, body |-> req[r].body, at |-> stamp[r]]]
    /\ reply' = [reply EXCEPT ![r] = [kind |-> "stored", from |-> r, epoch |-> epoch[k]]]
    /\ Goto(r, "stored")
    /\ UNCHANGED <<req, stamp, sweepAt, now, ran, missAt, before, epoch>>

\* _persist_cached inserts the row and commits.
PersistInsert(r) ==
    LET k == req[r].key IN
    /\ pc[r] = "persist"
    /\ table[k] = NoRow
    /\ table' = [table EXCEPT ![k] = [from |-> r, body |-> req[r].body, at |-> stamp[r]]]
    /\ reply' = [reply EXCEPT ![r] = [kind |-> "stored", from |-> r, epoch |-> epoch[k]]]
    /\ Goto(r, "stored")
    /\ UNCHANGED <<req, stamp, sweepAt, now, ran, missAt, before, epoch>>

\* UNIQUE (token_id, key) refuses the row: IntegrityError, rollback.
PersistRefused(r) ==
    /\ pc[r] = "persist"
    /\ table[req[r].key] # NoRow
    /\ Goto(r, "reread")
    /\ UNCHANGED <<req, table, stamp, reply, sweepAt, now, ran, missAt, before, epoch>>

\* The committed response is returned.
Return(r) ==
    /\ pc[r] = "stored"
    /\ Goto(r, "done")
    /\ UNCHANGED <<req, table, stamp, reply, sweepAt, now, ran, missAt, before, epoch>>

\* The re-read finds the winner, or finds it swept (race_row_missing) and
\* returns the response nothing stored.
RereadWinner(r) ==
    /\ pc[r] = "reread"
    /\ table[req[r].key] # NoRow
    /\ AnswerFromRow(r, table[req[r].key])
    /\ UNCHANGED <<req, table, stamp, sweepAt, now, ran, missAt, before, epoch>>

RereadSwept(r) ==
    /\ pc[r] = "reread"
    /\ table[req[r].key] = NoRow
    /\ Answer(r, [kind |-> "unstored"])
    /\ UNCHANGED <<req, table, stamp, sweepAt, now, ran, missAt, before, epoch>>

\* The process dies, or the client's connection does: no answer is received.
\* What was committed stays.
Crash(r) ==
    /\ pc[r] \in {"lookup", "handler", "collect", "persist", "stored", "reread"}
    /\ Goto(r, "crashed")
    /\ UNCHANGED <<req, table, stamp, reply, sweepAt, now, ran, missAt, before, epoch>>

-----------------------------------------------------------------------------
(* prune_expired_idempotency_keys: the cutoff is computed first, then every*)
(* row older than it is deleted in one unit of work.                       *)

SweepBegin ==
    /\ sweepAt = Never
    /\ sweepAt' = now
    /\ UNCHANGED <<pc, req, table, stamp, reply, now, ran, missAt, before, epoch>>

\* The comparison is not strict.
ExpiredTooSoon(row) == row # NoRow /\ row.at + TTL <= sweepAt

\* created_at < cutoff, where cutoff = sweepAt - TTL.
Expired(row) == row # NoRow /\ row.at + TTL < sweepAt

SweepDelete ==
    /\ sweepAt # Never
    /\ table' = [k \in Keys |-> IF Expired(table[k]) THEN NoRow ELSE table[k]]
    /\ epoch' = [k \in Keys |-> IF Expired(table[k]) THEN epoch[k] + 1 ELSE epoch[k]]
    /\ sweepAt' = Never
    /\ UNCHANGED <<pc, req, stamp, reply, now, ran, missAt, before>>

Tick ==
    /\ now < MaxClock
    /\ now' = now + 1
    /\ UNCHANGED <<pc, req, table, stamp, reply, sweepAt, ran, missAt, before, epoch>>

-----------------------------------------------------------------------------

Dispatch(r) ==
    \/ SendKeyed(r)
    \/ \E kind \in {"bypass", "too_large"} : SendOutside(r, kind)
    \/ LookupHit(r)
    \/ LookupMiss(r)
    \/ HandlerCacheable(r)
    \/ \E kind \in {"unstored", "raised"} : HandlerUncached(r, kind)
    \/ Stamp(r)
    \/ PersistInsert(r)
    \/ PersistRefused(r)
    \/ Return(r)
    \/ RereadWinner(r)
    \/ RereadSwept(r)
    \/ Crash(r)

Next ==
    \/ \E r \in Requests : Dispatch(r)
    \/ SweepBegin
    \/ SweepDelete
    \/ Tick

Spec == Init /\ [][Next]_vars

-----------------------------------------------------------------------------
(* Properties.                                                             *)

TypeOK ==
    /\ pc \in [Requests -> {"unsent", "lookup", "handler", "collect", "persist",
                            "stored", "reread", "done", "crashed"}]
    /\ req \in [Requests -> [key : Keys, body : Bodies]]
    /\ table \in [Keys -> Rows \cup {NoRow}]
    /\ stamp \in [Requests -> Nat]
    /\ reply \in [Requests -> Replies \cup {NoReply}]
    /\ sweepAt \in Nat \cup {Never}
    /\ now \in Nat
    /\ ran \in SUBSET Requests
    /\ missAt \in [Requests -> Nat]
    /\ before \in [Requests -> SUBSET Requests]
    /\ epoch \in [Keys -> Nat]

\* Answered from a stored response: the request's own, or the row's.
Protected(r) == reply[r].kind \in {"stored", "replay"}

\* Between two sweeps of a key, every request answered from the store got one
\* and the same response, and all of them had the same body: losing the INSERT
\* race, crashing or being retried never lets a second response out.
OneResponsePerKey ==
    \A r1, r2 \in Requests :
        /\ Protected(r1) /\ Protected(r2)
        /\ req[r1].key = req[r2].key
        /\ reply[r1].epoch = reply[r2].epoch
        => /\ reply[r1].from = reply[r2].from
           /\ req[r1].body = req[r2].body

\* A replayed response was produced by a handler run for the same key and the
\* same body; a 409 names a response to the same key and another body.
AnswersMatchRequest ==
    \A r \in Requests :
        /\ Protected(r) =>
              /\ reply[r].from \in ran
              /\ req[reply[r].from] = req[r]
        /\ reply[r].kind = "conflict" =>
              /\ reply[r].from \in ran
              /\ req[reply[r].from].key = req[r].key
              /\ req[reply[r].from].body # req[r].body

\* A retry sent after an attempt whose response was committed (whether or not
\* the client received it) runs the handler again only when that row is older
\* than the TTL.
RetryWithinTtlNeverReexecutes ==
    \A r \in Requests : \A w \in before[r] :
        /\ r \in ran
        /\ reply[w].kind = "stored"
        /\ req[w].key = req[r].key
        => stamp[w] + TTL < missAt[r]

\* What the cache is for: one response per key, and no second run within its TTL.
CacheIsSound == OneResponsePerKey /\ RetryWithinTtlNeverReexecutes

\* A stored response is never replaced, and never deleted before its TTL is
\* over, not even by a sweep whose cutoff is stale.
RowsOnlyExpire ==
    [][\A k \in Keys :
          table[k] # NoRow /\ table'[k] # table[k] =>
              table'[k] = NoRow /\ table[k].at + TTL < now]_vars

\* The middleware implements ReplayStore: whatever the interleaving of lookups,
\* handlers, INSERTs, crashes and sweeps, the cache looks as if the response to
\* a key was decided in one step.
AbstractDecision ==
    [k \in Keys |->
        IF table[k] = NoRow THEN [from |-> "none"]
        ELSE [from |-> table[k].from, body |-> table[k].body]]

AbstractAnswer ==
    [r \in Requests |->
        CASE reply[r].kind = "none" -> [kind |-> "none"]
          [] reply[r].kind \in {"stored", "replay"} ->
                [kind |-> "response", from |-> reply[r].from]
          [] reply[r].kind = "conflict" ->
                [kind |-> "conflict", from |-> reply[r].from]
          [] OTHER -> [kind |-> "opaque"]]

Store == INSTANCE ReplayStore WITH
    decision <- AbstractDecision, answer <- AbstractAnswer

ImplementsReplayStore == Store!Spec

\* The module's documentation: "Concurrent retries are serialised by the UNIQUE
\* (token_id, key) constraint ... the second writer ... replays it instead of
\* double-executing the handler."  Two attempts of one request of which neither
\* crashed nor saw its key swept: the handler runs once.
ConcurrentRetriesRunHandlerOnce ==
    \A r1, r2 \in ran :
        /\ r1 # r2
        /\ Protected(r1) /\ Protected(r2)
        /\ req[r1].key = req[r2].key
        => reply[r1].epoch # reply[r2].epoch
=============================================================================
