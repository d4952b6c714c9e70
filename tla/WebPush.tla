------------------------------ MODULE WebPush -------------------------------
(***************************************************************************)
(* The web push queue (notification_push_queue): rows staged at notify     *)
(* time by app/domain/messaging/push_dispatch.py and delivered by the tick *)
(* of app/worker/jobs/messaging_web_push.py, in several processes and      *)
(* threads at once.                                                        *)
(*                                                                         *)
(* A thread claims, posts and stamps one row in ONE transaction, so the    *)
(* claim is a row lock that others wait for, no other transaction ever     *)
(* reads "in_flight", and a rollback undoes the claim and its visibility   *)
(* window with it.  The rows reference their token ON DELETE CASCADE.      *)
(***************************************************************************)
EXTENDS Naturals

CONSTANTS
    Pushes,         \* rows of the queue, one per (notification, token)
    Tokens,         \* rows of push_token
    TokenOf,        \* the token of each row
    Pushers,        \* processes that run the tick
    MaxAttempts,
    MaxPushCrashes  \* bound on the process deaths considered

ASSUME PushAssumption ==
    /\ TokenOf \in [Pushes -> Tokens]
    /\ MaxAttempts \in Nat \ {0} /\ MaxPushCrashes \in Nat

VARIABLES
    queue,      \* queue[d]: status and attempt, as committed
    due,        \* pending rows whose next_attempt_at has come
    tokens,     \* the registered tokens
    thread,     \* thread[p][d]: what process p does with row d
    pushCrashes,
    posted      \* history: posted[d], attempt numbers posted and not rolled back

pushVars == <<queue, due, tokens, thread, pushCrashes, posted>>

Answers == {"ok", "gone", "fatal", "transient"}
IdleThread == [at |-> "idle", attempt |-> 0, answer |-> "ok"]

PushInit ==
    /\ queue = [d \in Pushes |-> [status |-> "none", attempt |-> 0]]
    /\ due = {}
    /\ tokens = Tokens
    /\ thread = [p \in Pushers |-> [d \in Pushes |-> IdleThread]]
    /\ pushCrashes = 0
    /\ posted = [d \in Pushes |-> {}]

RowsOf(t) == {d \in Pushes : TokenOf[d] = t}
Pending(d) == queue[d].status = "pending"
At(p, d, place) == thread[p][d].at = place

\* The transaction of p's thread for d has updated the row.
Holds(p, d) == thread[p][d].at \in {"claimed", "answered", "purging"}
Locked(d) == \E p \in Pushers : Holds(p, d)
\* A thread has deleted the token and waits for the cascade, which takes the
\* rows one by one: one behind a row that it waits for is still free.
Purging(t) == \E p \in Pushers, d \in RowsOf(t) : At(p, d, "purging")
Taken(d) ==
    /\ Purging(TokenOf[d])
    /\ \A p \in Pushers, e \in RowsOf(TokenOf[d]) \ {d} : Holds(p, e) => At(p, e, "purging")

MovesTo(p, d, place) == thread' = [thread EXCEPT ![p][d].at = place]
Ends(p, d) == thread' = [thread EXCEPT ![p][d] = IdleThread]

-----------------------------------------------------------------------------
(* Notify, the tick and the claim.                                         *)

\* The notify call commits the row with its notification; the foreign key
\* waits for a purge of the token.
Enqueue(d) ==
    /\ queue[d].status = "none"
    /\ TokenOf[d] \in tokens
    /\ ~Purging(TokenOf[d])
    /\ queue' = [queue EXCEPT ![d].status = "pending"]
    /\ due' = due \cup {d}
    /\ UNCHANGED <<tokens, thread, pushCrashes, posted>>

\* The tick reads the due rows and starts a thread for each; a process does
\* not start a tick while one of its ticks runs.
SelectDue(p) ==
    /\ due # {}
    /\ \A d \in Pushes : At(p, d, "idle")
    /\ thread' = [thread EXCEPT ![p] =
          [d \in Pushes |-> IF d \in due THEN [IdleThread EXCEPT !.at = "selected"] ELSE IdleThread]]
    /\ UNCHANGED <<queue, due, tokens, pushCrashes, posted>>

\* _process_row reads the row again; one that is settled or gone is left alone.
Load(p, d) ==
    /\ At(p, d, "selected")
    /\ IF Pending(d)
          THEN thread' = [thread EXCEPT ![p][d] = [@ EXCEPT !.at = "loaded", !.attempt = queue[d].attempt]]
          ELSE Ends(p, d)
    /\ UNCHANGED <<queue, due, tokens, pushCrashes, posted>>

\* The claim forgets the attempt it expects.
ClaimWithoutAttempt(p, d) ==
    /\ At(p, d, "loaded")
    /\ ~Locked(d) /\ ~Taken(d)
    /\ IF Pending(d) THEN MovesTo(p, d, "claimed") ELSE Ends(p, d)
    /\ UNCHANGED <<queue, due, tokens, pushCrashes, posted>>

\* claim: the UPDATE waits for the row and then matches the committed status
\* and attempt.  It does not look at next_attempt_at.
Claim(p, d) ==
    /\ At(p, d, "loaded")
    /\ ~Locked(d) /\ ~Taken(d)
    /\ IF Pending(d) /\ queue[d].attempt = thread[p][d].attempt
          THEN MovesTo(p, d, "claimed")
          ELSE Ends(p, d)
    /\ UNCHANGED <<queue, due, tokens, pushCrashes, posted>>

-----------------------------------------------------------------------------
(* The send and its stamp.                                                 *)

\* The sender's outcome, by the class _process_row makes of it.  webpush is given
\* no timeout, so this step may never come.
Post(p, d, answer) ==
    /\ At(p, d, "claimed")
    /\ thread' = [thread EXCEPT ![p][d] = [@ EXCEPT !.at = "answered", !.answer = answer]]
    /\ posted' = [posted EXCEPT ![d] = @ \cup {thread[p][d].attempt}]
    /\ UNCHANGED <<queue, due, tokens, pushCrashes>>

\* What a stamp commits: the row's new status, and whether it is due.
Stamp(p, d, status) ==
    /\ queue' = [queue EXCEPT ![d] = [status |-> status, attempt |-> thread[p][d].attempt + 1]]
    /\ due' = due \ {d}
    /\ Ends(p, d)
    /\ UNCHANGED <<tokens, pushCrashes, posted>>

\* The workspace has no VAPID key: dead-lettered without a post.
VapidMissing(p, d) == At(p, d, "claimed") /\ Stamp(p, d, "dead_lettered")

\* mark_sent, and the token's last_used_at, whose row a purge may hold.
StampSent(p, d) ==
    /\ At(p, d, "answered") /\ thread[p][d].answer = "ok"
    /\ ~Purging(TokenOf[d])
    /\ Stamp(p, d, "sent")

\* _stamp_failure: another 4xx and the last attempt are final.
StampFailure(p, d) ==
    /\ At(p, d, "answered") /\ thread[p][d].answer \in {"fatal", "transient"}
    /\ Stamp(p, d, IF thread[p][d].answer = "fatal" \/ thread[p][d].attempt + 1 >= MaxAttempts
                      THEN "dead_lettered" ELSE "pending")

\* _purge_token_and_mark_sent: the DELETE has the token's row ...
BeginPurge(p, d) ==
    /\ At(p, d, "answered") /\ thread[p][d].answer = "gone"
    /\ ~Purging(TokenOf[d])
    /\ MovesTo(p, d, "purging")
    /\ UNCHANGED <<queue, due, tokens, pushCrashes, posted>>

\* The rows of t go with it, the one just marked sent included.
DropToken(t) ==
    /\ tokens' = tokens \ {t}
    /\ queue' = [d \in Pushes |->
          IF TokenOf[d] = t /\ queue[d].status # "none"
             THEN [queue[d] EXCEPT !.status = "gone"] ELSE queue[d]]
    /\ due' = due \ RowsOf(t)

\* ... and its cascade the rows, when no other thread holds one.
Purge(p, d) ==
    /\ At(p, d, "purging")
    /\ \A q \in Pushers, e \in RowsOf(TokenOf[d]) : Holds(q, e) => <<q, e>> = <<p, d>>
    /\ DropToken(TokenOf[d])
    /\ Ends(p, d)
    /\ UNCHANGED <<pushCrashes, posted>>

-----------------------------------------------------------------------------
(* Time, rollbacks and the browser.                                        *)

\* mark_transient leaves next_attempt_at empty.
BecomeDueOnce(d) ==
    /\ Pending(d) /\ d \notin due /\ queue[d].attempt = 0
    /\ due' = due \cup {d}
    /\ UNCHANGED <<queue, tokens, thread, pushCrashes, posted>>

\* The next_attempt_at that mark_transient wrote has come.
BecomeDue(d) ==
    /\ Pending(d) /\ d \notin due
    /\ due' = due \cup {d}
    /\ UNCHANGED <<queue, tokens, thread, pushCrashes, posted>>

\* The attempts that a rollback of p's thread for d leaves uncounted.
Lost(p, d) == IF thread[p][d].at \in {"answered", "purging"} THEN {thread[p][d].attempt} ELSE {}

\* The thread's transaction rolls back; the claim is undone, the post is not.
RollBack(p, d) ==
    /\ Holds(p, d)
    /\ posted' = [posted EXCEPT ![d] = @ \ Lost(p, d)]
    /\ Ends(p, d)
    /\ UNCHANGED <<queue, due, tokens>>

\* _dispatch_one swallows the exception, and nothing counts it.  Among those that
\* repeat on every tick: a key that does not decode, and the ConnectionError and
\* Timeout of requests, which are not the built-in ones that deliver_push catches.
RowFails(p, d) == RollBack(p, d) /\ UNCHANGED pushCrashes

\* The process dies with all its threads.
PusherCrash(p) ==
    /\ pushCrashes < MaxPushCrashes
    /\ pushCrashes' = pushCrashes + 1
    /\ \E d \in Pushes : ~At(p, d, "idle")
    /\ posted' = [d \in Pushes |-> posted[d] \ Lost(p, d)]
    /\ thread' = [thread EXCEPT ![p] = [d \in Pushes |-> IdleThread]]
    /\ UNCHANGED <<queue, due, tokens>>

\* The thread of q for e waits for the token that the purge of p for d has
\* deleted, and that purge for the row e.
Deadlocked(p, d, q, e) ==
    /\ At(p, d, "purging")
    /\ At(q, e, "answered") /\ thread[q][e].answer \in {"ok", "gone"}
    /\ TokenOf[d] = TokenOf[e]

\* The database breaks the cycle at the cost of the stamp, and the purge can
\* go on ...
StampIsVictim(p, d, q, e) ==
    /\ Deadlocked(p, d, q, e)
    /\ RollBack(q, e)
    /\ UNCHANGED pushCrashes

\* ... or at the cost of the purge, and the stamp has the token.
PurgeIsVictim(p, d, q, e) ==
    /\ Deadlocked(p, d, q, e)
    /\ posted' = [posted EXCEPT ![d] = @ \ Lost(p, d)]
    /\ IF thread[q][e].answer = "ok"
          THEN /\ queue' = [queue EXCEPT ![e] = [status |-> "sent", attempt |-> thread[q][e].attempt + 1]]
               /\ due' = due \ {e}
               /\ thread' = [thread EXCEPT ![p][d] = IdleThread, ![q][e] = IdleThread]
          ELSE /\ thread' = [thread EXCEPT ![p][d] = IdleThread, ![q][e].at = "purging"]
               /\ UNCHANGED <<queue, due>>
    /\ UNCHANGED <<tokens, pushCrashes>>

DeadlockIsBroken ==
    \E p, q \in Pushers, d, e \in Pushes :
        StampIsVictim(p, d, q, e) \/ PurgeIsVictim(p, d, q, e)

\* The user deletes the token; the cascade waits for the rows in hand.  (A
\* deadlock with a stamp rolls that stamp back: RowFails.)
Unregister(t) ==
    /\ t \in tokens
    /\ \A p \in Pushers, d \in RowsOf(t) : ~Holds(p, d)
    /\ DropToken(t)
    /\ UNCHANGED <<thread, pushCrashes, posted>>

-----------------------------------------------------------------------------
\* What the thread of p for d does next, when no lock stops it and no send is out.
Proceeds(p, d) ==
    \/ Load(p, d) \/ Claim(p, d)
    \/ StampSent(p, d) \/ StampFailure(p, d)
    \/ BeginPurge(p, d) \/ Purge(p, d)

PushNext ==
    \/ \E d \in Pushes : Enqueue(d) \/ BecomeDue(d)
    \/ \E t \in Tokens : Unregister(t)
    \/ \E p \in Pushers : SelectDue(p) \/ PusherCrash(p)
    \/ DeadlockIsBroken
    \/ \E p \in Pushers, d \in Pushes :
          \/ Proceeds(p, d) \/ VapidMissing(p, d) \/ RowFails(p, d)
          \/ \E answer \in Answers : Post(p, d, answer)

\* The scheduler keeps the tick going, time passes, threads run, and the database
\* breaks deadlocks.  A send owes nothing.
PushFairness ==
    /\ \A d \in Pushes : WF_pushVars(BecomeDue(d))
    /\ WF_pushVars(\E p \in Pushers : SelectDue(p))
    /\ WF_pushVars(DeadlockIsBroken)
    /\ \A p \in Pushers : WF_pushVars(\E d \in Pushes : Proceeds(p, d))

PushSpec == PushInit /\ [][PushNext]_pushVars /\ PushFairness

-----------------------------------------------------------------------------
(* Properties.                                                             *)

\* A row is in the hands of one thread, a token of one purge, and only a
\* pending row is due.
PushTypeOK ==
    /\ queue \in [Pushes -> [status : {"none", "pending", "sent", "dead_lettered", "gone"},
                             attempt : 0 .. MaxAttempts]]
    /\ due \subseteq {d \in Pushes : Pending(d)}
    /\ tokens \subseteq Tokens
    /\ thread \in [Pushers -> [Pushes ->
          [at : {"idle", "selected", "loaded", "claimed", "answered", "purging"},
           attempt : 0 .. MaxAttempts - 1, answer : Answers]]]
    /\ pushCrashes \in 0 .. MaxPushCrashes
    /\ posted \in [Pushes -> SUBSET (0 .. MaxAttempts - 1)]
    /\ \A p, q \in Pushers, d \in Pushes : Holds(p, d) /\ Holds(q, d) => p = q

\* Posts(p, d): this step is the post of row d by p.
Posts(p, d) == At(p, d, "claimed") /\ thread'[p][d].at = "answered"

\* Each attempt of a row is posted once, whichever processes race for it: a
\* second post of the same attempt means that the first was rolled back.  A
\* settled row is never posted again, and nothing is posted to a token that the
\* provider or the user has cancelled.
PostsAreOwed ==
    [][\A p \in Pushers, d \in Pushes : Posts(p, d) =>
          /\ thread[p][d].attempt \notin posted[d]
          /\ Pending(d)
          /\ TokenOf[d] \in tokens]_pushVars

\* Every staged row is delivered, dead-lettered or dropped with its token, and the
\* queue is drained again and again: unless a send hangs for ever, with its
\* transaction and its tick, or rows keep raising.
SendHangs == \E p \in Pushers, d \in Pushes : <>[]At(p, d, "claimed")
RowsKeepRaising == []<><<\E p \in Pushers, d \in Pushes : RowFails(p, d)>>_pushVars
PushIsSettled == []<>(\A d \in Pushes : ~Pending(d)) \/ SendHangs \/ RowsKeepRaising
=============================================================================
