---------------------------- MODULE ReplayStore ----------------------------
(***************************************************************************)
(* What the idempotency cache promises its clients, with no lookup, race,  *)
(* crash or clock in sight.  The response to a key is decided in one step, *)
(* by a request that finds the key undecided, and that request is answered *)
(* with it.  While the decision stands every request with the key that is  *)
(* answered from the store gets that response, or a conflict when its body *)
(* is another one.  A decision is forgotten, never changed.                *)
(*                                                                         *)
(* A request may also be answered without the store's promise (Opaque): a  *)
(* 5xx, a response that cannot be stored, a request outside the cache.     *)
(***************************************************************************)

CONSTANTS Requests, Keys

VARIABLES
    req,       \* req[r]: the key and the body of request r
    decision,  \* decision[k]: the request whose response is k's, or Undecided
    answer     \* answer[r]: the answer to r, or Unanswered

vars == <<req, decision, answer>>

Undecided == [from |-> "none"]
Unanswered == [kind |-> "none"]
Opaque == [kind |-> "opaque"]

Init ==
    /\ decision = [k \in Keys |-> Undecided]
    /\ answer = [r \in Requests |-> Unanswered]

\* r's response becomes the response to its key.
Decide(r) ==
    /\ answer[r] = Unanswered
    /\ decision[req[r].key] = Undecided
    /\ decision' = [decision EXCEPT ![req[r].key] = [from |-> r, body |-> req[r].body]]
    /\ answer' = [answer EXCEPT ![r] = [kind |-> "response", from |-> r]]
    /\ UNCHANGED req

\* r is answered by the standing decision.
Recall(r) ==
    LET d == decision[req[r].key] IN
    /\ answer[r] = Unanswered
    /\ d # Undecided
    /\ answer' = [answer EXCEPT ![r] =
          [kind |-> IF d.body = req[r].body THEN "response" ELSE "conflict",
           from |-> d.from]]
    /\ UNCHANGED <<req, decision>>

AnswerOpaquely(r) ==
    /\ answer[r] = Unanswered
    /\ answer' = [answer EXCEPT ![r] = Opaque]
    /\ UNCHANGED <<req, decision>>

Forget(K) ==
    /\ decision' = [k \in Keys |-> IF k \in K THEN Undecided ELSE decision[k]]
    /\ UNCHANGED <<req, answer>>

Next ==
    \/ \E r \in Requests : Decide(r) \/ Recall(r) \/ AnswerOpaquely(r)
    \/ \E K \in SUBSET Keys : Forget(K)

Spec == Init /\ [][Next]_vars
=============================================================================
