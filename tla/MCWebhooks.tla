----------------------------- MODULE MCWebhooks -----------------------------
(* Small instances of Webhooks for TLC.                                    *)
EXTENDS Webhooks

CONSTANTS w1, w2, d2

\* A second process is not considered together with a second delivery, or with a
\* health window that moves: what it pauses is the matter of a single process.
MCNext ==
    /\ Next
    /\ ~(w2 \in ticked' /\ d2 \in born')
    /\ w2 \in ticked => \A d \in Deliveries : ~LeavesHealthWindow(d)

\* The scheduler fires the interval job again and again, a POST ends within its
\* timeout, time passes, and a secret that does not decrypt does so in the end.
\* Nothing is assumed of the second process before its first tick.
MCFairness ==
    /\ WF_vars(Tick(w1))
    /\ WF_vars(w2 \in ticked /\ Tick(w2))
    /\ \A d \in Deliveries :
          /\ WF_vars(RetryWindowOpens(d))
          /\ SF_vars(\E outcome \in Outcomes : Post(w1, d, outcome))

MCSpec == Init /\ [][MCNext]_vars /\ MCFairness
=============================================================================
