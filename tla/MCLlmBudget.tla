---------------------------- MODULE MCLlmBudget -----------------------------
EXTENDS LlmBudget, FiniteSetsExt, TLC

CONSTANTS t1, t2, t3, c1, c2

\* t2 is the client call t1 sent again; t3 is an agent's turn.
MCCorrelationOf == [t \in Turns |-> IF t = t3 THEN c2 ELSE c1]
MCMaxCalls == [t \in Turns |-> IF t = t3 THEN 2 ELSE 1]
\* A first call costs 2, a later one 1.
MCTotal == [S \in SUBSET Attempts |-> MapThenSumSet(LAMBDA a : IF a[2] = 0 THEN 2 ELSE 1, S)]
=============================================================================
