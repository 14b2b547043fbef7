----------------------------- MODULE MCHubStore -----------------------------
EXTENDS HubStore, TLC

CONSTANTS a, b, main, loop, sampler, worker, flush

\* One session: 1 and 2 of the agent's history, 3 a turn of the inner loop
\* that has a body in common with 2.
ThreeTurns == 1..3
ThreeMsgs == <<<<a>>, <<a, b>>, <<b>>>>
OneSession == [t \in ThreeTurns |-> main]

\* The executor's threads are alike.
Threads == Permutations(Putters)
=============================================================================
