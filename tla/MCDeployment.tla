---------------------------- MODULE MCDeployment ----------------------------
EXTENDS Deployment, TLC

CONSTANTS h1, h2, t1, t2

TwoHomes == {h1, h2}
TwoTerminals == {t1, t2}
TwoSlots == 1..2
Sym == Permutations(TwoHomes) \cup Permutations(TwoTerminals)

\* One fault in all.
Once == [k \in Kinds |-> 1]

=============================================================================
