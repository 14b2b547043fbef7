---------------------------- MODULE MCLedgerPool ----------------------------
EXTENDS LedgerPool, TLC

CONSTANTS l1, l2, s1, s2, k1, k2

Faults == [append |-> 1, crash |-> 1]
Symmetry == Permutations(Ledgers) \cup Permutations(Scopes) \cup Permutations(SessionIds)
=============================================================================
