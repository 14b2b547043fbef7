--------------------------- MODULE MCConsolidator ---------------------------
EXTENDS Consolidator, TLC

CONSTANTS t1, t2, t3, n1

\* Each kind of S as often as n, and total times in all.
Allow(S, n, total) ==
    [k \in Kinds |-> IF k = "any" THEN total ELSE IF k \in S THEN n ELSE 0]

\* What users do, against rounds that end early.
UserOps == [Allow({"admin"}, 2, 3) EXCEPT !["job"] = 1, !["crash"] = 1, !["raise"] = 1,
                                            !["event"] = 1, !["redis"] = 1]

LiveFaults == [Allow({"add", "crash", "raise", "stale", "job"}, 1, 2) EXCEPT !["llm"] = 2]

=============================================================================
