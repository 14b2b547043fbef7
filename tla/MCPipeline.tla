----------------------------- MODULE MCPipeline -----------------------------
(* Instances of Pipeline for TLC. *)
EXTENDS Pipeline, TLC

CONSTANTS t1, t2

\* Faults per behaviour; the ones left out do not happen.
Bounded(b) == [f \in Faults |-> IF f \in DOMAIN b THEN b[f] ELSE 0]

\* Producers, overflow files and restarts, the worker and a flush beside it.
FaultBudget == Bounded([outage |-> 1, reply |-> 1, disk |-> 1, unlink |-> 1, hub |-> 2, crash |-> 1,
                        stop |-> 1, flush |-> 1, any |-> 2])

=============================================================================
