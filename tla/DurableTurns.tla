---------------------------- MODULE DurableTurns ----------------------------
(***************************************************************************)
(* What the storage pipeline promises about each turn, without queues,     *)
(* files or processes: a turn that _enqueue_turn has returned for is       *)
(* durable, a durable turn stays durable until it is in the Memory Hub,    *)
(* and what is in the Hub stays there.  Only a turn that nothing was       *)
(* returned for can be lost.                                               *)
(***************************************************************************)
CONSTANT Turns
VARIABLES
    fate,     \* "offered" | "durable" | "stored" | "lost", per turn
    returned  \* the turns whose _enqueue_turn has returned

Fates == {"offered", "durable", "stored", "lost"}

DurableInit ==
    /\ fate = [t \in Turns |-> "offered"]
    /\ returned = {}

\* A copy reaches the stream or the disk, perhaps with the call's return.
Persist(t) ==
    /\ fate[t] = "offered"
    /\ fate' = [fate EXCEPT ![t] = "durable"]
    /\ returned' \in {returned, returned \cup {t}}

\* The call returns for a turn that already has a copy.
Return(t) ==
    /\ fate[t] \in {"durable", "stored"}
    /\ returned' = returned \cup {t}
    /\ UNCHANGED fate

Store(t) ==
    /\ fate[t] = "durable"
    /\ fate' = [fate EXCEPT ![t] = "stored"]
    /\ UNCHANGED returned

\* The process dies, or no store takes the turn.
Lose(S) ==
    /\ \A t \in S : fate[t] = "offered" /\ t \notin returned
    /\ fate' = [t \in Turns |-> IF t \in S THEN "lost" ELSE fate[t]]
    /\ UNCHANGED returned

DurableNext ==
    \/ \E t \in Turns : Persist(t) \/ Return(t) \/ Store(t)
    \/ \E S \in SUBSET Turns : Lose(S)

DurableSpec == DurableInit /\ [][DurableNext]_<<fate, returned>>
=============================================================================
