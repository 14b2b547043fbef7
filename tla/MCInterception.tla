--------------------------- MODULE MCInterception ---------------------------
(* What a session gets from the front ends, in two halves that a run explores *)
(* each from its own initial states: how an answer with BladeX's own calls is *)
(* handled (Interception: three requests, an inner loop of two rounds), and   *)
(* how one answer is translated (Streams).                                    *)
EXTENDS Interception, Streams

VARIABLE half

AllWays == {"whole", "events", "chunks"}
AnyOne == [crash |-> 1, fail |-> 1, leave |-> 1, any |-> 1, odd |-> 1]

MCInit ==
    /\ Init /\ StreamsInit
    /\ \/ half = "session" /\ path = "chat"
       \/ half = "answer" /\ way = "whole"

InSession == half = "session" /\ UNCHANGED <<half, streamVars>>
InAnswer == half = "answer" /\ UNCHANGED <<half, vars>>

MCNext ==
    \/ InSession /\ Ask
    \/ InSession /\ AskAside
    \/ InSession /\ AskAgain
    \/ InSession /\ Crash
    \/ InSession /\ \E r \in Requests : Handler(r)
    \/ InSession /\ \E r \in Requests : UpstreamFails(r)
    \/ InSession /\ \E r \in Requests : LoopFails(r)
    \/ InAnswer /\ Refuse
    \/ InAnswer /\ CallFails
    \/ InAnswer /\ Accept
    \/ InAnswer /\ Arrives
    \/ InAnswer /\ Ends
    \/ InAnswer /\ Leaves
    \/ InAnswer /\ Stores
    \/ InAnswer /\ AnswersWhole

MCSpec == MCInit /\ [][MCNext]_<<half, vars, streamVars>>
=============================================================================
