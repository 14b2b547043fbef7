------------------------------ MODULE MCRound -------------------------------
(* Small instances of the two halves of a round: the facts (Adjudication) and  *)
(* their matters (MatterGraph).  The second starts from what the first stored; *)
(* a run explores each from its own initial states, not their product.         *)
EXTENDS Adjudication, MatterGraph

VARIABLE half

\* 1 and 4 say the same in the same words, 2 the same in others, 3 is new.
MCSays == <<"a", "a", "b", "a">>
MCWords == <<"v", "w", "v", "v">>

\* Two things go wrong at most.
MCBudget == [k \in Kinds |-> 2]

\* Two facts of either turn, the last of them aside; two titles, either of them in both turns.
MCTurnOf == <<1, 1, 2, 2>>
MCTitleOf == <<"a", "b", "a", "b">>
MCLedgerOf == <<"none", "none">>
MCBorn == [l \in {"L"} |-> 2]
MCOld == {<<1, "L">>}

\* Any two things; or three of those that move a fact.
AnyTwo == [k \in Things \cup {"any"} |-> IF k = "any" THEN 2 ELSE 1]
Moves == {"assign", "detach", "merge", "split", "full"}
ThreeMoves ==
    [k \in Things \cup {"any"} |-> IF k = "any" THEN 3 ELSE IF k \in Moves THEN 1 ELSE 0]
MCBudgets == {AnyTwo, ThreeMoves}

MCInit ==
    /\ Init /\ GraphInit
    /\ \/ half = "matters"
       \/ half = "facts" /\ (\A f \in GraphFacts : judged[f] = Nowhere)

InFacts == half = "facts" /\ UNCHANGED <<half, graphVars>>
InMatters == half = "matters" /\ UNCHANGED <<half, vars>>

MCNext ==
    \/ InFacts /\ \E t \in Facts : PutTurn(t)
    \/ InFacts /\ \E t \in Facts : Forget(t)
    \/ InFacts /\ Start
    \/ InFacts /\ Crash
    \/ InFacts /\ \E full \in BOOLEAN : Begin(full)
    \/ InFacts /\ Examine
    \/ InFacts /\ \E unanswered \in SUBSET Pending : Ask(unanswered)
    \/ InFacts /\ \E f \in Pending : \E verdict \in Answers(f) : Settle(verdict)
    \/ InFacts /\ Filter
    \/ InFacts /\ Clear
    \/ InFacts /\ Store
    \/ InFacts /\ StoreFails
    \/ InFacts /\ Replay
    \/ InFacts /\ Apply
    \/ InFacts /\ Consume
    \/ InFacts /\ End
    \/ InMatters /\ Round
    \/ InMatters /\ Full
    \/ InMatters /\ Attribute
    \/ InMatters /\ AttributeRaises
    \/ InMatters /\ RoundEnds
    \/ InMatters /\ Dies
    \/ InMatters /\ User
    \/ InMatters /\ ForgetFact

MCSpec == MCInit /\ [][MCNext]_<<half, vars, graphVars>>
=============================================================================
