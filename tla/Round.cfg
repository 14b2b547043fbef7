SPECIFICATION MCSpec
CONSTANTS
    N = 4
    Says <- MCSays
    Words <- MCWords
    Keyed = {1, 2, 3}
    Budget <- MCBudget
    TurnOf <- MCTurnOf
    TitleOf <- MCTitleOf
    LedgerOf <- MCLedgerOf
    Born <- MCBorn
    OldLinks <- MCOld
    Aside = {4}
    NoTitle = "no"
    NoLedger = "none"
    GraphBudgets <- MCBudgets
INVARIANTS NothingVanishes OneValuePerKey PaidVerdictsHold FactsArePlaced AssignmentsSurvive EdgesAdmitted
CHECK_DEADLOCK FALSE
