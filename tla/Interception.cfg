SPECIFICATION MCSpec
CONSTANTS
    Ways <- AllWays
    MaxRequests = 3
    MaxOpen = 2
    MaxLoops = 1
    RoundsCap = 2
    ScanTurns = 3
    FaultBudget <- AnyOne
    Paths = {"chat", "messages", "responses"}
    Calls = {1, 2}
    MaxChunks = 3
INVARIANTS AgentNeverSeesOurs TurnsAreComplete ProtocolHolds AnswerComesBack
PROPERTY CallsComeBack
CHECK_DEADLOCK FALSE
