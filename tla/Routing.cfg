SPECIFICATION RoutingSpec
CONSTANTS
    SessionRequests = {r1, r2}
    Order <- ModelOrder
    Tier <- Tiering
    Provider <- Quotas
    Caps <- Abilities
    Local <- Nearby
    JudgeLocal = TRUE
    Candidates <- ByTier
    DefaultTier = 1
    AuxTier = 0
    Upstream <- Default
    Mapped <- Multimodal
    Asks <- AllAsks
INVARIANTS OnlyPicksStay
PROPERTIES TierOnlyRises PinnedIsReleased
CHECK_DEADLOCK FALSE
