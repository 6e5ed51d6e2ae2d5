SPECIFICATION FairSpec
CONSTANTS
    InitialDelay = 2
    MaxDelay = 12
    HealthyAfter = 2
    LostCap = 3
    StreakCap = 4
INVARIANTS
    TypeOK
    StaleNeedsLostClears
    PairsNeedQuote
    HealthMatchesRelay
    BackoffTracksStreak
PROPERTIES
    ImplementsFeedSignal
    NeverGivesUp
    EndIsAnnounced
