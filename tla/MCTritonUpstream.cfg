SPECIFICATION FairSpec
CONSTANTS
    InitialDelay = 5
    MaxDelay = 30
    HealthyAfter = 5
    LostCap = 3
INVARIANTS
    TypeOK
    StaleNeedsLostClears
PROPERTIES
    DenialIsFinal
    ImplementsFeedSignal
    EndIsAnnounced
