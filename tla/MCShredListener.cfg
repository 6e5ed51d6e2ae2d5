SPECIFICATION Spec
CONSTANTS
    Sent <- MCSent
    PrefixSkip = 8
    Estimates <- MCEstimates
    MaxHits = 2
    CountCap = 2
INVARIANTS
    TypeOK
    CountersFollowHealth
    GhostsNeedLostWrites
