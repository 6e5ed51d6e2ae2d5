SPECIFICATION Spec
CONSTANTS
    InitialDelay = 5
    MaxDelay = 30
    HealthyAfter = 5
    LostCap = 3
INVARIANTS
    RetryableIsRetried
