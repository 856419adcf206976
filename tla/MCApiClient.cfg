SPECIFICATION FairSpec
CONSTANTS
    a = a
    b = b
    Callers <- MCCallers
    Burst = 2
    MaxRetries = 1
    Timeout = 1
    Window = 2
INVARIANTS
    TypeOK
    NeverBurstsPastLimit
    AttemptsAreBounded
    BackoffIsSane
PROPERTIES
    OnlyRetryableIsRepeated
    EveryCallReturns
