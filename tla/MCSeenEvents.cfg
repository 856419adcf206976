SPECIFICATION FairSpec
CONSTANTS
    t1 = t1
    t2 = t2
    g1 = g1
    transactions = transactions
    pvp = pvp
    None = None
    Ids <- MCFewIds
    Callers <- MCCallers
    IdsOf <- MCFewIdsOf
    QueueCap = 2
    MaxCrashes = 1
    MaxWriteFailures = 1
    MaxStops = 1
INVARIANTS
    TypeOK
    StopFlushesMarked
PROPERTIES
    EveryTransactionEmitted
    ImplementsDelivery
