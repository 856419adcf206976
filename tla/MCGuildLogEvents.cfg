SPECIFICATION FairSpec
CONSTANTS
    guild = guild
    None = None
    Guilds <- MCGuilds
    MaxLogId = 3
    QueueCap = 2
    MaxCrashes = 1
    MaxWriteFailures = 1
    MaxStops = 1
INVARIANTS
    TypeOK
    WatermarkHidesOnlyEmitted
PROPERTIES
    EveryEntryEmitted
    ImplementsDelivery
