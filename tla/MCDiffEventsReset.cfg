SPECIFICATION Spec
CONSTANTS
    deaths = deaths
    bosses = bosses
    characters = characters
    resets = resets
    None = None
    Keys <- MCKeys
    Resettable <- MCResettable
    Callers <- MCCallers
    KeysOf <- MCKeysOf
    MaxValue = 2
    MaxGrowth = 2
    QueueCap = 1
    MaxCrashes = 1
    MaxWriteFailures = 1
    MaxStops = 1
INVARIANTS
    CompletionAfterResetRises
