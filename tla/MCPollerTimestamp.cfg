SPECIFICATION Spec
CONSTANTS
    Families <- MCFamilies
    PlanOf <- Plan
    NeedsOf <- Needs
    Slices <- MCTransactions
    Lacks <- MCLacks
    Late <- MCLate
    Guilds <- MCGuilds
    Led <- MCLed
    Roster = 2
    Collections = 2
    ResetKinds = 2
    Tracked = 2
    MaxTime = 2
    MaxFailures = 1
INVARIANTS
    EveryFamilyHasTimestamp
