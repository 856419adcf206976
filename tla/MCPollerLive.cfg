SPECIFICATION FairSpec
CONSTANTS
    Families <- MCLinkedFamilies
    PlanOf <- Plan
    NeedsOf <- Needs
    Slices <- MCLinked
    Lacks <- MCLacksNothing
    Late <- MCLate
    Guilds <- MCGuilds
    Led <- MCLed
    Roster = 2
    Collections = 2
    ResetKinds = 2
    Tracked = 2
    MaxTime = 2
    MaxFailures = 1
PROPERTIES
    StopTerminates
    StoreConverges
