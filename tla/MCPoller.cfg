SPECIFICATION Spec
CONSTANTS
    Families <- MCFamilies
    PlanOf <- Plan
    NeedsOf <- Needs
    Slices <- MCSlices
    Lacks <- MCLacks
    Late <- MCLate
    Guilds <- MCGuilds
    Led <- MCLed
    Roster = 2
    Collections = 2
    ResetKinds = 2
    Tracked = 2
    MaxTime = 2
    MaxFailures = 1
INVARIANTS
    TypeOK
    SnapshotIsWhole
    MarkedOnlyBySuccess
    StepsKeepToRules
PROPERTIES
    HandlersSeeTimeForward
    NothingAfterWait
