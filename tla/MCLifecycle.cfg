SPECIFICATION FairLifeSpec
CONSTANTS
    None = None
    Tables <- MCTables
    MaxBuild = 3
    MaxFailures = 2
    Intervals <- MCIntervals
    Environment <- MCEnvironment
INVARIANTS
    LifeTypeOK
    RecordedBuildIsCovered
    UsersComeFirst
PROPERTIES
    TablesNeverGoBack
    ServiceIsCurrent
    StopEndsClean
