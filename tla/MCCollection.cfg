SPECIFICATION FairSpec
CONSTANTS
    Slices <- MCSlices
    Timed <- MCTimed
    Quests <- MCQuests
    SeasonOf <- MCSeasonOf
    Introduced <- MCIntroduced
    Guilds <- MCGuilds
    Led <- MCLed
    Items <- MCItems
    Buys <- MCBuys
    Sells <- MCSells
    CategoryOf <- MCCategoryOf
    Accepts <- MCAccepts
    AtFirst <- MCAtFirst
    Gems = 1
    NoValue = NoValue
    NoData = NoData
    MaxMoves = 1
    MaxTime = 2
    MaxFailures = 1
INVARIANTS
    TypeOK
    DistortionIsBounded
    
    BreakdownAddsUp
PROPERTIES
    StampsBracketData
    NamesStay
    ExportsConverge
