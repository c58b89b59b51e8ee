SPECIFICATION FairSpec
CONSTANTS
    NumLanes = 2
    Query <- PlanQuery
    Target <- PlanTarget
    MaxCards <- PlanCards
    Seen <- SeenOne
    MaxCrashes = 1
    MaxUnknowns = 1
CHECK_DEADLOCK FALSE
INVARIANTS
    TypeOK
    RoundIsRecoverable
    WatermarkIsTrue
    OpensAtMostWanted
PROPERTIES
    RoundEnds
