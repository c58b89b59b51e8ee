SPECIFICATION FairSpec
CONSTANTS
    v1 = v1
    v2 = v2
    e1 = e1
    e2 = e2
    Reviewers <- OneReviewer
    Executors <- TwoExecutors
    MaxAmendments = 3
    MaxRounds = 2
    MaxLapses = 2
    NoOne = NoOne
CHECK_DEADLOCK FALSE
INVARIANTS
    TypeOK
    RoundUsesActiveRevision
    RoundHonoursSubmissions
PROPERTIES
    LockedRoundIsSettled
