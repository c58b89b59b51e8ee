SPECIFICATION FairSpec
CONSTANTS
    r1 = r1
    r2 = r2
    w1 = w1
    w2 = w2
    c1 = c1
    c2 = c2
    NoRun = NoRun
    NoCommand = NoCommand
    Runs <- TwoRuns
    SourceRuns <- NoRuns
    Workers <- OneWorker
    Commands <- NoCommands
    MaxAttempts = 2
CHECK_DEADLOCK FALSE
PROPERTIES
    LeasesAreSettledInOrder
