SPECIFICATION Spec
CONSTANTS
    r1 = r1
    r2 = r2
    w1 = w1
    w2 = w2
    c1 = c1
    c2 = c2
    NoRun = NoRun
    NoCommand = NoCommand
    Runs <- OneRun
    SourceRuns <- OneRun
    Workers <- TwoWorkers
    Commands <- OneCommand
    MaxAttempts = 2
SYMMETRY Symmetry
CHECK_DEADLOCK FALSE
INVARIANTS
    TypeOK
    ExclusiveAuthority
    ExecutingRunIsRecoverable
    ParkedForAttention
PROPERTIES
    ImplementsOwnership
