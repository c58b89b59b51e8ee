SPECIFICATION FairSpec
CONSTANTS
    RestartBudget = 1
    MaxRestarts = 1
    MaxLaunches = 2
    MaxFaults = 2
CHECK_DEADLOCK FALSE
INVARIANTS
    TypeOK
    OneOwner
    SpawnsWithinBudget
    LeavesNoDaemon
    NoStrayShutdown
PROPERTIES
    SidecarIsReplaced
    DeathReaps
    DaemonIsRestarted
