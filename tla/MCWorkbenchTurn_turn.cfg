SPECIFICATION FairSpec
CONSTANTS
    NumClients = 2
    Keys <- KeysTurn
    Kind <- KindTurn
    MaxRequests = 3
    MaxFaults = 1
CHECK_DEADLOCK FALSE
INVARIANTS
    TypeOK
    OneWorkerPerTurn
    CompletedIsAnswered
    AskedOnce
    OneRunPerConfirmation
PROPERTIES
    RequestEnds
