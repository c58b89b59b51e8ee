SPECIFICATION FairSpec
CONSTANTS
    o1 = o1
    NoOperation = NoOperation
    Operations <- OneOperation
    Stoppable <- NoStops
    MaxAttempts = 1
CHECK_DEADLOCK FALSE
PROPERTIES
    ObservedOperationFreesLane
