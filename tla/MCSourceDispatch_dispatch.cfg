SPECIFICATION Spec
CONSTANTS
    o1 = o1
    NoOperation = NoOperation
    Operations <- OneOperation
    Stoppable <- OneOperation
    MaxAttempts = 2
CHECK_DEADLOCK FALSE
INVARIANTS
    TypeOK
    AtMostOneEffect
    OrphanCanBeConcluded
PROPERTIES
    ImplementsDispatchOnce
    LiveLaneBelongsToHolder
