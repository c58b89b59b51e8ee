SPECIFICATION Spec
CONSTANTS
    NumClients = 2
    Keys <- KeysForm
    Kind <- KindForm
    MaxRequests = 3
    MaxFaults = 1
CHECK_DEADLOCK FALSE
INVARIANTS
    ReadonlyAfterConfirmation
