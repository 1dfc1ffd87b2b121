SPECIFICATION Spec
CONSTANTS
    MaxEvents = 3
    MaxConnections = 2
    Setups <- RoomyAndBusy
INVARIANTS NoGap
CHECK_DEADLOCK FALSE
