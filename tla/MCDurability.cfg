SPECIFICATION Spec
CONSTANTS
    Stores <- MCStores
    Rows <- MCRows
    Programs <- AllPrograms
    Stops <- AllStops
    CloseFails <- SoundPrograms
INVARIANTS
    GateImpliesState
    SuccessIsLeft
CHECK_DEADLOCK FALSE
