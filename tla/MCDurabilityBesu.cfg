SPECIFICATION Spec
CONSTANTS
    Stores <- MCStores
    Rows <- MCRows
    Programs <- BesuProgram
    Stops <- KillStops
    CloseFails = {}
INVARIANTS
    GateImpliesState
CHECK_DEADLOCK FALSE
