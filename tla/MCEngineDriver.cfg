SPECIFICATION Spec
CONSTANTS
    MaxBlocks = 2
    MaxFaults = 3
    MaxPolls = 1
    MaxErrors = 3
INVARIANTS
    ELFollowsDriver
    OrphansAreFaults
    SurvivesTransientFaults
PROPERTIES
    Drives
CHECK_DEADLOCK FALSE
