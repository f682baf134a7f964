SPECIFICATION GenSpec
CONSTANTS
    Workers = {w1, w2}
    MaxInFlight = 3
    WorkCap = 1
    ResultCap = 1
    BuilderCap = 1
    Targets = {0, 4}
    Milestones <- MCMilestones
    DiskSizes = {1, 4}
    CanPanic = TRUE
    ReadsFail = TRUE
    Genesis <- MCGenesis
    EOADraws <- MCEOADraws
    ContractDraws <- MCContractDraws
    NumEOAs = 1
    NumContracts = 2
    NoCode = noCode
    codeX = codeX
    codeY = codeY
    BatchEntries = 4
    ContractCap = 1
    SnapCap = 1
    CanFail = TRUE
INVARIANTS
    TypeOK
    FedInOrder
    OkFedEverything
    RootCoversState
    CodeBeforeRoot
PROPERTIES
    GeneratorTerminates
CHECK_DEADLOCK FALSE
