SPECIFICATION Spec
CONSTANTS
    plain = plain
    deploys = deploys
    truncated = truncated
    tokens = tokens
    taken = taken
    system = system
    preimages = preimages
    past = past
    garbage = garbage
    Texts = {plain, deploys, truncated, tokens, taken, system, preimages, past, garbage}
    Document <- MCDocument
    Dirs <- MCDirs
    Places <- MCPlaces
    UsedDirs = {"e"}
    GethRoot <- MCGethRoot
    Inputs <- MCAllInputs
    MaxCommands = 2
    MaxUpsets = 1
    Upsets = {plain, Gone}
    CodeSizes = {32, 33, 97, 300}
    SampleAddresses <- MCSampleAddresses
    Gone = Gone
    Malformed = Malformed
    Oversize = Oversize
    FanoutLimit = 4
    Uint64 = 1048576
    AddressSpace = 64
    CurveOrder = 16
    PreAmsterdamMaxCodeSize = 300
    MaxPatternCodeSize = 600
    BytesPerAccount = 175
    BytesPerSlot = 140
    MinContractCode = 1024
    MeanContractCode = 5120
    AccountsPerBytecode = 28
    GiantMinSlots = 60
    MeanSlotsMilli = 37327
    GiantAccounts = 1
    StorageAccounts = 8
INVARIANTS
    ReproduceAgrees
    OriginalIntact
    SpecInState
    PlantedIsDeployed
CHECK_DEADLOCK FALSE
