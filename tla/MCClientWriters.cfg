SPECIFICATION ClientsSpec
CONSTANTS
    Workers = {w1, w2}
    BatchSize = 2
    ChanCap = 1
    CanFail = TRUE
    CanCancel = TRUE
    Items = {i1, i2, i3}
    RowsPerItem = 2
    FlushRows = 3
    DrainCap = 1
    PreparedCap = 1
    N = 3
    WorkCap = 1
    ResultCap = 1
    Storage <- MCStorage
    PreStorage <- MCPreStorage
    Block = 2
    DeepBranches = 1
    FirstDynamic = 3
    Streamed = {e1, e2}
    Giants = {e1}
    ChunksOf <- MCChunksOf
    StreamCap = 1
    ChunkCap = 1
    Main = main
    Entities = 2
    Slots = 2
    RowsOf <- MCRowsOf
    EntityCap = 1
INVARIANTS
    SuccessIsComplete
    OkIsCompleteOrCancelled
    RootHasRows
    StreamedKeepStorage
    NilMeansAllSpilled
    OkIsComplete
    IdsDisjoint
    VTopCoversIds
    NilMeansAllStored
    RootHasSlots
    NilMeansAllWritten
    IndexedIsWhole
    NoSendAfterClose
PROPERTIES
    FedInOrder
    WritersReturn
CHECK_DEADLOCK FALSE
