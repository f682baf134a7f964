SPECIFICATION Spec
CONSTANTS
    KeySpaces <- MCKeySpaces
    RefSizes = {3, 7}
    Radix = 3
    StaticVIDLevels = 2
    AccountKeyLen = 4
    Nibbles = {0, 1}
    StateKeys <- MCStateKeys
    FewStateKeys <- MCFewStateKeys
    Stems <- MCStems
    MaxDepth = 4
    GroupDepths = {0, 1, 2, 4}
    StateTopLen = 1
    ShortenedLen = 2
    FlushRows = 3
    FailedFlushes = {0, 1, 2, 4}
    Clients = {"erigon"}
INVARIANT ErigonRootIsReference
CHECK_DEADLOCK FALSE
