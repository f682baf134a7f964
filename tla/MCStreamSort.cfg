SPECIFICATION Spec
CONSTANTS
    Writer = w
    Readers = {r1, r2}
    Closers = {c1, c2}
    Keys = {k1, k2}
    Values = {v1, v2}
    NoValue = NoValue
    BatchFlushLen = 2
    MaxPuts = 3
    Faults = TRUE
    CloseAnyTime = FALSE
INVARIANTS
    NoUseAfterClose
    ReadsSeeEveryPut
PROPERTIES
    ImplementsSpillStore
    CallsReturn
CHECK_DEADLOCK FALSE
