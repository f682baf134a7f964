SPECIFICATION Spec
CONSTANTS
    Writer = w
    Readers = {r1, r2}
    Closers = {c1}
    Keys = {k1}
    Values = {v1}
    NoValue = NoValue
    BatchFlushLen = 2
    MaxPuts = 2
    Faults = FALSE
    CloseAnyTime = TRUE
INVARIANTS
    CloseDrainsReaders
CHECK_DEADLOCK FALSE
