\* One request wider than 32 bits, as the exported pool_alloc accepts.
CONSTANTS
    MinBits = 9
    EntryCount = 14
    WordBits = 32
    Threads = {t1}
    Nodes = {n1}
    Requests <- Requests64
    CreateMayFail = FALSE
    FailableClasses = {}
SPECIFICATION Spec
INVARIANT ServedBlockFits
