\* Two threads, three node addresses, 32-bit requests; the MultiPool malloc
\* and the pool of class 1 (1 KiB) may fail during construction.
CONSTANTS
    MinBits = 9
    EntryCount = 14
    WordBits = 32
    Threads = {t1, t2}
    Nodes = {n1, n2, n3}
    Requests <- Requests32
    CreateMayFail = TRUE
    FailableClasses = {1}
SPECIFICATION Spec
SYMMETRY MCSymmetry
INVARIANT MTypeOK
INVARIANT ServedBlockFits
INVARIANT ServedFromItsClass
INVARIANT FreeListsHomogeneous
INVARIANT MNoDoubleIssue
INVARIANT MNoLostBlock
INVARIANT IndexMatchesReference
PROPERTY ClassesImplementPoolStack
