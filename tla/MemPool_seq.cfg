\* One thread, three node addresses: growth, reuse, LIFO order, teardown.
CONSTANTS
    Threads = {t1}
    Nodes = {n1, n2, n3}
    NULL = NULL
    CounterBits = 8
SPECIFICATION Spec
SYMMETRY MCSymmetry
INVARIANT TypeOK
INVARIANT NoDoubleIssue
INVARIANT NoLostBlock
INVARIANT FreeListAcyclic
INVARIANT CounterMatchesFreeList
PROPERTY ImplementsPoolStack
