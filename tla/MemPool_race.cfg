\* Three threads racing on one node: competing pops, spurious CAS failures,
\* under fair scheduling. No symmetry: TLC's liveness checking is not sound
\* under it.
CONSTANTS
    Threads = {t1, t2, t3}
    Nodes = {n1}
    NULL = NULL
    CounterBits = 8
SPECIFICATION FairSpec
INVARIANT NoDoubleIssue
INVARIANT NoLostBlock
INVARIANT CounterMatchesFreeList
PROPERTY ImplementsPoolStack
PROPERTY LockFree
