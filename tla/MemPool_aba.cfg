\* Two threads, two node addresses: a pop delayed between its load of
\* head->next and its CAS while the other thread pops twice and pushes back.
CONSTANTS
    Threads = {t1, t2}
    Nodes = {n1, n2}
    NULL = NULL
    CounterBits = 8
SPECIFICATION Spec
SYMMETRY MCSymmetry
INVARIANT NoDoubleIssue
