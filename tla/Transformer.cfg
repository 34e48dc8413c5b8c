CONSTANTS
    Handles = {h1, h2}
    TransformerNodes = {t1, t2}
    ZStreamNodes = {z1, z2}
    StateNodes = {s1, s2}
    WorkNodes = {w1, w2}
    NULL = NULL
    InitCodes <- MCInitCodes
    MallocMayFail = TRUE
    WorkMayBeNull = TRUE
SYMMETRY MCSymmetry
SPECIFICATION TSpec
INVARIANT TTypeOK
INVARIANT BlocksAccounted
INVARIANT FreeStreamsEnded
