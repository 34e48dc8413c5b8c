\* A work buffer capacity that pool_alloc cannot serve (0 or above 4 MiB),
\* or a failed malloc, gives a NULL work buffer.
CONSTANTS
    Ops = {"compress", "uncompress"}
    InputChunks = 1
    MaxFull = 1
    InitCodes <- MCInitCodes
    AllocResults = {"block", "null"}
    OutputMayFail = FALSE
    EndChunks = {1}
    BadChunks = {0}
SPECIFICATION Spec
INVARIANT NoNullBuffer
