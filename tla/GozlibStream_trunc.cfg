\* A decompression whose compressed input the handler cuts short.
CONSTANTS
    Ops = {"uncompress"}
    InputChunks = 2
    MaxFull = 1
    InitCodes <- MCInitCodes
    AllocResults = {"block"}
    OutputMayFail = FALSE
    EndChunks = {0}
    BadChunks = {0}
SPECIFICATION Spec
INVARIANT TruncationReported
