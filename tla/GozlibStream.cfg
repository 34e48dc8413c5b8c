\* Both calls on three input chunks; zlib may fill the output buffer twice
\* in a row, the initialisation may fail, the output handler may fail, and
\* the compressed input may end in any chunk, be truncated, or be invalid.
CONSTANTS
    Ops = {"compress", "uncompress"}
    InputChunks = 3
    MaxFull = 2
    InitCodes <- MCInitCodes
    AllocResults = {"block"}
    OutputMayFail = TRUE
    EndChunks = {0, 1, 2, 3}
    BadChunks = {0, 1, 2}
SPECIFICATION Spec
INVARIANT GTypeOK
INVARIANT BuffersReleasedOnce
INVARIANT ErrorCodeFaithful
PROPERTY NoCallAfterFailure
PROPERTY Terminates
