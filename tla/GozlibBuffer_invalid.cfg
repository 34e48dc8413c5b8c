\* Decompression of corrupt input: the result on Z_DATA_ERROR.
CONSTANTS
    Ops = {"uncompress"}
    MaxLen = 2
    InitCodes <- MCInitCodes
SPECIFICATION BSpec
INVARIANT InvalidInputReturnsZero
