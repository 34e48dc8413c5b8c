\* Both one-shot calls, every length up to 3, init failures included.
CONSTANTS
    Ops = {"compress", "uncompress"}
    MaxLen = 3
    InitCodes <- MCInitCodes
SPECIFICATION BSpec
INVARIANT BTypeOK
INVARIANT CompressFaithful
INVARIANT UncompressSuccessComplete
INVARIANT SmallOutputHint
