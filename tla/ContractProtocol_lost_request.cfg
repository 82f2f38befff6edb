CONSTANTS
    Upload <- MCUploadOnce
    Chunk <- MCChunkOnce
    Faults = {}
SPECIFICATION FairSpec
PROPERTY
    RefundRequestAnswered
