CONSTANTS
    Upload <- MCUpload
    Chunk <- MCChunk
    Faults = {"disconnect", "crash"}
SPECIFICATION FairSpec
PROPERTIES
    Completes
    HeldAnswerLeaves
    PayoutCertain
CHECK_DEADLOCK FALSE
