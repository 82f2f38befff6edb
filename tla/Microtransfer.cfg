CONSTANT
    Sizes = {1, 2, 3, 5, 7}
SPECIFICATION FairSpec
INVARIANTS
    TypeOK
    OneChunkAtRisk
    BackedByDownload
    CompleteIsFair
PROPERTY
    BothComplete
CHECK_DEADLOCK FALSE
