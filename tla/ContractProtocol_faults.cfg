CONSTANTS
    Upload <- MCUpload
    Chunk <- MCChunk
    Faults = {"disconnect", "crash", "server", "register", "rpc", "mutate"}
SPECIFICATION Spec
INVARIANTS
    TypeOK
    AnswersAccepted
    LookupsSucceed
    PaysOnlySecured
PROPERTIES
    ImplementsSafeSwap
    ImplementsMicrotransfer
CHECK_DEADLOCK FALSE
