CONSTANTS
    c1 = c1
    c2 = c2
    Challenger = {c1}
    Slots = 2
    MaxInbound = 1
    Attempts <- MCAttemptsOnce
    MaxAttempts = 2
    MaxCandidates = 2
    MaxLines = 1
    InOrder = TRUE
    Breakable = FALSE
    None = None
    Closed = Closed
SPECIFICATION FairSpec
PROPERTY
    Relisted
CHECK_DEADLOCK FALSE
