CONSTANTS
    c1 = c1
    c2 = c2
    Challenger = {c1, c2}
    Slots = 2
    MaxInbound = 1
    Attempts <- MCAttempts
    MaxAttempts = 2
    MaxCandidates = 2
    MaxLines = 1
    InOrder = TRUE
    Breakable = TRUE
    None = None
    Closed = Closed
SPECIFICATION FairSpec
INVARIANTS
    TypeOK
    WithinMax
PROPERTY
    CandidateHeard
CHECK_DEADLOCK FALSE
