CONSTANTS
    Faults = {"raise", "sql", "commit"}
    MaxCalls = 2
    MaxStatements = 3
    MaxDepth = 4
SPECIFICATION Spec
INVARIANTS
    TypeOK
    
    AllOrNothing
PROPERTY
    OnlyParentCommits
CHECK_DEADLOCK FALSE
