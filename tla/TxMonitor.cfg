CONSTANTS
    Watch = {w1, w2}
    Forms = {"confirm"}
    Confirmations = 3
    MaxChecks = 1000
    MaxHeight = 3
    MaxForks = 1
    MaxFailures = 1
    MaxReports = 2
SPECIFICATION Spec
INVARIANTS
    TypeOK
    CallbacksInTime
    NothingMissed
    NeverUndercounted
CHECK_DEADLOCK FALSE
