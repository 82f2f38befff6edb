CONSTANTS
    Watch = {w1}
    Forms = {"confirm"}
    Confirmations = 4
    MaxChecks = 1000
    MaxHeight = 4
    MaxForks = 1
    MaxFailures = 0
    MaxReports = 2
SPECIFICATION Spec
INVARIANT
    ConfirmMeansDeep
CHECK_DEADLOCK FALSE
