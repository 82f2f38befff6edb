CONSTANTS
    Watch = {w1}
    Forms = {"confirm", "mutate", "fraud"}
    Confirmations = 2
    MaxChecks = 1000
    MaxHeight = 4
    MaxForks = 1
    MaxFailures = 1
    MaxReports = 2
SPECIFICATION FairSpec
PROPERTY
    EveryTxReported
CHECK_DEADLOCK FALSE
