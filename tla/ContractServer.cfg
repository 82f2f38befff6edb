CONSTANTS
    Connection <- MCConnection
    Instance <- MCInstance
    Contract <- MCContract
    Buyer <- MCBuyer
    Seller <- MCSeller
    Host <- MCHost
    Deposit <- MCDeposit
SPECIFICATION FairSpec
INVARIANTS
    TypeOK
    ReadyMeansAgreed
    ReadyCanBeBuilt
PROPERTIES
    ImplementsSwitchboard
    DealsGetReady
CHECK_DEADLOCK FALSE
