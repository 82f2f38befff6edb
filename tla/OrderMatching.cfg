CONSTANTS
    n1 = n1
    n2 = n2
    n3 = n3
    b1 = b1
    b2 = b2
    s1 = s1
    s2 = s2
    Node = {n1, n2, n3}
    Buyer = {b1, b2}
    Seller = {s1, s2}
    Home <- MCHome
    Amount <- MCAmount
    Price <- MCPrice
    Attempts <- MCAttempts
    RatesFail = TRUE
    Nobody = Nobody
    NoMatch = NoMatch
SPECIFICATION FairSpec
INVARIANTS
    TypeOK
    ReservedOnce
    TotalsMatchContract
PROPERTIES
    ImplementsPairing
    ReservationEnds
CHECK_DEADLOCK FALSE
