SPECIFICATION Spec
CONSTANTS
    ann = ann
    bob = bob
    u1 = u1
    u2 = u2
    u3 = u3
    u4 = u4
    k1 = k1
    a1 = a1
    a2 = a2
    NoCust = NoCust
    Customers = {ann, bob}
    Known = {ann}
    Payloads <- mcPayloads
    Limit <- mcLimit
    PerRs = 2
    OpeningPoints <- mcOpening
    InitStock = 3
    Strict = TRUE
    Edits <- mcEdits
    Instalments = {2}
    PayAttempts = {a1, a2}
    PayKey <- mcPayKey
    PayAmount <- mcPayAmount
    PayCust = ann
    MaxSales = 2
CHECK_DEADLOCK FALSE
INVARIANTS
    TypeOK
    DrawerFollowsSales
    CreditFollowsSales
    PointsFollowSales
    StockFollowsSales
    BalancesNonNegative
    PaymentOnce
