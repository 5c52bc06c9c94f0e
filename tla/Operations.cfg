SPECIFICATION OperationsSpec
CONSTANTS
    NULL = NULL
    Cards = {c1, c2}
    Licenses = {l1}
    RowTx = {t1, t2}
    RenewalCards = {c2}

    Replicas = {p1, p2, p3}
    Skips = {p3}
    NoReplica = NoReplica
    Files = 3
    Rerunnable = {2}
    AdminFile = 1
    MaxFaults = 2

    Extenders = {x1, x2}
    Coupons = {k1}
    CouponDays = 1
    Workers = {w1}
    Forever = Forever
    FirstDates <- Dates
    MaxGiven = 2
    MaxCuts = 1
    ExpiryMaxTime = 2
INVARIANTS
    OperationsTypeOK
    DeadlocksNeedBothOrders
    SchemaInOrder
    DaysAddUp
PROPERTIES
    RowsImplementLedger
    TransactionsEnd
    ReplicasServe
    ExpirySettles
CHECK_DEADLOCK FALSE
