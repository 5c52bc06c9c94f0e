\* One card, two administrators with stale rows, a user account, devices and a clock.
SPECIFICATION Spec
CONSTANTS
    c1 = c1
    c2 = c2
    basic = basic
    topup = topup
    prod = prod
    NULL = NULL
    Cards = {c1}
    Licenses = {l1, l2}
    Fingerprints = {f1}
    Keys = {k1}
    Plans = {basic}
    Products = {prod}
    ClientRequests = {r1, r2}
    AdminRequests = {a1, a2}
    CardKind <- OneCardKind
    PlanOf <- OnePlanOf
    ProductOf <- OneProductOf
    PlanKind <- DurationPlans
    DurationDays <- One
    FixedExpiry <- Zero
    UsesTotal <- Zero
    DeviceLimit <- One
    ConcurrentLimit <- One
    LeaseTTL = 1
    ExtendDays = 1
    Operations = {"activate", "heartbeat", "card action", "license action", "bind card"}
    MaxTime = 2
    MaxExpiry = 0
SYMMETRY Symmetry
INVARIANTS
    TypeOK
    
    PointersAgree
PROPERTY ImplementsLedger
