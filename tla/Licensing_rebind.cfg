\* A device unbinds itself and activates the card again.
SPECIFICATION Spec
CONSTANTS
    c1 = c1
    c2 = c2
    basic = basic
    topup = topup
    prod = prod
    NULL = NULL
    Cards = {c1}
    Licenses = {l1}
    Fingerprints = {f1}
    Keys = {k1}
    Plans = {basic}
    Products = {prod}
    ClientRequests = {r1}
    AdminRequests = {a1}
    CardKind <- OneCardKind
    PlanOf <- OnePlanOf
    ProductOf <- OneProductOf
    PlanKind <- DurationPlans
    DurationDays <- One
    FixedExpiry <- Zero
    UsesTotal <- Zero
    DeviceLimit <- One
    ConcurrentLimit <- One
    LeaseTTL = 1
    ExtendDays = 1
    Operations = {"activate", "deactivate"}
    MaxTime = 0
    MaxExpiry = 0
SYMMETRY Symmetry
PROPERTY ActivationBinds
