\* A uses plan with one use: the first activation uses the card up.
SPECIFICATION Spec
CONSTANTS
    c1 = c1
    c2 = c2
    basic = basic
    topup = topup
    prod = prod
    NULL = NULL
    Cards = {c1}
    Licenses = {l1}
    Fingerprints = {f1}
    Keys = {k1}
    Plans = {basic}
    Products = {prod}
    ClientRequests = {r1}
    AdminRequests = {a1}
    CardKind <- OneCardKind
    PlanOf <- OnePlanOf
    ProductOf <- OneProductOf
    PlanKind <- UsesPlans
    DurationDays <- One
    FixedExpiry <- Zero
    UsesTotal <- One
    DeviceLimit <- One
    ConcurrentLimit <- One
    LeaseTTL = 1
    ExtendDays = 1
    Operations = {"activate", "license action"}
    MaxTime = 0
    MaxExpiry = 0
SYMMETRY Symmetry
INVARIANT LiveLicenseRevocable
