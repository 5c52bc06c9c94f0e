\* A card with a fixed date and a renewal card, and a card of a uses plan.
SPECIFICATION Spec
CONSTANTS
    c1 = c1
    c2 = c2
    c3 = c3
    basic = basic
    topup = topup
    metered = metered
    prod = prod
    f1 = f1
    NULL = NULL
    Cards = {c1, c2, c3}
    Licenses = {l1, l2}
    Fingerprints = {f1, f2, f3}
    Keys = {k1, k2}
    Plans = {basic, topup, metered}
    Products = {prod}
    ClientRequests = {r1, r2}
    AdminRequests = {a1}
    CardKind <- PlansCardKind
    PlanOf <- PlansPlanOf
    ProductOf <- OneProductOf
    PlanKind <- PlansKind
    DurationDays <- PlansDays
    FixedExpiry <- One
    UsesTotal <- PlansUses
    DeviceLimit <- PlansDevices
    ConcurrentLimit <- One
    LeaseTTL = 1
    ExtendDays = 1
    Operations = {"activate", "redeem", "card action", "plan status", "deactivate",
                  "unbind", "license action", "extend", "product status"}
    MaxTime = 2
    MaxExpiry = 3
CONSTRAINT OneScenario
SYMMETRY PlansSymmetry
INVARIANTS
    RenewalCardSpentOnce
    
    UsesAccounted
