SPECIFICATION ServicesSpec
CONSTANTS
    Sessions = {s1, s2}
    NoSession = NoSession
    AuthRequests = {r1, r2}
    Threshold = 2
    LockFor = 1
    SessionTTL = 1
    AuthStall = 1
    MaxEpoch = 1
    MaxSetups = 1
    MaxFailed = 4
    AuthMaxTime = 2

    Agents = {a1}
    NoAgent = NoAgent
    LedgerTx = {r1, r2}
    NoTx = NoTx
    Prices = {0, 1, 2}
    Quantities = {1, 2}
    Amounts <- BalanceChanges
    MaxCents = 5
    MaxBatches = 4

    Machines = {s1, s2}
    NoMachine = NoMachine
    UserCards = {c1}
    CardDays <- OneDay
    UserRequests = {r1, r2}
    UserTokenTTL = 1
    UserStall = 1
    Extensions = {1}
    MaxPassword = 1
    MaxResets = 1
    MaxGranted = 1
    UserMaxTime = 2

    slow = slow
    fast = fast
    Asks = {r1, r2}
    Servers = {slow, fast}
    ServerSkew <- Skew
    RateSkew = 1
    RateStall = 1
    Window = 4
    ConfigTTL = 2
    Fallback = 2
    Limits = {1}
    RateMaxTime = 7
    MaxHits = 3

    b1 = b1
    b2 = b2
    k1 = k1
    k2 = k2
    k3 = k3
    Batches = {b1, b2}
    Stock = {k1, k2, k3}
    Contents <- Overlapping
    AgentBatches = {b1}
    NoBatch = NoBatch
    CatalogTx = {r1, r2}
SYMMETRY Alike
INVARIANTS
    ServicesTypeOK
    SessionsFollowAccount
    GuessesBounded
    SecretTriedOnce
    LedgerChain
    
    OneMachine
    
    OldPasswordEnds
    
    BatchesWhole
CHECK_DEADLOCK FALSE
