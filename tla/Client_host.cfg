\* Careful and careless hosts, two signing keys, crashes and lost answers.
SPECIFICATION Spec
CONSTANTS
    NULL = NULL
    Garbled = Garbled
    SignKeys = {k1, k2}
    FirstKey = k1
    LeaseTTL = 1
    Grace = 0
    Hosts = {"careful", "careless"}
    Rotating = {"careful"}
    MaxSeq <- Numbers
    MaxTime = 2
INVARIANTS
    TypeOK
    SavedLeaseVerifies
    NumbersStayAhead
    
PROPERTIES
    StopReturns
    StateBinKeepsUp
    DeactivatedForGood
