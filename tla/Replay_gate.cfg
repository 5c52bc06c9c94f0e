\* Redis keeps its keys while sequence calls may fail, or fails in every way.
SPECIFICATION Spec
CONSTANTS
    NULL = NULL
    Nonces = {n1, n2}
    Requests = {r1, r2}
    ReplayWindow = 3
    SeqTTL = 4
    MaxClockSkew = 1
    ClockError = 1
    Stall = 1
    Faults = {"flush", "nonce call", "seq call"}
    SignedKinds = {"activate", "heartbeat"}
    MaxTime = 6
CONSTRAINT ShortWithFaults
SYMMETRY Symmetry
INVARIANTS
    TypeOK
    AcceptedOnce
PROPERTIES
    AcceptedInOrder
    NewToDatabase
CHECK_DEADLOCK FALSE
