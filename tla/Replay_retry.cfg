\* A device activates, and tries again.
SPECIFICATION Spec
CONSTANTS
    NULL = NULL
    Nonces = {n1, n2}
    Requests = {r1}
    ReplayWindow = 3
    SeqTTL = 4
    MaxClockSkew = 1
    ClockError = 0
    Stall = 1
    Faults = {}
    SignedKinds = {"activate"}
    MaxTime = 2
SYMMETRY Symmetry
INVARIANT ActivationCanBeRetried
CHECK_DEADLOCK FALSE
