\* Two devices compete for one seat through a slow and a fast replica.
SPECIFICATION SeatSpec
CONSTANTS
    NoDevice = NoDevice
    SeatDevices = {d1, d2}
    SeatRequests = {r1, r2}
    Limits = {1}
    SeatTTL = 4
    MaxSkew = 1
    Skews <- SlowAndFast
    MaxStall = 1
    SeatMaxTime = 3
CONSTRAINT UntilDegraded
SYMMETRY Symmetry
INVARIANTS
    SeatsWithinLimit
    FreshLeaseKeepsSeat
    GhostSeatEnds
CHECK_DEADLOCK FALSE
