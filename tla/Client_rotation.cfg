\* The signing key is rotated while the device is off.
SPECIFICATION Spec
CONSTANTS
    NULL = NULL
    Garbled = Garbled
    SignKeys = {k1, k2}
    FirstKey = k1
    LeaseTTL = 1
    Grace = 1
    Hosts = {"careful"}
    Rotating = {"careful"}
    MaxSeq <- Numbers
    MaxTime = 2
INVARIANT BadResponseIsTemporary
