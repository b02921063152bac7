CONSTANTS
    Uploads = {u1, u2}
    Devices = {d1, d2}
    None = None
    Size = 2
    MaxCrash = 2
SPECIFICATION Spec
SYMMETRY Symmetric
INVARIANTS OneChain UnracedBlobKept
CHECK_DEADLOCK FALSE
