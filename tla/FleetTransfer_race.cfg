CONSTANTS
    Uploads = {u1, u2}
    Devices = {d1, d2}
    None = None
    Size = 2
    MaxCrash = 0
SPECIFICATION Spec
SYMMETRY Symmetric
INVARIANT BlobKept
CHECK_DEADLOCK FALSE
