CONSTANTS
    Devices = {d1}
    Uploads = {u1, u2}
    Reqs = {r1, r2}
    None = None
    Size = 2
    LeaseTTL = 1
    UploadTTL = 1
    MaxTime = 1
    MaxFence = 2
    MaxCrash = 1
    MaxFault = 1
SPECIFICATION Spec
SYMMETRY Symmetry
INVARIANTS TypeOK FencedHistory OneUploadPerLease BytesOnDisk
INVARIANTS QuarantineHasCause ServedIsIntact SecondPassKeeps SettlesInSteps
PROPERTIES ImplementsLog MovesForward
CHECK_DEADLOCK FALSE
