CONSTANTS
    Devices = {d1}
    None = None
    MaxSnap = 2
    MaxFence = 2
    MaxTries = 1
    MaxEpoch = 0
    MaxFault = 1
SPECIFICATION FairSpec
PROPERTY LeaseDropped
CHECK_DEADLOCK FALSE
