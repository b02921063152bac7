CONSTANTS
    Devices = {d1, d2}
    None = None
    MaxSnap = 2
    MaxFence = 2
    MaxTries = 1
    MaxEpoch = 1
    MaxFault = 1
SPECIFICATION Spec
SYMMETRY Symmetry
INVARIANTS CommitKeepsData PinnedDataPresent PinIsCommitted GivenUpNeverLands
CHECK_DEADLOCK FALSE
