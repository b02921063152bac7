CONSTANTS
    Txns = {t1}
    Commits = {c1}
    None = None
    Bad = Bad
    MaxEpoch = 1
    MaxCtl = 1
    MaxCrash = 2
    MaxFault = 0
    Faults = {}
SPECIFICATION Spec
INVARIANT ClassTellsProgress
CHECK_DEADLOCK FALSE
