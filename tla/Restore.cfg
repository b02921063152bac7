CONSTANTS
    Txns = {t1}
    Commits = {c1, c2}
    None = None
    Bad = Bad
    MaxEpoch = 1
    MaxCtl = 1
    MaxCrash = 1
    MaxFault = 1
    Faults = {"manifest", "archive", "record"}
SPECIFICATION Spec
SYMMETRY Symmetry
INVARIANTS TypeOK NothingLost NoDanglingReceipt CommitResumes
INVARIANTS LiveIsFrozen RecordHasDatabase ServedHasAudits
CHECK_DEADLOCK FALSE
