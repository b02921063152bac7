CONSTANTS
    Helpers = {h1}
    User = user
    None = None
    Pids = {p1, p2}
    MaxLaunch = 2
    MaxHand = 1
    MaxCrash = 1
SPECIFICATION FairSpec
INVARIANTS OwnershipKept MutationAlone
PROPERTIES EntryLeaves
CHECK_DEADLOCK FALSE
