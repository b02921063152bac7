CONSTANTS
    None = None
    Half = Half
    MaxFlows = 2
    MaxRuns = 2
    MaxCommands = 5
    MaxCrash = 2
    MaxFault = 1
SPECIFICATION FairSpec
INVARIANTS WorkSurvives OneListed FlowIsAlone
PROPERTY FlowEnds
CHECK_DEADLOCK FALSE
