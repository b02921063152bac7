SPECIFICATION Spec
CONSTANTS
    Devices = {d1, d2}
    None = None
    MaxRoot = 1
    MaxFleet = 1
    MaxRotations = 1
    MaxScopes = 1
    MaxExtras = 1
    MaxRewraps = 1
    Filings <- AllTenant
SYMMETRY Symmetry
INVARIANTS TypeOK RootHasCustodian HoldingsAreBacked PreparingUnderActiveRoot
CHECK_DEADLOCK FALSE
