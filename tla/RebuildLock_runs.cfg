CONSTANTS
    p1 = p1
    p2 = p2
    r1 = r1
    r2 = r2
    ApplyKey = ApplyKey
    None = None
    Runs <- MCTwoRuns
    Roots <- MCRoots
    Waits <- MCWaits
SPECIFICATION FairSpec
CHECK_DEADLOCK FALSE
INVARIANTS FilesNameTheirOwners NoLeakedLock
PROPERTIES ImplementsSingleFlight WaitsEnd
