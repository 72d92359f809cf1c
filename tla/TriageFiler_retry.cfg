CONSTANTS
    p1 = p1
    p2 = p2
    f1 = f1
    f2 = f2
    f3 = f3
    w1 = w1
    w2 = w2
    Startup = Startup
    Nobody = Nobody
    MaxHash = 1
    MaxFaults = 2
    Pkgs <- MCPkgs
    Files <- MCFiles
    PkgOf <- MCPkgOf
    Workers <- MCWorkers
SPECIFICATION Spec
CHECK_DEADLOCK FALSE
INVARIANT FailureIsKept
