CONSTANTS
    edited = edited
    Clean = Clean
    Repos <- MCRepos
    Terminal = 1
    MaxCommit = 2
    Forward = TRUE
    Edits <- MCEdits
    LockOf <- MCLockOf
    p1 = p1
    p2 = p2
    f1 = f1
    f2 = f2
    f3 = f3
    w1 = w1
    w2 = w2
    Startup = Startup
    Nobody = Nobody
    MaxHash = 2
    MaxFaults = 2
    Pkgs <- MCPkgs
    Files <- MCFiles
    PkgOf <- MCPkgOf
    Workers <- MCWorkers
SPECIFICATION MCSpec
VIEW MCView
SYMMETRY Symmetry
\* The filer has nothing to do once every content is recorded and filed.
CHECK_DEADLOCK FALSE
INVARIANTS RecordsAreExact CancelMessageIsTrue CompleteIsRemembered
PROPERTIES SkipIsSound FilesOneBeadPerKey
