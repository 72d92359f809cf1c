CONSTANTS
    edited = edited
    Clean = Clean
    Repos <- MCRepos
    Terminal = 1
    MaxCommit = 2
    Forward = TRUE
    Edits <- MCEdits
    LockOf <- MCLockOf
SPECIFICATION ApplySpec
INVARIANT LockedRevIsBuilt
