CONSTANTS
    foundation = foundation
    library = library
    app = app
    None = None
    MaxRuns = 2
    MaxMoves = 2
    MaxFaults = 1
    Repos <- MCRepos
    Deps <- MCDeps
    Orders <- MCOrders
    Tracking <- MCTracking
    Ahead <- MCAhead
SPECIFICATION Spec
CHECK_DEADLOCK FALSE
INVARIANTS SiblingsCatchUp TreesAreLeftAlone UndisturbedRunSucceeds
PROPERTIES PublishesDependenciesFirst
