CONSTANTS
    f1 = f1
    f2 = f2
    w1 = w1
    w2 = w2
    NoFile = NoFile
    Low = 1
    Headless = TRUE
    Forward = TRUE
    MaxVersion = 2
    MaxFaults = 2
    Files <- MCFiles
    Workers <- MCWorkers
SPECIFICATION FairSpec
CHECK_DEADLOCK FALSE
INVARIANTS NothingIsDoneTwice RecordIsOfThisContent UndisturbedRunIsComplete
PROPERTY HeadlessRunEnds
