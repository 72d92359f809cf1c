CONSTANTS
  First = First
  Second = Second
  NoRepo = NoRepo
  NoSet = NoSet
  Absent = Absent
  Torn = Torn
  Keys = {1, 2, 3}
  Hosts = {"github", "forge"}
  MaxActs = 4
  Procs = {First, Second}
  Repos <- MCRepos
  Sets <- MCSets
  InDir <- MCInDir
  CanonLock <- MCLock
  MaxFaults = 1
  MaxUser = 2
  Focuses = {"graph", "urls", "files", "nest", "race"}
SYMMETRY Sym
SPECIFICATION MCSpec
\* A workspace nobody works on may stay as it is, and nothing is left to do once the
\* bound on the user's acts is reached.
CHECK_DEADLOCK FALSE
INVARIANTS GraphIsReadAlike EdgesAreExact EditsSurvive UndisturbedSetIsWhole ListedSetOpens
PROPERTY LockIsWhole
