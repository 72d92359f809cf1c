\* Two verbs in a row over the clone and a worktree, two changes of the operator's.
SPECIFICATION MCSpec
CONSTANTS
  MaxVerbs = 2
  MaxChanges = 2
  Declared <- MCDeclared
INVARIANTS DoctorIsHonest HooksAreGated InstalledMeansCurrent
CHECK_DEADLOCK FALSE
