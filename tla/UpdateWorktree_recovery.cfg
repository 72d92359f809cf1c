CONSTANTS
    Base = Base
    Local = Local
    Remote = Remote
    Relock = Relock
    Edits = Edits
    MaxMoves = 3
    MaxFaults = 2
SPECIFICATION Spec
INVARIANT RecoveryKeepsWork
CHECK_DEADLOCK FALSE
