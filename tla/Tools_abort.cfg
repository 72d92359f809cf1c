\* The same instance, started with a rebase or an update.
SPECIFICATION MCSyncSpec
CONSTANTS
  Jobs = {"j1", "j2"}
  Grouped = {"j1"}
  Workers = {"w1", "w2"}
  Hits = {1, 2, 3}
  PageCap = 2
  Texts <- MCTexts
  MaxOthers = 2
  Order <- MCOrder
  MaxTouches = 1
  MaxTrouble = 1
  Base = Base
  Local = Local
  Remote = Remote
  Relock = Relock
  Edits = Edits
  MaxMoves = 4
  MaxFaults = 3
PROPERTY OperatorsRebaseIsKept
CHECK_DEADLOCK FALSE
