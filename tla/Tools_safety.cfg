\* Two jobs, one in a process group of its own, on two workers; the commands
\* and settings of MCTools; three issues on pages of two; two repositories.
SPECIFICATION MCSpec
CONSTANTS
  Jobs = {"j1", "j2"}
  Grouped = {"j1"}
  Workers = {"w1", "w2"}
  Hits = {1, 2, 3}
  PageCap = 2
  Texts <- MCTexts
  MaxOthers = 2
  Order <- MCOrder
  MaxTouches = 1
  MaxTrouble = 1
  Base = Base
  Local = Local
  Remote = Remote
  Relock = Relock
  Edits = Edits
  MaxMoves = 4
  MaxFaults = 3
CHECK_DEADLOCK FALSE
INVARIANTS ReturnedMeansOver ObservedOnceUntouched WritesAreReported TextReadsBack SearchIsComplete ReportsAreTrue EditsReturn RelockArrives
PROPERTY CancelEndsTheVerb
