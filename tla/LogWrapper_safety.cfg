\* One observed run whose CMD carries --override-input, two runs that only sweep.
CONSTANTS
  Runs = {r1, r2, r3}
  Guarded = {r1}
  NoTelemetry = {r2, r3}
  MaxLines = 2
  ParseCap = 1
  RetainedCap = 1
  TotalCap = 1
  Drvs = {"d1", "d2"}
  Substs = {"s"}
  Waits = {"w"}
  Copies = {"c"}
  Aggs = {"b1", "b2"}
  CopyOf <- MCCopyOf
  OuterOf <- MCOuterOf
  Values = {1, 2}
  DrvKinds = {"build_failed", "dependency_failed"}
  RunKinds = {"eval_error"}
  MaxFailedDrvs = 1
  MaxLog = 4
SYMMETRY Sym
SPECIFICATION MCSpec
\* A wrapper that ended stays ended.
CHECK_DEADLOCK FALSE
INVARIANTS EvidenceKept WarningNeverExitsZero LogIsReported
PROPERTY LiveLogIsLeftAlone
