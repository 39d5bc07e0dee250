SPECIFICATION Spec
CONSTANTS
  MaxPid = 3
  Solver = 1
  PidsWrap = FALSE
  ScanPeriod = 3
  EarlyScans = 1
  DelayTicks = 2
  Limits = {"wall", "cpu"}
  WallLimit = 2
  MaxLate = 1
  UserSignals = FALSE
INVARIANTS
  TypeOK
  ScanComplete
  SweepComplete
PROPERTY KeepsPromise
