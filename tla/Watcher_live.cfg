SPECIFICATION FairSpec
CONSTANTS
  MaxPid = 2
  Solver = 2
  PidsWrap = TRUE
  ScanPeriod = 2
  EarlyScans = 1
  DelayTicks = 2
  Limits = {"wall"}
  WallLimit = 1
  MaxLate = 0
  UserSignals = TRUE
INVARIANTS
  KillAfterGrace
  NobodyLeft
PROPERTIES
  StopEnforced
  Termination
  ReasonAnnounced
