SPECIFICATION Spec
CONSTANTS
  MaxPid = 3
  Solver = 1
  PidsWrap = FALSE
  CpuLimit = 2
  MaxCpu = 2
  IgnoresChild = TRUE
INVARIANTS
  TreeNeverOvercounts
  ReportExact
