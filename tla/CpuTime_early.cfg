SPECIFICATION Spec
CONSTANTS
  MaxPid = 2
  Solver = 1
  PidsWrap = FALSE
  CpuLimit = 2
  MaxCpu = 2
  IgnoresChild = FALSE
INVARIANT NoEarlyStop
