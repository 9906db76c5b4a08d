SPECIFICATION LockSpec
CONSTANTS
  p1 = p1
  p2 = p2
  p3 = p3
  Procs = {p1, p2, p3}
  NoProc = NoProc
  HostOf <- TwoHosts
  PidOf <- DistinctPids
  Overlap = TRUE
  MaxFaults = 0
INVARIANTS ExclusiveSupervisor
