SPECIFICATION FairFleetSpec
CONSTANTS
  p1 = p1
  p2 = p2
  p3 = p3
  Procs = {p1, p2, p3}
  NoProc = NoProc
  HostOf <- TwoHosts
  PidOf <- DistinctPids
  Overlap = FALSE
  MaxFaults = 3
  Units = 2
INVARIANTS HolderKeepsLock FleetInv
PROPERTIES ForeignFailsClosed EveryExitFreesTheLock ImplementsFleetPasses DeadLockIsTakenOver
