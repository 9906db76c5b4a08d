SPECIFICATION FairSpec
CONSTANTS
  p1 = p1
  p2 = p2
  Procs = {p1, p2}
  NoProc = NoProc
  Tokens = {t1, t2}
  NoToken = NoToken
  Calls <- Supervised
  Requests = {"disabled"}
  MaxFaults = 1
INVARIANTS HandleCanStop
PROPERTIES GateResolves WantedUnitIsFenced DisabledWorkerIsTermed
