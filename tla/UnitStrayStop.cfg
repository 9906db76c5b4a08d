SPECIFICATION Spec
CONSTANTS
  p1 = p1
  p2 = p2
  Procs = {p1, p2}
  NoProc = NoProc
  Tokens = {t1, t2}
  NoToken = NoToken
  Calls <- StrayStop
  Requests = {}
  MaxFaults = 0
SYMMETRY Symmetric
PROPERTIES StopRetainsProvenance
