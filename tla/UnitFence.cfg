SPECIFICATION Spec
CONSTANTS
  p1 = p1
  p2 = p2
  Procs = {p1, p2}
  NoProc = NoProc
  Tokens = {t1, t2}
  NoToken = NoToken
  Calls <- Launchers
  Requests = {}
  MaxFaults = 1
SYMMETRY Symmetric
INVARIANTS AtMostOneWorkload ProvenanceBeforeExec AuditedReplacement IInv LaunchAtMostOneAhead
PROPERTIES GenerationNeverRegresses ImplementsLaunchFence
