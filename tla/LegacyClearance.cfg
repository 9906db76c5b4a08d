SPECIFICATION FairLegacySpec
CONSTANTS
  a = a
  b = b
  c = c
  Ops = {a, b, c}
  Digest <- Requests
  Inodes = {1, 2, 3, 4}
  NoFile = NoFile
  MaxFaults = 2
INVARIANTS LegacyInv CompletionIsTrue OneOperationPerTombstone
PROPERTIES RetiredWithEvidence ClearanceFinishes
