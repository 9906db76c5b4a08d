SPECIFICATION FairIngestSpec
CONSTANTS
  r1 = r1
  r2 = r2
  Runs = {r1, r2}
  NoRun = NoRun
  Windows = 2
  Profiles <- Usual
  Versions = 1
  MaxFaults = 2
INVARIANTS IngestInv
PROPERTIES ReportNamesLosses WholeBatches IngestEnds
