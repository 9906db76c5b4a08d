SPECIFICATION FairLoopSpec
CONSTANTS
  Setups <- Hosts
  MaxSteps = 5
  MaxCounted = 3
INVARIANTS LoopInv AttemptsWithinLimit ReturnsForAReason OneStepAfterStop
PROPERTIES StopFreesTheHost
