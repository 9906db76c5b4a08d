SPECIFICATION FairWorkerSpec
CONSTANTS
  Units = 3
  Setups <- Workers
  MaxFaults = 3
INVARIANTS CheckpointBehindPersisted ReplayIsOnePlan WorkerInv
PROPERTIES EndsOnlyWhenDone ImplementsAtLeastOnce AllDelivered StopEndsTheRun
