SPECIFICATION FairSpec
CONSTANTS
  MaxPendingEvents = 2
  MaxGeneration = 2
INVARIANTS GateHolds LossIsAnnounced
PROPERTIES Progress
CHECK_DEADLOCK FALSE
