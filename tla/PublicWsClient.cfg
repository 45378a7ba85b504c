SPECIFICATION FairSpec
CONSTANTS
  InitialDelay = 1
  MaxDelay = 3
  JitterPercent = 20
  StormAttempts = 1
  StormWindow = 2
  StormCooldown = 3
  Topics = {book, event}
  StartTopics = {book}
  SnapshotBacked = {book}
  MaxStamp = 0
  MaxPendingEvents = 1
  Elapsed = {1, 3}
  MaxGeneration = 3
  MaxCalls = 1
INVARIANTS LiveIsFresh LossIsAnnounced
PROPERTIES BackoffSurvivesConnecting Progress
CHECK_DEADLOCK FALSE
