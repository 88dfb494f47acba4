SPECIFICATION FairSpec
CONSTANTS
  Peers = {"p"}
  Versions = {"v1"}
  Size <- TwoSizes
  ChunkLen = 2
  MaxInFlight = 2
  MaxAttempts = 2
  MaxCrashes = 0
  Faults = {"loss"}
PROPERTIES
  AttemptEnds
CHECK_DEADLOCK FALSE
