SPECIFICATION FairSpec
CONSTANTS
  Peers = {"p"}
  Versions = {"v1", "v2"}
  Size <- TwoSizes
  ChunkLen = 2
  MaxInFlight = 2
  MaxAttempts = 1
  MaxCrashes = 1
  Faults = {"loss", "io", "corrupt", "edit", "cancel", "close", "expiry", "sanitize"}
PROPERTIES
  AttemptEnds
CHECK_DEADLOCK FALSE
