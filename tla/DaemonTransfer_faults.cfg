SPECIFICATION Spec
CONSTANTS
  Peers = {"p"}
  Versions = {"v1", "v2"}
  Size <- TwoSizes
  ChunkLen = 2
  MaxInFlight = 2
  MaxAttempts = 2
  MaxCrashes = 1
  Faults = {"loss", "io", "edit", "corrupt", "sanitize", "jail",
            "cancel", "close", "expiry"}
CHECK_DEADLOCK FALSE
INVARIANTS
  PublishedIsVerified
  AckedIsDurable
  WindowRespected
PROPERTIES
  ProgressKept
