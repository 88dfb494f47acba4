SPECIFICATION Spec
CONSTANTS
  Peers = {"p", "q"}
  Versions = {"v1", "v2"}
  Size <- TwoSizes
  ChunkLen = 2
  MaxInFlight = 2
  MaxAttempts = 3
  MaxCrashes = 1
  Faults = {"loss"}
CHECK_DEADLOCK FALSE
INVARIANTS
  StateIsPeersOwn
PROPERTIES
  RefinesDelivery
  JournalNeverAhead
