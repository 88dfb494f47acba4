SPECIFICATION FairSpec
CONSTANTS
  Conns <- TwoConns
  MaxDownloads = 1
  MaxFailed = 1
CHECK_DEADLOCK FALSE
INVARIANTS
  LostOnlyToRace
PROPERTIES
  ShutdownSparesTransfers
  StopEnds
  RespondEnds
