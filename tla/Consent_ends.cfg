SPECIFICATION FairSpec
CONSTANTS
  Handlers = {"h1", "h2"}
  Pairings = {}
  Key <- OneKey
  Watchers = {"w"}
  Confirms = {"c1", "c2"}
  QueueCap = 1
CHECK_DEADLOCK FALSE
INVARIANTS
  WinnerDecides
PROPERTIES
  RequestEnds
  PrunedWatcherEnds
