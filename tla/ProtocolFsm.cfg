SPECIFICATION FairSpec
CONSTANT MaxPauses = 2
CHECK_DEADLOCK FALSE
INVARIANTS
  TimersMatch
  LedByPeer
PROPERTIES
  TransferEnds
  SessionSettles
