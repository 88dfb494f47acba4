SPECIFICATION FairSpec
CONSTANTS
  Manifests <- SmallManifests
  Window = 1
  EventCap = 1
CHECK_DEADLOCK FALSE
INVARIANTS
  TypeOK
  CompleteIsStored
  ReceiveAllOrNothing
  WindowExact
  AnswerLostOnlyEarly
PROPERTIES
  TransferEnds
  CloseReleases
