SPECIFICATION FairSpec
CONSTANTS
  NProcs = 2
  NClients = 3
  MaxLoad = 5
  Permits = 1
CHECK_DEADLOCK FALSE
INVARIANTS
  AdvertisesAsSet
  SwitchSurvives
  OneDaemon
PROPERTIES
  NoneStarves
