SPECIFICATION FairSpec
CONSTANTS
  U32 = 4
  U64 = 16
  MaxManifest = 3
  MaxNesting = 6
  Menu <- SmallMenu
  HeaderSize = 2
  ControlMax = 3
  ChunkMin = 2
  ChunkMax = 3
  KeepaliveMax = 2
CHECK_DEADLOCK FALSE
INVARIANTS
  TypeOK
  InOrder
  RoundTrip
PROPERTIES
  Delivered
