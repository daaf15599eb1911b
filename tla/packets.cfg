SPECIFICATION Spec
CONSTANTS
  Ports = {1, 2}
  ResvLo = 3
  ResvHi = 6
  VidMax = 6
  LineMax = 2
  CacheLine = 2
  PoolSize = 8
  MaxPorts = 2
  LaneOf <- MCLaneOf
  Unmapped = {0}
  PeerMacs = {9}
  FrameSizes = {2, 4}
  TagSize = 1
  RingSize = 3
  DcbSize = 2
  InitSizes = {2, 6}
  L2Files <- MCL2Files
  RingMax = 2
  MaxStarts = 2
  MaxFrames = 2
  MaxChanges = 2
INVARIANTS
  PoolIntact
  NothingLeaks
  FramesStayHome
  OwnMacPunted
PROPERTIES
  FramesHanded
CHECK_DEADLOCK FALSE
