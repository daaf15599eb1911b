SPECIFICATION Spec
CONSTANTS
  Ports = {1, 2, 3}
  ResvLo = 4
  ResvHi = 7
  VidMax = 8
  LineMax = 2
  AclBase = 10
  AclMax = 3
  AclMaxRules = 4
  ProbeName = 2
  ProbeIdx <- MCProbeIdx
  TrapIdx = {20}
  NoAcls = NoAcls
  Cmd = {w1, w2}
  Groups = {2, 3}
  PortLists <- MCPortLists
  Rules <- MCRules
  BadPorts = {3}
  L2Files <- MCL2Files
  AclFiles <- MCAclFiles
  MaxCmds = 2
  MaxCrashes = 1
INVARIANTS
  L2Applied
  AclsApplied
  GroupTracked
PROPERTIES
  Settles
CHECK_DEADLOCK FALSE
