SPECIFICATION Spec
CONSTANTS
  Ports = {1, 2, 3}
  ResvLo = 4
  ResvHi = 7
  VidMax = 8
  LineMax = 2
  AclBase = 10
  AclMax = 3
  AclMaxRules = 4
  ProbeName = 2
  ProbeIdx <- MCProbeIdx
  TrapIdx = {20}
  NoAcls = NoAcls
  Cmd = {w1}
  Groups = {2, 3}
  PortLists <- MCPortLists
  Rules <- MCRules
  BadPorts = {3}
  L2Files <- MCL2Files
  AclFiles <- MCAclFiles
  MaxCmds = 1
  MaxCrashes = 0
INVARIANT AclsEnforced
CHECK_DEADLOCK FALSE
