SPECIFICATION Spec
CONSTANTS
  FrontPorts = {1, 2, 3}
  OwnBase = 3
  VidMax = 6
  EntryMax = 3
  RuleMax = 2
  BindMax = 2
  FpMax = 2
  Flaky = {1}
  GroupFiles <- MCGroupFiles
  AclFiles <- MCAclFiles
  StartFiles <- MCStarts
  SockMax = 1
  MaxEdits = 2
  MaxLinks = 1
  MaxCrashes = 1
INVARIANTS
  BridgedAsFile
  AclsAsFile
  OwnNetdev
  AdminFollowed
PROPERTIES
  FilesReachChip
CHECK_DEADLOCK FALSE
