SPECIFICATION Spec
CONSTANTS
  Ports = {1, 2}
  Qsfp = {2}
  BadPorts = {1, 2}
  Grace = 2
  RetryMax = 2
  EventMax = 2
  MaxChanges = 2
INVARIANTS
  DisabledIsOff
  FollowsAdmin
PROPERTIES
  LinksComeUp
  LinksGoDown
