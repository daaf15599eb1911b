SPECIFICATION Spec
CONSTANTS
  Ports = {1, 2, 3}
  Flaky = {1}
  Conf = {1, 2, 3}
  SockMax = 2
  MaxCrashes = 2
  MaxStops = 1
  MaxCalls = 2
INVARIANTS
  AssignedOnceReady
  AddressesPunted
PROPERTIES
  AddressesWork
CHECK_DEADLOCK FALSE
