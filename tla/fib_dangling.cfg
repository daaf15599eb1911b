SPECIFICATION Spec
CONSTANTS
  Gw4 = {g1, g2}
  Gw6 = {}
  Dst4 = {p1}
  Dst6 = {}
  Own = {}
  Station = {s1}
  Cpu = cpu
  NeighMax = 2
  NhFreeMax = 4
  RouteMax <- MCRouteMax22
  TransitBase = 1
  LocalBase = 4
  DiagSlot = 6
  Defip128Size = 2
  EcmpSlots = 4
  EcmpGrpMax = 3
  MaxPaths = 2
  Faulty = {}
  MaxNh = 3
  MaxTransit = 2
  MaxLocal = 1
INVARIANTS
  NoDanglingNextHop
