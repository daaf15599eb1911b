SPECIFICATION Spec
CONSTANTS
  Gw4 = {g1}
  Gw6 = {h1, h2}
  Dst4 = {p1}
  Dst6 = {q1, q2}
  Own = {}
  Station = {s1}
  Cpu = cpu
  NeighMax = 1
  NhFreeMax = 2
  RouteMax <- MCRouteMax11
  TransitBase = 1
  LocalBase = 4
  DiagSlot = 6
  Defip128Size = 1
  EcmpSlots = 4
  EcmpGrpMax = 1
  MaxPaths = 2
  Faulty = {"egr", "entry", "ecmp"}
  MaxNh = 2
  MaxTransit = 1
  MaxLocal = 1
INVARIANTS
  EcmpRoutesIntact
  NextHopOwnership
  SlotOwnership
  FreeListsSuffice
PROPERTIES
  StableNextHop
