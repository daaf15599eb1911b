SPECIFICATION Spec
CONSTANTS
  Gw = {g1, g2}
  Gw4 = {g1, g2}
  Dst = {p1}
  Dst4 = {p1}
  Index <- MCIndex
  MaxPaths = 2
  QueueMax = 2
  MaxChanges = 3
INVARIANTS
  OneDumpInFlight
  NothingStale
PROPERTIES
  Converges
