SPECIFICATION CSpec
CONSTANTS
  b1 = b1
  b2 = b2
  c1 = c1
  c2 = c2
  Bridges = {b1, b2}
  Slots = {80}
  Deployments = {c1, c2}
  Images = {img}
  PoolRanges <- MCPoolRanges
  MaxRestarts = 1
  MaxEdits = 2
  None = None
SYMMETRY MCSymmetry
INVARIANTS Partition NoLeak DistinctUntilTorn RoutesTracked NoCrossTalk
CHECK_DEADLOCK FALSE
