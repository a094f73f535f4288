\* Two uploads that stage under the same name at once.
SPECIFICATION MCSpec
CONSTANTS
  Uploads = {u1, u2}
  Downloads = {d1}
  New = {v1, v2}
  Old = Old
  Hole = Hole
  None = None
  Blocks = 2
  Overlap = TRUE
  MaxCrashes = 0
  MaxDrops = 0
  Fetches = {f1}
  Uploaders = {w1}
  Contents <- MCContents
  Counts <- MCCounts
  MostConns = 3
  MaxReplaced = 1
  MaxBroken = 1
  Deploys = {d2, d3}
  Processes = {p1, p2}
  Before = Before
  Nothing = Nothing
  Size = 2
  MaxLostCalls = 1
SYMMETRY Symmetry
INVARIANT PathWhole
CHECK_DEADLOCK FALSE
