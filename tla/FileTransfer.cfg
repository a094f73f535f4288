\* Two uploads of any verb and version against a download, a crash (or power
\* failure) and two lost connections or failed file operations (MaxDrops); or a
\* download in chunks, of which at most three come, against an upload, a
\* replacement and a failure; or two deploys by one process or two, a call of
\* which is lost or late.
SPECIFICATION MCSpec
CONSTANTS
  Uploads = {u1, u2}
  Downloads = {d1}
  New = {v1, v2}
  Old = Old
  Hole = Hole
  None = None
  Blocks = 2
  Overlap = FALSE
  MaxCrashes = 1
  MaxDrops = 2
  Fetches = {f1}
  Uploaders = {w1}
  Contents <- MCContents
  Counts <- MCCounts
  MostConns = 3
  MaxReplaced = 1
  MaxBroken = 1
  Deploys = {d2, d3}
  Processes = {p1, p2}
  Before = Before
  Nothing = Nothing
  Size = 2
  MaxLostCalls = 1
SYMMETRY Symmetry
INVARIANTS AllTypeOK PathWhole DownloadIsOneVersion FailedUploadLeavesNoTrace DeployIsAtomic
PROPERTIES OkMeansInstalled PathNeverMissing
CHECK_DEADLOCK FALSE
