\* One job seen by two clients, three RPCs each, one line per stream, one of
\* the clients being a run-async that may lose one call in its part; a shell
\* with three keys or window sizes and two lines of output; and every workflow of up
\* to three steps with two ids, cut off after five hops; and
\* the choice between two hosts.
SPECIFICATION MCSpec
CONSTANTS
  Jobs = {j1}
  Clients = {w1, w2}
  MaxOutput = 1
  MaxCalls = 3
  Me = w1
  MaxLost = 1
  MaxInput = 3
  MaxLines = 2
  StepIds = {a, b}
  Unknown = unknown
  MaxSteps = 3
  HopFactor = 1
  HopMargin = 2
  HostCount = 2
  Reports <- MCReports
  Requests <- MCRequests
INVARIANTS AllTypeOK LogsComplete VerdictTruthful CancelAcknowledged InlineIsComplete StatusIsTruthful RouteServes
PROPERTIES VerdictFinal WorkEnds
CHECK_DEADLOCK FALSE
