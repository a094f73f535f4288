\* One connection is enough.
CONSTANTS
  Conns = {c1}
  Keys = {k1}
  Transports = {tls, plain}
  tls = tls
  plain = plain
  None = None
  c1 = c1
  k1 = k1
  PerMin = 1
  Window = 0
  MaxRequests = 2
  MaxTaken = 3
  MaxEdits = 0
  MaxRetags = 0
  MaxTime = 1
  MaxCrashes = 0
  MaxFails = 0
SPECIFICATION Spec
INVARIANTS
  EveryExecutionRecorded
CHECK_DEADLOCK FALSE
