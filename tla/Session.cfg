\* Two connections of one key, over TLS or plain, up to two requests each and
\* three in all, one edit of the policy, one of the tag, one tick of the clock,
\* one restart and one failed write of the log.
CONSTANTS
  Conns = {c1, c2}
  Keys = {k1}
  Transports = {tls, plain}
  tls = tls
  plain = plain
  None = None
  c1 = c1
  c2 = c2
  k1 = k1
  PerMin = 1
  Window = 0
  MaxRequests = 2
  MaxTaken = 3
  MaxEdits = 1
  MaxRetags = 1
  MaxTime = 1
  MaxCrashes = 1
  MaxFails = 1
SPECIFICATION Spec
INVARIANTS
  AnsweredIsRecorded
  RecordsOwn
  PolicyFresh
  RateBound
SYMMETRY Symmetry
CHECK_DEADLOCK FALSE
