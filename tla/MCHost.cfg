\* Five appends, two of them torn; two calls from three names, with one
\* address that moves and one failure; two users of the memory of two
\* nodes; two tunnels, two stops or lists; three edits of a key file; and
\* five intervals of an agent.
SPECIFICATION MCSpec
CONSTANTS
  MaxRecords = 5
  MaxTorn = 2
  alpha = alpha
  beta = beta
  me = me
  there = there
  elsewhere = elsewhere
  local = local
  ours = ours
  Nodes = {alpha, beta, me}
  Self = me
  Within <- MCWithin
  Addresses = {there, elsewhere, local, ours}
  Loopback = local
  OwnAddresses = {ours}
  NoAddress = NoAddress
  Calls = {c1, c2}
  Nobody = Nobody
  Worlds <- MCWorlds
  MaxMoves = 1
  MaxFailures = 1
  Users = {u1, u2}
  Members = {m1, m2}
  Roles = {r1}
  NoRole = NoRole
  NoteLimit = 2
  MostFound = 3
  MaxLosses = 1
  Tunnels = {t1, t2}
  Stoppers = {s1, s2}
  Pids = {p1, p2}
  NoPid = NoPid
  NoTunnel = NoTunnel
  MaxFaults = 1
  Editors = {e1, e2, e3}
  Keys = {k1, k2}
  Junk = Junk
  MaxWritten = 1
  MaxCrashed = 1
  Watched = {n1}
  PublicKeys = {pk}
  NoPath = NoPath
  Interval = 2
  MinAttempts = 2
  MaxTimeouts = 1
  MaxTime = 10
SYMMETRY Symmetry
INVARIANTS AllTypeOK DamageIsLocal VerifiedRunsRight NotesSurvive TunnelsAreTracked  OkIsRecent
CHECK_DEADLOCK FALSE
