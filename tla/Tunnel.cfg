\* One tunnel over each kind of link, two chunks each way, which may fail; or a
\* reverse forward with two peers over two sessions, one break, one restart of
\* the daemon and one slow FMUX_OK or failed Accept; or
\* an association with two addresses, three datagrams and three answers.
SPECIFICATION MCSpec
CONSTANTS
  Links = {"fmux", "plain", "tls"}
  MaxSent = 2
  Room = 1
  MaxBreaks = 1
  Peers = {p1, p2}
  MaxSessions = 2
  MaxCuts = 1
  MaxRestarts = 1
  MaxFaults = 1
  Apps = {a1, a2}
  Nowhere = Nowhere
  MaxDatagrams = 3
  StreamRoom = 2
  MayCut = TRUE
INVARIANTS AllTypeOK EofIsComplete ClaimedIsKept RelayLives
PROPERTIES DataAndEndArrive AcceptedIsServedOrClosed NothingIsLeft
CHECK_DEADLOCK FALSE
