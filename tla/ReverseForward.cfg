\* One break of the session, nothing else goes wrong.
SPECIFICATION ReverseFairSpec
CONSTANTS
  Peers = {}
  MaxSessions = 3
  MaxCuts = 1
  MaxRestarts = 0
  MaxFaults = 0
PROPERTIES Reestablished
CHECK_DEADLOCK FALSE
