\* The two ends of a tunnel close.
SPECIFICATION FairSpec
CONSTANTS
  Links = {"fmux", "plain", "tls"}
  MaxSent = 1
  Room = 1
  MaxBreaks = 0
PROPERTY BothCloseEnds
CHECK_DEADLOCK FALSE
