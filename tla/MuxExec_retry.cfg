\* The daemon dies between running a command and answering it.
SPECIFICATION Spec
CONSTANTS
  Calls = {c1, c2}
  None = None
  MaxCrashes = 1
  MaxResets = 0
INVARIANT AtMostOnce
CHECK_DEADLOCK FALSE
