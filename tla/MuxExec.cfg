\* Two calls, one daemon crash, one network reset.
SPECIFICATION FairSpec
CONSTANTS
  Calls = {c1, c2}
  None = None
  MaxCrashes = 1
  MaxResets = 1
INVARIANTS AnswersMatch SessionCleanWhenFree RunTwiceOnlyIfLost IInv
PROPERTIES ImplementsService EveryCallReturns
CHECK_DEADLOCK FALSE
