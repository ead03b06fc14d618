SPECIFICATION FairSpec
CONSTANTS
  Tabs = {t1, t2}
  MaxAttempts = 2
  LockoutThreshold = 3
  MaxDisturbances = 3
INVARIANTS ShownIsTrue
PROPERTIES DecidedInTheEnd
CHECK_DEADLOCK FALSE
