SPECIFICATION FairSpec
CONSTANTS
  NumSessions = 1
  NumChallenges = 1
  MaxAttempts = 1
  LockoutThreshold = 1
  MaxViews = 0
  Deadlines = {"offer", "session"}
  Procs = {p1, p2}
CHECK_DEADLOCK FALSE
PROPERTY LapsedIsClosed
