SPECIFICATION Spec
CONSTANTS
  NumSessions = 2
  NumChallenges = 2
  MaxAttempts = 2
  LockoutThreshold = 3
  MaxViews = 1
  Deadlines = {"offer", "session"}
  Procs = {p1}
CHECK_DEADLOCK FALSE
INVARIANTS ChallengesInOrder
PROPERTIES NothingRegresses
