SPECIFICATION Spec
CONSTANTS
  NumSessions = 1
  NumChallenges = 1
  MaxAttempts = 1
  LockoutThreshold = 2
  MaxViews = 0
  Deadlines = {}
  Procs = {p1, p2}
CHECK_DEADLOCK FALSE
INVARIANT AcceptedIsTerminal
