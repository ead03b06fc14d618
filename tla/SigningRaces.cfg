SPECIFICATION Spec
CONSTANTS
  NumSessions = 2
  NumChallenges = 2
  MaxAttempts = 1
  LockoutThreshold = 2
  MaxViews = 0
  Deadlines = {"offer", "session", "challenge"}
  Procs = {p1, p2}
SYMMETRY Workers
CONSTRAINT LapseOrRace
CHECK_DEADLOCK FALSE
INVARIANTS OneDecision ProofStands RecordMatchesChain
PROPERTIES DecidedSessionStands ImplementsAgreement
