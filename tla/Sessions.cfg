SPECIFICATION SessionsSpec
CONSTANTS
  Browsers = {b1, b2}
  Tabs = {t1, t2}
  NumSessions = 3
  MaxPasswords = 2
  MaxLosses = 1
SYMMETRY Interchangeable
INVARIANTS OneLivePerFamily ReplayEndsFamily PasswordChangeSignsOut
CHECK_DEADLOCK FALSE
