SPECIFICATION FairSpec
CONSTANTS
  NumSessions = 2
  BatchSize = 1
PROPERTIES SessionsArePurged
