SPECIFICATION FairSpec
CONSTANTS
  NumJobs = 2
  RetryLimit = 1
  MaxCrashes = 3
  Procs = {p1, p2}
  MaxReminders = 1
  MaxTokens = 5
  MaxResends = 1
  MaxFaults = 1
INVARIANTS OneCertificateNamed SomeLinkWorks
PROPERTIES CertificateFollows SweepMakesGood
CHECK_DEADLOCK FALSE
