SPECIFICATION OperationsSpec
CONSTANTS
  Workers = {w1, w2}
  NumJobs = 2
  NumEvents = 2
  BatchSize = 2
  RetryLimit = 1
  MaxFaults = 1
  MaxRequeues = 1
  Agents = {a1, a2}
  Readers = {a1}
  Clerks = {w1, w2}
  Cases = {d1, d2}
  NoCase = NoCase
  Values = {v1, v2}
  Unset = Unset
  MaxActs = 1
  MaxChanges = 2
  Null = Null
  MaxTries = 2
SYMMETRY AnyWorker
INVARIANTS FinalStatusIsTrue DuplicatesArePaidFor ActsAreAudited CaseAgrees ChecksHold
INVARIANTS VerdictIsTrue ValidIsIntact
CHECK_DEADLOCK FALSE
