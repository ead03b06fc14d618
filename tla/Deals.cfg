SPECIFICATION DealsSpec
CONSTANTS
  Calls = {c1, c2}
  NumOffers = 2
  Titles = {t1}
  Emails = {e1, e2}
  Docs = {d1}
  MaxDisturbed = 1
  Sweepers = {c1, c2}
  BatchSize = 1
  MaxEvents = 5
  MaxInFlight = 2
  MaxSweeps = 2
  MaxDisturbances = 1
  Completions = {c1, c2}
  Contents = {x, y, z}
  Foreign = {z}
  MaxPuts = 2
SYMMETRY Anyone
INVARIANTS DriftNeedsOverlap ReviewedIsSent
INVARIANTS EventsKept StatusAgrees VerifiesUntilArchived
INVARIANTS ReadyIsAsUploaded
CHECK_DEADLOCK FALSE
