SPECIFICATION Spec
CONSTANTS
  Users = {u1, u2}
  Nobody = Nobody
  Calls = {c1, c2}
  NumInvites = 2
  Visitors = {c1, c2}
  MaxFailures = 2
  MaxLockout = 2
  NumLinks = 2
  MaxMinutes = 1
  MaxDeaths = 1
  Limit = 2
  Window = 2
  MaxTime = 4
  MaxRequests = 4
  MaxOnTheWay = 2
SYMMETRY Anyone
INVARIANTS OneOwner AcceptedWhileOpen
INVARIANTS GuessesLimited LinksWork LetInWithTerms WindowRespected
CHECK_DEADLOCK FALSE
