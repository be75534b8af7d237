SPECIFICATION Spec
CONSTANTS
  r1 = r1
  r2 = r2
  p1 = p1
  p2 = p2
  a1 = a1
  a2 = a2
  t1 = t1
  t2 = t2
  Requests = {r1, r2}
  TopicOf <- TwoTopics
  Procs = {p1, p2}
  Appliers = {a1, a2}
  Loops = {}
  HomeOf <- OwnHome
  Parts <- TwoParts
  Limit = 3
  MaxAttempts = 2
  MaxMishaps = 2
  NoRequest = NoRequest
SYMMETRY SymmetryProcs
INVARIANTS
  AppliedExactlyOnce
  QuestionsArePaid
PROPERTIES
  LiveLeaseIsHoldersOwn
  ImplementsJobLife
CHECK_DEADLOCK FALSE
