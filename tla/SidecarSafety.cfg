SPECIFICATION Spec
CONSTANTS
  r1 = r1
  r2 = r2
  r3 = r3
  w1 = w1
  w2 = w2
  w3 = w3
  s1 = s1
  s2 = s2
  Requests = {r1, r2, r3}
  Workers = {w1, w2}
  Sessions = {s1}
  SessionOf <- OneSession
  MaxSessions = 1
  NoOne = NoOne
  NoWorker = NoWorker
SYMMETRY SymmetryAll
INVARIANTS AnsweredByOwnTurn OneRunner NoOrphanWorker OwnershipHeld
PROPERTY ImplementsDelivery
CHECK_DEADLOCK FALSE
