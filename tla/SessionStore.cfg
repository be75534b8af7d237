SPECIFICATION SessionSpec
CONSTANTS
  p1 = p1
  p2 = p2
  Procs = {p1, p2}
  MaxRev = 5
  MaxBlocked = 0
  MaxDamage = 1
  Keys = {"ab", "ba"}
  Opposite <- Reversed
  Events = {"first", "repeat", "confirm", "reverse"}
  KeyOf <- EventKey
  RelOf <- EventRel
  KindOf <- EventKind
  AnswerOf <- EventAnswer
  SeedNetworks <- SeedSet
  Tuned <- NoOverlay
  DenseSize = 2
  MaxTurns = 1
  MaxOpens = 2
  MaxFailures = 1
  None = None
SYMMETRY ProcSymmetry
INVARIANTS
  AckedTurnsSurvive
  NetworkMatchesRows
  EvidenceCountedOnce
PROPERTIES
  ImplementsTurnLog
  AuthorityIsKept
CHECK_DEADLOCK FALSE
