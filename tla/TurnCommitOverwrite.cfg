SPECIFICATION Spec
CONSTANTS
  p1 = p1
  p2 = p2
  Procs = {p1, p2}
  MaxRev = 5
  MaxBlocked = 2
  MaxDamage = 0
SYMMETRY ProcSymmetry
INVARIANT
  AckedTurnsSurvive
