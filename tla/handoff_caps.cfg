SPECIFICATION Spec
CONSTANTS
  Call = {a1, a2, a3, a4, a5}
  Tracker = {r1}
  Thread = {t1, t2}
  Ross = Ross
  Joanne = Joanne
  None = None
  MaxHopsPerThread = 2
  MaxSpawnsPerThread = 3
  MaxSpawnsPerDay = 3
  HopWindow = 2
  DayLength = 2
  DiskFails = TRUE
  MaxTime = 3
SYMMETRY Symmetry
INVARIANTS
  CapsHold
  TallyMatches
