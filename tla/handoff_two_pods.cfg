SPECIFICATION Spec
CONSTANTS
  Call = {a1, a2, a3}
  Tracker = {r1, r2}
  Thread = {t1}
  Ross = Ross
  Joanne = Joanne
  None = None
  MaxHopsPerThread = 1
  MaxSpawnsPerThread = 2
  MaxSpawnsPerDay = 2
  HopWindow = 2
  DayLength = 2
  DiskFails = FALSE
  MaxTime = 1
SYMMETRY Symmetry
INVARIANT
  CapsHold
