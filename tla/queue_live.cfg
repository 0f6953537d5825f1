SPECIFICATION FairSpec
CONSTANTS
  None = None
  c1 = c1
  c2 = c2
  c3 = c3
  k1 = k1
  k2 = k2
  s1 = s1
  Call = {c1, c2}
  Key = {c1, c2}
  Session = {s1}
  Reaction = {r1, r2}
  KeyOf <- OwnKey
  SessionOf <- OneSession
PROPERTIES
  EveryMessageAnswered
  CancelledWaiterIsStopped
