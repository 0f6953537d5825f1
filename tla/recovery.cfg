SPECIFICATION RecFairSpec
CONSTANTS
  None = None
  l1 = l1
  r1 = r1
  r2 = r2
  r3 = r3
  k1 = k1
  k2 = k2
  s1 = s1
  Session = {s1}
  KeyOf <- KeyOfCall
  SessionOf <- OneSession
  Call = {l1, r1, r2, r3}
  Key = {k1, k2}
  Reaction = {}
  Staleness = 0
  MaxTime = 2
  MaxKills = 2
  Corrupt = {k2}
INVARIANTS
  NoSilentLoss
  RunTwiceHasCause
PROPERTY
  SurvivorIsAnswered
