SPECIFICATION Spec
CONSTANTS
  None = None
  c1 = c1
  c2 = c2
  c3 = c3
  k1 = k1
  k2 = k2
  s1 = s1
  Call = {c1, c2, c3}
  Key = {k1, k2}
  Session = {s1}
  Reaction = {r1}
  KeyOf <- Redelivered
  SessionOf <- OneSession
SYMMETRY Deliveries
INVARIANTS
  TypeOK
  OneDrainPerSession
  QueueInv
  NoStrandedWaiter
  QuietIsClean
PROPERTY
  SerialSpec
