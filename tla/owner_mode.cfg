SPECIFICATION Spec
CONSTANTS
  Msg = {m1, m2, m3}
  Thread = {t1, t2}
  t1 = t1
  t2 = t2
  None = None
  Inputs <- Writings
  MaxKills = 1
SYMMETRY Symmetry
INVARIANTS
  TypeOK
  OnlyInvited
PROPERTY
  RulesSpec
