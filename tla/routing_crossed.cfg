SPECIFICATION Spec
CONSTANTS
  Ross = Ross
  Joanne = Joanne
  None = None
  Settings <- OneRedis
  MaxMsg = 2
INVARIANT
  GenericToOneAgent
