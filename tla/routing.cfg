SPECIFICATION Spec
CONSTANTS
  Ross = Ross
  Joanne = Joanne
  None = None
  Settings <- Deployments
  MaxMsg = 3
INVARIANTS
  RoutedAsRuled
  StoreFollowsMentions
  RossCovers
