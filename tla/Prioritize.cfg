SPECIFICATION Spec
CONSTANTS
  n1 = n1  n2 = n2  e1 = e1  e2 = e2  e3 = e3  none = none
  Nodes = {n1, n2}
  Extenders = {e1, e2, e3}
  None = none
  PluginScore <- Plugins
  ExtenderScore <- Scores
  Weight <- Weights
  Scale = 2
CHECK_DEADLOCK FALSE
INVARIANTS
  TypeOK
  TotalsExact
  NobodyLeftBehind
PROPERTIES
  PrioritizeReturns
