SPECIFICATION Spec
CONSTANTS
  n1 = n1  n2 = n2  n3 = n3  unknown = unknown  none = none
  Nodes = {n1, n2, n3}
  Placement = {n1, n2}
  NoNode = none
  UnknownNode = unknown
  Limits = {1}
  HasScoring = FALSE
  NumExtenders = 0
  IgnorableExtenders = {}
CHECK_DEADLOCK FALSE
INVARIANTS
  SchedulePodReturns
