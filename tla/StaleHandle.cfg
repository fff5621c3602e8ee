SPECIFICATION Spec
CONSTANTS
  n1 = n1  n2 = n2
  p1 = p1  p2 = p2  p3 = p3  q1 = q1
  none = none
  Nodes = {n1, n2}
  SnapshotNodes = {n1, n2}
  NoNode = none
  Pods = {p1, p2}
  InitialNode <- HomeOne
  Capacity <- RoomTight
  NoProfilePods = {}
  FaultyPods = {p2}
  TemplatePods = {}
  NodeNameFilter = FALSE
  ReusesPreemptedPods = FALSE
  ReusesUndoneHandles = TRUE
  MaxBatch = 2
  MaxOps = 3
  MaxHandles = 2
  MaxVersion = 2
INVARIANT UndoneHandleRejected
