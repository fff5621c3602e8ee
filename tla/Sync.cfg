SPECIFICATION StateSpec
CONSTANTS
  n1 = n1  n2 = n2
  p1 = p1  p2 = p2
  none = none
  Nodes = {n1, n2}
  SnapshotNodes = {n1, n2}
  NoNode = none
  Pods = {p1, p2}
  InitialNode <- HomeEach
  Capacity <- RoomForTwo
  NoProfilePods = {}
  FaultyPods = {}
  TemplatePods = {}
  NodeNameFilter = TRUE
  ReusesPreemptedPods = TRUE
  ReusesUndoneHandles = TRUE
  MaxBatch = 2
  MaxOps = 2
  MaxHandles = 1
  MaxVersion = 3
  MaxEvents = 2
INVARIANTS
  StateTypeOK
  SyncExact
  IncrementalExact
  RollbackExact
