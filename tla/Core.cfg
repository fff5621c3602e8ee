SPECIFICATION Spec
CONSTANTS
  n1 = n1  n2 = n2
  p1 = p1  p2 = p2  p3 = p3  q1 = q1
  none = none
  Nodes = {n1, n2}
  SnapshotNodes = {n1, n2}
  NoNode = none
  Pods = {p1, p2, p3, q1}
  InitialNode <- HomeOne
  Capacity <- RoomTight
  NoProfilePods = {p3}
  FaultyPods = {p2}
  TemplatePods = {q1}
  NodeNameFilter = FALSE
  ReusesPreemptedPods = FALSE
  ReusesUndoneHandles = FALSE
  MaxBatch = 2
  MaxOps = 3
  MaxHandles = 1
  MaxVersion = 2
INVARIANTS
  TypeOK
  RollbackExact
  NoDuplicatePods
  NoOvercommit
  AcceptedHandleSound
  ReservationsMatchPods
  PlacementReleased
  ResultsFaithful
  InductiveInv
PROPERTIES
  InvisibleCalls
  CallsReturn
  ImplementsStore
