SPECIFICATION Spec
CONSTANTS
  n1 = n1  n2 = n2  n3 = n3
  p1 = p1  p2 = p2  p3 = p3  p4 = p4
  none = none
  Nodes = {n1, n2, n3}
  NoNode = none
  Pods = {p1, p2, p3, p4}
  SnapshotNodes = {n1, n2}
  InitialNode <- HomeTwo
  MovesPods = FALSE
INVARIANTS
  TrackingInv
PROPERTIES
  RestoreExact
