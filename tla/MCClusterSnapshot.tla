--------------------------- MODULE MCClusterSnapshot ---------------------------
(* Small clusters for model checking ClusterSnapshot.                      *)
EXTENDS ClusterSnapshot

CONSTANTS n1, n2, p1, p2, p3, q1, none

\* One pod running, one pending, one of a template: two nodes with room for one
\* and two pods.
HomeOne == [p \in Pods |-> IF p = p1 THEN n1 ELSE NoNode]
RoomTight == [n \in Nodes |-> IF n = n1 THEN 1 ELSE 2]
================================================================================
