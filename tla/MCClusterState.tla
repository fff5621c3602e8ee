----------------------------- MODULE MCClusterState -----------------------------
(* Small clusters for model checking ClusterState.                         *)
EXTENDS ClusterState

CONSTANTS n1, n2, p1, p2, none

\* One pod runs on each of the snapshot's nodes.
HomeEach == [p \in Pods |-> IF p = p1 THEN n1 ELSE n2]
RoomForTwo == [n \in Nodes |-> 2]
================================================================================
