----------------------------- MODULE SnapshotStore -----------------------------
(***************************************************************************)
(* What a cluster snapshot promises its client, without undo logs, pod     *)
(* objects or versions: an assignment of pods to nodes that calls change   *)
(* as a whole, one transaction at a time, and a way back to the state the  *)
(* transaction, or the snapshot, started from.                             *)
(***************************************************************************)
EXTENDS Integers, FiniteSets, Sequences

CONSTANTS Nodes, NoNode, Pods, Capacity

VARIABLES
  at,       \* the node each pod is assigned to, or NoNode
  points    \* assignments to come back to: the snapshot's, then the transaction's

store == <<at, points>>

Assignment == [Pods -> Nodes \cup {NoNode}]
InTransaction == Len(points) = 2

Init ==
  /\ at \in Assignment
  /\ points = <<at>>

\* Pods that were nowhere are assigned (scheduled, or put back after a
\* preemption), and every node still has room for what it holds.
Place ==
  /\ at' \in Assignment
  /\ \A p \in Pods : at[p] # NoNode => at'[p] = at[p]
  /\ \A n \in Nodes : Cardinality({p \in Pods : at'[p] = n}) =< Capacity[n]
  /\ UNCHANGED points

\* Pods are preempted.
Remove ==
  /\ at' \in Assignment
  /\ \A p \in Pods : at'[p] \in {at[p], NoNode}
  /\ UNCHANGED points

Begin ==
  /\ ~InTransaction
  /\ points' = Append(points, at)
  /\ UNCHANGED at

Keep ==
  /\ InTransaction
  /\ points' = <<points[1]>>
  /\ UNCHANGED at

Revert ==
  /\ InTransaction
  /\ at' = points[2]
  /\ points' = <<points[1]>>

Reset ==
  /\ ~InTransaction
  /\ at' = points[1]
  /\ UNCHANGED points

Next == Place \/ Remove \/ Begin \/ Keep \/ Revert \/ Reset

Spec == Init /\ [][Next]_store
================================================================================
