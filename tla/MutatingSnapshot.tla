---------------------------- MODULE MutatingSnapshot ----------------------------
(***************************************************************************)
(* MutatingSnapshot of pkg/upstreamsync/mutable_snapshot.go: AddPod and    *)
(* RemovePod on a scheduler snapshot, two maps that remember their net     *)
(* effect by pod key, and RestoreState, which runs the maps' closures in   *)
(* the order Go happens to iterate them.                                   *)
(***************************************************************************)
EXTENDS Naturals

CONSTANTS
  Nodes,          \* node names
  NoNode,         \* no node
  Pods,           \* pod keys
  SnapshotNodes,  \* nodes of the snapshot
  InitialNode,    \* where each pod is when the wrapper is created
  MovesPods       \* the client adds a pod it removed again on another node

ASSUME MutatingSnapshotAssumption ==
  /\ SnapshotNodes \subseteq Nodes
  /\ NoNode \notin Nodes
  /\ InitialNode \in [Pods -> SnapshotNodes \cup {NoNode}]
  /\ MovesPods \in BOOLEAN

VARIABLES
  at,           \* the node each pod is on, NoNode if it is not in the snapshot
  addedPods,    \* per key: the node in the closure's podInfo, NoNode without an entry
  removedPods,  \* the same for removed pods
  pc,           \* "idle", or the loop of RestoreState that runs
  todo,         \* keys the loop has not visited
  reply         \* how the last call returned

vars == <<at, addedPods, removedPods, pc, todo, reply>>

Empty == [p \in Pods |-> NoNode]
Keys(map) == {p \in Pods : map[p] # NoNode}

Init ==
  /\ at = InitialNode
  /\ addedPods = Empty
  /\ removedPods = Empty
  /\ pc = "idle"
  /\ todo = {}
  /\ reply = "ok"

\* GetNodeByPod finds no node, or the pod is not on the node.
Failed == reply' = "error" /\ UNCHANGED <<at, addedPods, removedPods>>

\* Mutant: a removal is recorded even if it takes back an addition.
RemovePodRecorded(p, n) ==
  \/ /\ n \notin SnapshotNodes \/ at[p] # n
     /\ Failed
  \/ /\ n \in SnapshotNodes /\ at[p] = n
     /\ at' = [at EXCEPT ![p] = NoNode]
     /\ addedPods' = [addedPods EXCEPT ![p] = NoNode]
     /\ removedPods' = [removedPods EXCEPT ![p] = n]
     /\ reply' = "ok"

\* The node is the one podInfo.Pod names.  A removal and an addition with the
\* same key cancel out.
RemovePod(p, n) ==
  \/ /\ n \notin SnapshotNodes \/ at[p] # n
     /\ Failed
  \/ /\ n \in SnapshotNodes /\ at[p] = n
     /\ at' = [at EXCEPT ![p] = NoNode]
     /\ addedPods' = [addedPods EXCEPT ![p] = NoNode]
     /\ removedPods' = IF addedPods[p] # NoNode THEN removedPods
                       ELSE [removedPods EXCEPT ![p] = n]
     /\ reply' = "ok"

\* Mutant: adding a removed pod again records an addition.
AddPodRecorded(p, n) ==
  \/ n \notin SnapshotNodes /\ Failed
  \/ /\ n \in SnapshotNodes
     /\ at' = [at EXCEPT ![p] = n]
     /\ removedPods' = [removedPods EXCEPT ![p] = NoNode]
     /\ addedPods' = [addedPods EXCEPT ![p] = n]
     /\ reply' = "ok"

AddPod(p, n) ==
  \/ n \notin SnapshotNodes /\ Failed
  \/ /\ n \in SnapshotNodes
     /\ at' = [at EXCEPT ![p] = n]
     /\ removedPods' = [removedPods EXCEPT ![p] = NoNode]
     /\ addedPods' = IF removedPods[p] # NoNode THEN addedPods
                     ELSE [addedPods EXCEPT ![p] = n]
     /\ reply' = "ok"

\* The client removes any pod and adds pods that are not in the snapshot.
Mutate ==
  /\ pc = "idle"
  /\ \E p \in Pods, n \in Nodes :
       \/ RemovePod(p, n)
       \/ /\ at[p] = NoNode
          /\ MovesPods \/ InitialNode[p] \in {NoNode, n}
          /\ AddPod(p, n)
  /\ UNCHANGED <<pc, todo>>

--------------------------------------------------------------------------------
(* RestoreState                                                            *)

RestoreState ==
  /\ pc = "idle"
  /\ pc' = "added"
  /\ todo' = Keys(addedPods)
  /\ UNCHANGED <<at, addedPods, removedPods, reply>>

\* The closures ignore errors.
restoreAdded ==
  /\ pc = "added"
  /\ \E p \in todo :
       /\ RemovePod(p, addedPods[p])
       /\ todo' = todo \ {p}
  /\ UNCHANGED pc

restoreRemoved ==
  /\ pc = "added" /\ todo = {}
  /\ pc' = "removed"
  /\ todo' = Keys(removedPods)
  /\ UNCHANGED <<at, addedPods, removedPods, reply>>

restoreRemovedPod ==
  /\ pc = "removed"
  /\ \E p \in todo :
       /\ AddPod(p, removedPods[p])
       /\ todo' = todo \ {p}
  /\ UNCHANGED pc

restoreDone ==
  /\ pc = "removed" /\ todo = {}
  /\ pc' = "idle"
  /\ addedPods' = Empty
  /\ removedPods' = Empty
  /\ reply' = "ok"
  /\ UNCHANGED <<at, todo>>

Next ==
  \/ Mutate \/ RestoreState
  \/ restoreAdded \/ restoreRemoved \/ restoreRemovedPod \/ restoreDone

Spec == Init /\ [][Next]_vars

--------------------------------------------------------------------------------
(* Properties                                                              *)

\* Every variable keeps its type.
TypeOK ==
  /\ at \in [Pods -> SnapshotNodes \cup {NoNode}]
  /\ addedPods \in [Pods -> SnapshotNodes \cup {NoNode}]
  /\ removedPods \in [Pods -> SnapshotNodes \cup {NoNode}]
  /\ pc \in {"idle", "added", "removed"}
  /\ todo \subseteq Pods
  /\ reply \in {"ok", "error"}

\* The two maps are exactly the difference between the snapshot and what it was at
\* first, also half-way through a RestoreState: a pod whose changes cancel out is in
\* neither, so no sequence of calls makes RestoreState undo too much or too little.
MutationsTracked ==
  \A p \in Pods :
    \/ addedPods[p] # NoNode /\ removedPods[p] = NoNode
       /\ at[p] = addedPods[p] /\ InitialNode[p] = NoNode
    \/ addedPods[p] = NoNode /\ removedPods[p] # NoNode
       /\ at[p] = NoNode /\ InitialNode[p] = removedPods[p]
    \/ addedPods[p] = NoNode /\ removedPods[p] = NoNode /\ at[p] = InitialNode[p]

\* Loop control: what a loop has visited is no longer in its map.
LoopInv ==
  /\ pc = "idle" => todo = {}
  /\ pc = "added" => Keys(addedPods) = todo
  /\ pc = "removed" => Keys(addedPods) = {} /\ Keys(removedPods) = todo

\* The inductive invariant: types, bookkeeping and the loops.
TrackingInv == TypeOK /\ MutationsTracked /\ LoopInv

\* RestoreState brings back every pod to the node it was on when the wrapper was
\* created, in whatever order the maps are iterated.
RestoreExact == [][pc = "removed" /\ pc' = "idle" => at' = InitialNode]_vars
================================================================================
