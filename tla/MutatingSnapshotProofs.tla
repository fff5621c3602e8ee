------------------------- MODULE MutatingSnapshotProofs -------------------------
(* Proofs about MutatingSnapshot, for every set of nodes and pods.         *)
EXTENDS MutatingSnapshot, TLAPS

\* RemovePod keeps the maps equal to the net difference, whichever branch it takes.
LEMMA RemoveTracked ==
  ASSUME TypeOK, MutationsTracked, NEW p \in Pods, NEW n, RemovePod(p, n)
  PROVE  /\ at' \in [Pods -> SnapshotNodes \cup {NoNode}]
         /\ addedPods' \in [Pods -> SnapshotNodes \cup {NoNode}]
         /\ removedPods' \in [Pods -> SnapshotNodes \cup {NoNode}]
         /\ reply' \in {"ok", "error"}
         /\ MutationsTracked'
<1>0. NoNode \notin SnapshotNodes
  BY MutatingSnapshotAssumption
<1>1. CASE Failed
  BY <1>1 DEF Failed, TypeOK, MutationsTracked
<1>2. CASE ~Failed
  <2>1. /\ n \in SnapshotNodes /\ at[p] = n
        /\ at' = [at EXCEPT ![p] = NoNode]
        /\ addedPods' = [addedPods EXCEPT ![p] = NoNode]
        /\ removedPods' = IF addedPods[p] # NoNode THEN removedPods
                          ELSE [removedPods EXCEPT ![p] = n]
        /\ reply' = "ok"
    BY <1>2 DEF RemovePod
  <2>2. QED
    BY <1>0, <2>1 DEF TypeOK, MutationsTracked
<1>3. QED
  BY <1>1, <1>2

\* So does AddPod, of a pod that is not in the snapshot and on the node it came from
\* if it was there at first.
LEMMA AddTracked ==
  ASSUME TypeOK, MutationsTracked, NEW p \in Pods, NEW n, AddPod(p, n),
         at[p] = NoNode, InitialNode[p] \in {NoNode, n}
  PROVE  /\ at' \in [Pods -> SnapshotNodes \cup {NoNode}]
         /\ addedPods' \in [Pods -> SnapshotNodes \cup {NoNode}]
         /\ removedPods' \in [Pods -> SnapshotNodes \cup {NoNode}]
         /\ reply' \in {"ok", "error"}
         /\ MutationsTracked'
<1>0. NoNode \notin SnapshotNodes
  BY MutatingSnapshotAssumption
<1>1. CASE Failed
  BY <1>1 DEF Failed, TypeOK, MutationsTracked
<1>2. CASE ~Failed
  <2>1. /\ n \in SnapshotNodes
        /\ at' = [at EXCEPT ![p] = n]
        /\ removedPods' = [removedPods EXCEPT ![p] = NoNode]
        /\ addedPods' = IF removedPods[p] # NoNode THEN addedPods
                        ELSE [addedPods EXCEPT ![p] = n]
        /\ reply' = "ok"
    BY <1>2 DEF AddPod
  <2>2. QED
    BY <1>0, <2>1 DEF TypeOK, MutationsTracked
<1>3. QED
  BY <1>1, <1>2

\* The initial state: nothing changed, nothing recorded.
LEMMA InitTracking == Init => TrackingInv
BY MutatingSnapshotAssumption
DEF Init, TrackingInv, TypeOK, MutationsTracked, LoopInv, Empty

\* Every step keeps the invariant if the client puts removed pods back where they were.
LEMMA NextTracking ==
  ASSUME MovesPods = FALSE, TrackingInv, [Next]_vars
  PROVE  TrackingInv'
<1>0. /\ TypeOK /\ MutationsTracked /\ LoopInv
      /\ NoNode \notin SnapshotNodes
  BY MutatingSnapshotAssumption DEF TrackingInv
<1>1. CASE Mutate
  <2>1. PICK p \in Pods, n \in Nodes :
          RemovePod(p, n) \/ (at[p] = NoNode /\ InitialNode[p] \in {NoNode, n} /\ AddPod(p, n))
    BY <1>1 DEF Mutate
  <2>2. pc = "idle" /\ pc' = pc /\ todo' = todo
    BY <1>1 DEF Mutate
  <2>3. TypeOK' /\ MutationsTracked'
    BY <1>0, <2>1, <2>2, RemoveTracked, AddTracked DEF TypeOK
  <2>4. LoopInv'
    BY <1>0, <2>2 DEF LoopInv
  <2>5. QED
    BY <2>3, <2>4 DEF TrackingInv
<1>2. CASE RestoreState
  BY <1>0, <1>2 DEF RestoreState, TrackingInv, TypeOK, MutationsTracked, LoopInv, Keys
<1>3. CASE restoreAdded
  <2>1. PICK p \in todo : RemovePod(p, addedPods[p]) /\ todo' = todo \ {p}
    BY <1>3 DEF restoreAdded
  <2>2. pc = "added" /\ pc' = "added" /\ p \in Pods /\ addedPods[p] # NoNode
    BY <1>0, <1>3, <2>1 DEF restoreAdded, LoopInv, Keys, TypeOK
  <2>3. TypeOK' /\ MutationsTracked'
    BY <1>0, <2>1, <2>2, RemoveTracked DEF TypeOK
  <2>4. addedPods' = [addedPods EXCEPT ![p] = NoNode]
    BY <1>0, <2>1, <2>2 DEF RemovePod, Failed, MutationsTracked, TypeOK
  <2>5. LoopInv'
    BY <1>0, <2>1, <2>2, <2>4 DEF LoopInv, Keys, TypeOK
  <2>6. QED
    BY <2>3, <2>5 DEF TrackingInv
<1>4. CASE restoreRemoved
  BY <1>0, <1>4 DEF restoreRemoved, TrackingInv, TypeOK, MutationsTracked, LoopInv, Keys
<1>5. CASE restoreRemovedPod
  <2>1. PICK p \in todo : AddPod(p, removedPods[p]) /\ todo' = todo \ {p}
    BY <1>5 DEF restoreRemovedPod
  <2>2. /\ pc = "removed" /\ pc' = "removed" /\ p \in Pods /\ removedPods[p] # NoNode
        /\ Keys(addedPods) = {}
    BY <1>0, <1>5, <2>1 DEF restoreRemovedPod, LoopInv, Keys, TypeOK
  <2>3. at[p] = NoNode /\ InitialNode[p] = removedPods[p]
    BY <1>0, <2>2 DEF MutationsTracked
  <2>4. TypeOK' /\ MutationsTracked'
    BY <1>0, <2>1, <2>2, <2>3, AddTracked DEF TypeOK
  <2>5. removedPods' = [removedPods EXCEPT ![p] = NoNode] /\ addedPods' = addedPods
    BY <1>0, <2>1, <2>2 DEF AddPod, Failed, TypeOK
  <2>6. LoopInv'
    BY <1>0, <2>1, <2>2, <2>5 DEF LoopInv, Keys, TypeOK
  <2>7. QED
    BY <2>4, <2>6 DEF TrackingInv
<1>6. CASE restoreDone
  <2>1. at = InitialNode
    BY <1>0, <1>6, MutatingSnapshotAssumption
    DEF restoreDone, LoopInv, Keys, MutationsTracked, TypeOK
  <2>2. QED
    BY <1>0, <1>6, <2>1, MutatingSnapshotAssumption
    DEF restoreDone, TrackingInv, TypeOK, MutationsTracked, LoopInv, Keys, Empty
<1>7. CASE UNCHANGED vars
  BY <1>0, <1>7 DEF vars, TrackingInv, TypeOK, MutationsTracked, LoopInv, Keys
<1>8. QED
  BY <1>1, <1>2, <1>3, <1>4, <1>5, <1>6, <1>7 DEF Next

\* For every snapshot, the maps of MutatingSnapshot are the net difference to the
\* state it was created with.
THEOREM Tracking == ASSUME MovesPods = FALSE PROVE Spec => []TrackingInv
<1>1. Init => TrackingInv
  BY InitTracking
<1>2. TrackingInv /\ [Next]_vars => TrackingInv'
  BY NextTracking
<1>3. QED
  BY <1>1, <1>2, PTL DEF Spec

\* RestoreState restores exactly, in every iteration order of the maps.
THEOREM Restoring == ASSUME MovesPods = FALSE PROVE Spec => RestoreExact
<1>1. TrackingInv /\ [Next]_vars => [pc = "removed" /\ pc' = "idle" => at' = InitialNode]_vars
  <2>1. SUFFICES ASSUME TrackingInv, Next, pc = "removed", pc' = "idle"
                 PROVE  at' = InitialNode
    OBVIOUS
  <2>2. restoreDone
    BY <2>1 DEF Next, Mutate, RestoreState, restoreAdded, restoreRemoved, restoreRemovedPod
  <2>3. at \in [Pods -> SnapshotNodes \cup {NoNode}] /\ at' = at
        /\ Keys(addedPods) = {} /\ Keys(removedPods) = {} /\ MutationsTracked
    BY <2>1, <2>2 DEF restoreDone, TrackingInv, TypeOK, LoopInv
  <2>4. QED
    BY <2>3, MutatingSnapshotAssumption DEF Keys, MutationsTracked
<1>2. QED
  BY <1>1, Tracking, PTL DEF Spec, RestoreExact
================================================================================
