------------------------- MODULE SnapshotSafetyProofs --------------------------
(***************************************************************************)
(* Safety of ClusterSnapshot beyond rollback, for every set of nodes, every *)
(* finite set of pods, every capacity and every bound: assumed placements, *)
(* reservations, copies of pods, preemption handles, room on the nodes and *)
(* the store the client sees.  The last part is about ClusterState, which  *)
(* refreshes the snapshot in place from the scheduler cache.               *)
(***************************************************************************)
EXTENDS ClusterSnapshotProofs, ClusterState, SetSums

--------------------------------------------------------------------------------
(* Kinds of steps                                                          *)

\* A step that touches neither pods nor pod objects nor the undo log.
Quiet == UNCHANGED <<nodePods, specNode, undoOperations, stateVersion, history>>

\* Few actions are not quiet, and none changes the set of nodes.
LEMMA StepKinds ==
  ASSUME [Next]_vars
  PROVE  /\ nodes' = nodes
         /\ \/ Quiet \/ assume \/ reserve \/ unreserveAndForget
            \/ removePodFromNode \/ addPodToNode \/ undo
<1>1. CASE Client
  BY <1>1 DEF Client, SchedulePods, SchedulePodsByTemplate, schedulePods, CanSchedulePod,
     PreemptPods, Unpreempt, TransactionBegin, TransactionKeep, TransactionRevert,
     ResetMutations, ReturnAtOnce, Quiet, undoLog
<1>2. CASE Step
  BY <1>2 DEF Step, scheduleNoProfile, scheduleFails, assume, reserve, unreserveAndForget,
     scheduleDone, canScheduleDone, removePodFromNode, preemptDone, addPodToNode,
     unpreemptDone, undo, restoreCall, restoreTransaction, restoreReset, Quiet, undoLog
<1>3. CASE UNCHANGED vars
  BY <1>3 DEF vars, undoLog, Quiet
<1> QED BY <1>1, <1>2, <1>3, Zenon DEF Next

\* A transaction begins with the current state version, and ends.
LEMMA TransactionStep ==
  ASSUME [Next]_vars
  PROVE  \/ UNCHANGED <<transactionInProgress, tx, points>>
         \/ TransactionBegin /\ ~transactionInProgress /\ tx'.initialStateVersion = stateVersion
         \/ TransactionKeep /\ transactionInProgress' = FALSE
         \/ restoreTransaction /\ transactionInProgress' = FALSE
<1>1. CASE TransactionBegin
  BY <1>1 DEF TransactionBegin, ReturnAtOnce, transaction
<1>2. CASE TransactionKeep \/ restoreTransaction
  BY <1>2 DEF TransactionKeep, restoreTransaction, TransactionEnd
<1>3. CASE \/ SchedulePods \/ SchedulePodsByTemplate \/ CanSchedulePod \/ PreemptPods
           \/ Unpreempt \/ TransactionRevert \/ ResetMutations
  <2>1. CASE SchedulePods \/ SchedulePodsByTemplate
    BY <2>1 DEF SchedulePods, SchedulePodsByTemplate, schedulePods, ReturnAtOnce, transaction
  <2>2. CASE CanSchedulePod
    BY <2>2 DEF CanSchedulePod, ReturnAtOnce, transaction
  <2>3. CASE PreemptPods \/ Unpreempt
    BY <2>3 DEF PreemptPods, Unpreempt, ReturnAtOnce, transaction
  <2>4. CASE TransactionRevert \/ ResetMutations
    BY <2>4 DEF TransactionRevert, ResetMutations, ReturnAtOnce, transaction
  <2> QED BY <1>3, <2>1, <2>2, <2>3, <2>4
<1>4. CASE Step /\ ~restoreTransaction
  BY <1>4 DEF Step, scheduleNoProfile, scheduleFails, assume, reserve, unreserveAndForget,
     scheduleDone, canScheduleDone, removePodFromNode, preemptDone, addPodToNode,
     unpreemptDone, undo, restoreCall, restoreReset, transaction
<1>5. CASE UNCHANGED vars
  BY <1>5 DEF vars, transaction
<1> QED BY <1>1, <1>2, <1>3, <1>4, <1>5 DEF Next, Client

\* The steps of a running call, by control point.
LEMMA StepsFrom ==
  ASSUME [Next]_vars
  PROVE  /\ pc = "schedule" => \/ scheduleNoProfile \/ scheduleFails \/ assume \/ scheduleDone
                               \/ UNCHANGED vars
         /\ pc = "reserve" => reserve \/ unreserveAndForget \/ UNCHANGED vars
         /\ pc = "canSchedule" => canScheduleDone \/ UNCHANGED vars
         /\ pc = "preempt" => removePodFromNode \/ preemptDone \/ UNCHANGED vars
         /\ pc = "unpreempt" => addPodToNode \/ unpreemptDone \/ UNCHANGED vars
<1>1. CASE Client
  <2>1. CASE SchedulePods \/ SchedulePodsByTemplate
    BY <2>1 DEF SchedulePods, SchedulePodsByTemplate, schedulePods, ReturnAtOnce, Enter, Idle
  <2>2. CASE CanSchedulePod
    BY <2>2 DEF CanSchedulePod, ReturnAtOnce, Enter, Idle
  <2>3. CASE PreemptPods \/ Unpreempt
    BY <2>3 DEF PreemptPods, Unpreempt, ReturnAtOnce, Enter, Idle
  <2>4. CASE TransactionBegin \/ TransactionKeep \/ TransactionRevert \/ ResetMutations
    BY <2>4 DEF TransactionBegin, TransactionKeep, TransactionRevert, ResetMutations,
       ReturnAtOnce, Enter, Idle
  <2> QED BY <1>1, <2>1, <2>2, <2>3, <2>4 DEF Client
<1>2. CASE Step
  BY <1>2 DEF Step, scheduleNoProfile, scheduleFails, assume, reserve, unreserveAndForget,
     scheduleDone, canScheduleDone, removePodFromNode, preemptDone, addPodToNode,
     unpreemptDone, undo, restoreCall, restoreTransaction, restoreReset, Scheduling, Restored
<1> QED BY <1>1, <1>2 DEF Next

\* The calls that lead to a control point.
LEMMA StepsTo ==
  ASSUME [Next]_vars
  PROVE  /\ pc' = "schedule" => \/ pc = "schedule" \/ pc = "reserve"
                                \/ SchedulePods \/ SchedulePodsByTemplate
         /\ pc' = "reserve" => pc = "schedule" \/ pc = "reserve"
         /\ pc' = "canSchedule" => pc = "canSchedule" \/ CanSchedulePod
         /\ pc' = "preempt" => pc = "preempt" \/ PreemptPods
         /\ pc' = "unpreempt" => pc = "unpreempt" \/ Unpreempt
<1>1. CASE Client
  <2>1. CASE SchedulePods \/ SchedulePodsByTemplate
    BY <2>1 DEF SchedulePods, SchedulePodsByTemplate, schedulePods, ReturnAtOnce, Enter, Idle
  <2>2. CASE CanSchedulePod
    BY <2>2 DEF CanSchedulePod, ReturnAtOnce, Enter, Idle
  <2>3. CASE PreemptPods \/ Unpreempt
    BY <2>3 DEF PreemptPods, Unpreempt, ReturnAtOnce, Enter, Idle
  <2>4. CASE TransactionBegin \/ TransactionKeep \/ TransactionRevert \/ ResetMutations
    BY <2>4 DEF TransactionBegin, TransactionKeep, TransactionRevert, ResetMutations,
       ReturnAtOnce, Enter, Idle
  <2> QED BY <1>1, <2>1, <2>2, <2>3, <2>4 DEF Client
<1>2. CASE Step
  BY <1>2 DEF Step, scheduleNoProfile, scheduleFails, assume, reserve, unreserveAndForget,
     scheduleDone, canScheduleDone, removePodFromNode, preemptDone, addPodToNode,
     unpreemptDone, undo, restoreCall, restoreTransaction, restoreReset, Scheduling, Restored,
     Return
<1>3. CASE UNCHANGED vars
  BY <1>3 DEF vars
<1> QED BY <1>1, <1>2, <1>3 DEF Next

--------------------------------------------------------------------------------
(* Assumed placements                                                      *)

\* Only SchedulePods and CanSchedulePod run with a placement assumed.
PlaceInv == pc \in {"idle", "restore", "preempt", "unpreempt"} => placement = nodes

\* Every way into the listed control points releases the placement first.
LEMMA PlaceNext ==
  ASSUME PlaceInv, [Next]_vars
  PROVE  PlaceInv'
<1>1. CASE Client
  <2>1. CASE SchedulePods \/ SchedulePodsByTemplate
    BY <2>1 DEF SchedulePods, SchedulePodsByTemplate, schedulePods, ReturnAtOnce, Enter, Idle, PlaceInv
  <2>2. CASE CanSchedulePod
    BY <2>2 DEF CanSchedulePod, ReturnAtOnce, Enter, Idle, PlaceInv
  <2>3. CASE PreemptPods \/ Unpreempt
    BY <2>3 DEF PreemptPods, Unpreempt, ReturnAtOnce, Enter, Idle, PlaceInv
  <2>4. CASE TransactionBegin \/ TransactionKeep \/ TransactionRevert \/ ResetMutations
    BY <2>4 DEF TransactionBegin, TransactionKeep, TransactionRevert, ResetMutations,
       ReturnAtOnce, Enter, Idle, PlaceInv
  <2> QED BY <1>1, <2>1, <2>2, <2>3, <2>4 DEF Client
<1>2. CASE \/ scheduleNoProfile \/ scheduleFails \/ assume \/ reserve \/ unreserveAndForget
           \/ scheduleDone \/ canScheduleDone
  BY <1>2 DEF scheduleNoProfile, scheduleFails, assume, reserve, unreserveAndForget,
     scheduleDone, canScheduleDone, Scheduling, Return, PlaceInv
<1>3. CASE \/ removePodFromNode \/ preemptDone \/ addPodToNode \/ unpreemptDone \/ undo
           \/ restoreCall \/ restoreTransaction \/ restoreReset
  BY <1>3 DEF removePodFromNode, preemptDone, addPodToNode, unpreemptDone, undo,
     restoreCall, restoreTransaction, restoreReset, Restored, Return, PlaceInv
<1>4. CASE UNCHANGED vars
  BY <1>4 DEF vars, PlaceInv
<1> QED BY <1>1, <1>2, <1>3, <1>4 DEF Next, Step

\* Every way out of SchedulePods and CanSchedulePod, errors included, forgets the
\* assumed placement: between calls and during rollbacks the plugins see all nodes.
THEOREM PlacementIsReleased == Spec => []PlacementReleased
<1>1. Init => PlaceInv
  BY DEF Init, PlaceInv
<1>2. PlaceInv /\ [Next]_vars => PlaceInv'
  BY PlaceNext
<1>3. PlaceInv => PlacementReleased
  BY DEF PlaceInv, PlacementReleased
<1> QED BY <1>1, <1>2, <1>3, PTL DEF Spec

--------------------------------------------------------------------------------
(* Views                                                                   *)

\* A step keeps the views at the state versions that stay, and adds at most one,
\* by assuming, preempting or putting back a pod.
LEMMA ViewsStep ==
  ASSUME StructInv, StructInv', RollbackInv, [Next]_vars
  PROVE  /\ Len(history) \in Nat /\ Len(history') \in Nat
         /\ \A k \in 0..Len(history') :
              \/ k \in 0..Len(history) /\ ViewAt(k)' = ViewAt(k)
              \/ /\ k = Len(history') /\ k = Len(history) + 1 /\ ViewAt(k)' = nodePods'
                 /\ assume \/ removePodFromNode \/ addPodToNode
<1>1. /\ history \in Seq(View) /\ history' \in Seq(View) /\ Len(history) \in Nat
      /\ Len(history') \in Nat /\ stateVersion \in Nat
  BY LenProperties DEF StructInv, TypeOK
<1>2. CASE UNCHANGED <<nodePods, history>>
  BY <1>1, <1>2 DEF ViewAt
<1>3. CASE history' = Append(history, nodePods) /\ pc # "reserve"
           /\ (assume \/ removePodFromNode \/ addPodToNode)
  <2>1. /\ Len(history) = stateVersion /\ Len(history') = stateVersion + 1
        /\ \A k \in 0..stateVersion : ViewAt(k)' = ViewAt(k)
    BY <1>3, PushFacts DEF StructInv, LogInv
  <2>2. ASSUME NEW k \in 0..Len(history'), k = Len(history') PROVE ViewAt(k)' = nodePods'
    BY <2>2 DEF ViewAt
  <2> QED BY <1>1, <1>3, <2>1, <2>2
<1>4. CASE history' = Front(history) /\ Len(history) > 0 /\ nodePods' = history[Len(history)]
  <2>1. /\ Len(history') = Len(history) - 1
        /\ \A i \in 1..(Len(history) - 1) : history'[i] = history[i]
    BY <1>1, <1>4, FrontFacts, EmptySeq
  <2>2. ASSUME NEW k \in 0..Len(history') PROVE k \in 0..Len(history) /\ ViewAt(k)' = ViewAt(k)
    <3>1. k \in 0..Len(history) /\ k # Len(history)
      BY <1>1, <2>1
    <3>2. CASE k = Len(history')
      BY <1>1, <1>4, <2>1, <3>1, <3>2 DEF ViewAt
    <3>3. CASE k # Len(history')
      <4>1. k + 1 \in 1..(Len(history) - 1)
        BY <1>1, <2>1, <3>3
      <4> QED BY <2>1, <3>1, <3>3, <4>1 DEF ViewAt
    <3> QED BY <3>1, <3>2, <3>3
  <2> QED BY <1>1, <2>2
<1>5. CASE assume
  BY <1>3, <1>5 DEF assume, Scheduling
<1>6. CASE removePodFromNode
  BY <1>2, <1>3, <1>6 DEF removePodFromNode
<1>7. CASE addPodToNode
  <2>1. CASE specNode[Last(call.todo)] \in nodes
    BY <1>3, <1>7, <2>1 DEF addPodToNode
  <2>2. CASE specNode[Last(call.todo)] \notin nodes
    BY <1>2, <1>7, <2>2 DEF addPodToNode, AddPod
  <2> QED BY <2>1, <2>2
<1>8. CASE unreserveAndForget
  <2>1. /\ pc = "reserve" /\ history' = Front(history)
        /\ nodePods' = RemovePod(nodePods, Head(call.todo), call.host)
    BY <1>8 DEF unreserveAndForget, Scheduling
  <2>2. Len(history) = stateVersion + 1 /\ nodePods' = history[stateVersion + 1]
    BY <2>1 DEF StructInv, LogInv, RollbackInv
  <2> QED BY <1>1, <1>4, <2>1, <2>2
<1>9. CASE undo
  <2> DEFINE e == Last(undoOperations)
  <2>1. /\ stateVersion \in Nat \ {0} /\ e = undoOperations[stateVersion]
        /\ Len(history) = stateVersion /\ history' = Front(history)
        /\ nodePods' = Revert(nodePods, e)
    BY <1>9, UndoFacts DEF undo
  <2> HIDE DEF e
  <2>2. e.op = "add" => specNode[e.pod] = e.node
    BY <2>1 DEF RollbackInv, NamesInv
  <2>3. Revert(nodePods, e) = RevertInPlace(nodePods, e) /\ ViewAt(stateVersion) = nodePods
    BY <2>1, <2>2 DEF Revert, RevertInPlace, ViewAt
  <2>4. nodePods' = history[stateVersion]
    BY <2>1, <2>3 DEF RollbackInv, ChainInv
  <2> QED BY <1>4, <2>1, <2>4
<1>10. CASE reserve
  BY <1>2, <1>10 DEF reserve
<1> QED BY <1>2, <1>5, <1>6, <1>7, <1>8, <1>9, <1>10, StepKinds DEF Quiet

--------------------------------------------------------------------------------
(* The invariant of pods and handles                                       *)

\* The client passes no preempted pod to SchedulePods before its preemption is
\* taken back, and drops the handles whose preemption was rolled back.
CarefulClient == ~ReusesPreemptedPods /\ ~ReusesUndoneHandles

\* The pod is in the view.
On(view, p) == \E n \in nodes : view[n][p] > 0

\* At most one copy of a pod, on a node of the snapshot.
Unique(view) ==
  \A p \in Pods, n \in Nodes :
    /\ view[n][p] =< 1
    /\ view[n][p] > 0 => n \in nodes
    /\ \A m \in Nodes : view[n][p] > 0 /\ view[m][p] > 0 => m = n

UniqueInv == \A k \in 0..Len(history) : Unique(ViewAt(k))

\* A pod that runs, or that a rollback brings back, is named by its object; one
\* being reserved will be.
NamedInv ==
  \A k \in 0..Len(history), n \in Nodes, p \in Pods :
    ViewAt(k)[n][p] > 0 =>
      specNode[p] # NoNode \/ (k = Len(history) /\ pc = "reserve" /\ p = Head(call.todo))

\* SchedulePods: the pods to come do not run, and the results are what happened.
TodoInv ==
  /\ IsInjective(call.todo)
  /\ \A j \in 1..Len(call.todo) : Running(call.todo[j]) => pc = "reserve" /\ j = 1
  /\ pc = "reserve" => nodePods[call.host][Head(call.todo)] > 0
ResultInv(r) ==
  /\ \A j \in 1..Len(call.todo) : call.todo[j] # r.pod
  /\ r.status = "Success" => /\ r.node \in nodes /\ nodePods[r.node][r.pod] > 0
                             /\ specNode[r.pod] = r.node
  /\ r.status # "Success" => ~Running(r.pod)
StopInv ==
  \A i \in 1..Len(call.results) :
    call.stopOnFailure /\ call.results[i].status # "Success"
      => call.todo = <<>> /\ i = Len(call.results)
ScheduleInv ==
  pc \in {"schedule", "reserve"} =>
    /\ TodoInv
    /\ \A i \in 1..Len(call.results) : ResultInv(call.results[i])
    /\ StopInv

\* PreemptPods: the pods done so far are gone, and the top of the log is theirs.
PreemptInv ==
  pc = "preempt" =>
    /\ IsInjective(call.todo) /\ IsInjective(call.done)
    /\ \A i \in 1..Len(call.todo), j \in 1..Len(call.done) : call.todo[i] # call.done[j]
    /\ \A j \in 1..Len(call.done) :
         /\ undoOperations[call.base + j].op = "add"
         /\ undoOperations[call.base + j].pod = call.done[j]
         /\ ~Running(call.done[j])

\* A handle whose preemption is in effect and is not being rolled back.
Doomed(h) ==
  pc = "restore" /\ call.fn \in {"Transaction", "ResetMutations"} /\ h.base >= call.base
Live(h) == ~h.undone /\ ~Doomed(h)
Outstanding(i) == Live(handles[i]) /\ ~handles[i].reverted

\* The part of the undo log that the running call will not take back.
Floor == IF pc \in {"idle", "canSchedule", "unpreempt"} THEN stateVersion ELSE call.base

\* The entries of a live handle's preemption are in that part, on one side of the
\* start of the transaction.
Linked(h) ==
  /\ h.base + Len(h.pods) =< Floor
  /\ Len(h.from) = Len(h.pods)
  /\ IsInjective(h.pods)
  /\ \A j \in 1..Len(h.pods) :
       undoOperations[h.base + j] = Operation("add", h.pods[j], h.from[j])
  /\ transactionInProgress =>
       h.base >= tx.initialStateVersion \/ h.base + Len(h.pods) =< tx.initialStateVersion
LinkInv == \A i \in 1..Len(handles) : Live(handles[i]) => Linked(handles[i])

\* Since their preemption the pods of an outstanding handle have been in no view,
\* those the running Unpreempt has put back excepted.
PutBack(i, j) == pc = "unpreempt" /\ call.handle = i /\ j > Len(call.todo)
AbsentInv ==
  \A i \in 1..Len(handles) : Outstanding(i) =>
    \A j \in 1..Len(handles[i].pods) : ~PutBack(i, j) =>
      \A k \in 0..Len(history) :
        handles[i].base + Len(handles[i].pods) =< k => ~On(ViewAt(k), handles[i].pods[j])

\* No pod is in two outstanding handles.
DisjointInv ==
  \A i, k \in 1..Len(handles) : i # k /\ Outstanding(i) /\ Outstanding(k) =>
    \A j \in 1..Len(handles[i].pods), l \in 1..Len(handles[k].pods) :
      handles[i].pods[j] # handles[k].pods[l]

\* Unpreempt runs on an outstanding handle of the current version, and has the
\* first of its pods left.
UnpreemptInv ==
  pc = "unpreempt" =>
    /\ call.handle \in 1..Len(handles) /\ Outstanding(call.handle)
    /\ handles[call.handle].validPreemptionVersion = stateVersionForPreemption
    /\ Len(call.todo) =< Len(handles[call.handle].pods)
    /\ \A j \in 1..Len(call.todo) : call.todo[j] = handles[call.handle].pods[j]

PodInv ==
  /\ StructInv /\ RollbackInv
  /\ UniqueInv /\ NamedInv
  /\ ScheduleInv /\ PreemptInv /\ UnpreemptInv
  /\ LinkInv /\ AbsentInv /\ DisjointInv

--------------------------------------------------------------------------------
(* One pod in a view                                                       *)

\* Adding a pod adds one copy where it is put and nothing else.
LEMMA AddValue ==
  ASSUME NEW v \in View, NEW p \in Pods, NEW n \in nodes, nodes \subseteq Nodes
  PROVE  \A m \in Nodes, q \in Pods :
           AddPod(v, p, n)[m][q] = IF m = n /\ q = p THEN v[m][q] + 1 ELSE v[m][q]
<1>1. v \in [Nodes -> [Pods -> Nat]] /\ n \in Nodes /\ v[n] \in [Pods -> Nat]
  BY DEF View
<1>2. AddPod(v, p, n) = [v EXCEPT ![n] = [v[n] EXCEPT ![p] = v[n][p] + 1]]
  BY DEF AddPod
<1> QED BY <1>1, <1>2

\* Removing a pod that is there takes one copy away and nothing else.
LEMMA RemoveValue ==
  ASSUME NEW v \in View, NEW p \in Pods, NEW n, CanRemove(v, p, n), nodes \subseteq Nodes
  PROVE  \A m \in Nodes, q \in Pods :
           RemovePod(v, p, n)[m][q] = IF m = n /\ q = p THEN v[m][q] - 1 ELSE v[m][q]
<1>1. v \in [Nodes -> [Pods -> Nat]] /\ n \in Nodes /\ v[n] \in [Pods -> Nat]
  BY DEF View, CanRemove
<1>2. RemovePod(v, p, n) = [v EXCEPT ![n] = [v[n] EXCEPT ![p] = v[n][p] - 1]]
  BY DEF RemovePod
<1> QED BY <1>1, <1>2

\* A pod that is nowhere can be added without making copies.
LEMMA UniqueAdd ==
  ASSUME NEW v \in View, Unique(v), NEW p \in Pods, NEW n \in nodes, nodes \subseteq Nodes,
         ~On(v, p)
  PROVE  /\ Unique(AddPod(v, p, n))
         /\ \A q \in Pods : On(AddPod(v, p, n), q) <=> On(v, q) \/ q = p
<1>1. \A m \in Nodes, q \in Pods :
        AddPod(v, p, n)[m][q] = IF m = n /\ q = p THEN v[m][q] + 1 ELSE v[m][q]
  BY AddValue
<1>2. \A m \in Nodes, q \in Pods : v[m][q] \in Nat
  BY DEF View
<1>3. \A m \in Nodes : v[m][p] = 0
  BY <1>2 DEF Unique, On
<1> DEFINE w == AddPod(v, p, n)
<1> HIDE DEF w
<1>4. \A m \in Nodes, q \in Pods : w[m][q] = IF m = n /\ q = p THEN v[m][q] + 1 ELSE v[m][q]
  BY <1>1 DEF w
<1>5. Unique(w)
  BY <1>2, <1>3, <1>4 DEF Unique
<1>6. \A q \in Pods : On(w, q) <=> On(v, q) \/ q = p
  BY <1>2, <1>3, <1>4 DEF On
<1> QED BY <1>5, <1>6 DEF w

\* Removing the only copy of a pod leaves none.
LEMMA UniqueRemove ==
  ASSUME NEW v \in View, Unique(v), NEW p \in Pods, NEW n, CanRemove(v, p, n),
         nodes \subseteq Nodes
  PROVE  /\ Unique(RemovePod(v, p, n))
         /\ \A q \in Pods : On(RemovePod(v, p, n), q) <=> On(v, q) /\ q # p
<1> DEFINE w == RemovePod(v, p, n)
<1>1. \A m \in Nodes, q \in Pods : w[m][q] = IF m = n /\ q = p THEN v[m][q] - 1 ELSE v[m][q]
  BY RemoveValue
<1> HIDE DEF w
<1>2. \A m \in Nodes, q \in Pods : v[m][q] \in Nat
  BY DEF View
<1>3. n \in nodes /\ n \in Nodes /\ v[n][p] = 1 /\ \A m \in Nodes : m # n => v[m][p] = 0
  BY <1>2 DEF Unique, CanRemove
<1>4. \A m \in Nodes : w[m][p] = 0
  BY <1>1, <1>3
<1>5. \A m \in Nodes, q \in Pods : q # p => w[m][q] = v[m][q]
  BY <1>1
<1>6. Unique(w)
  BY <1>2, <1>4, <1>5 DEF Unique
<1>7. \A q \in Pods : On(w, q) <=> On(v, q) /\ q # p
  BY <1>4, <1>5 DEF On
<1> QED BY <1>6, <1>7 DEF w

\* The current view is one of the views.
LEMMA ViewNow ==
  ASSUME StructInv
  PROVE  /\ Len(history) \in Nat /\ Len(history) \in 0..Len(history)
         /\ ViewAt(Len(history)) = nodePods /\ nodePods \in View
         /\ stateVersion =< Len(history) /\ stateVersion \in Nat
         /\ \A p : Running(p) <=> On(nodePods, p)
<1>1. Len(history) \in Nat /\ stateVersion \in Nat
  BY LenProperties DEF StructInv, TypeOK
<1>2. stateVersion =< Len(history)
  BY <1>1 DEF StructInv, LogInv
<1> QED BY <1>1, <1>2 DEF ViewAt, Running, On, StructInv, TypeOK

--------------------------------------------------------------------------------
(* What the three mutations find                                           *)

\* The pod that is assumed is not running and not in a handle's preemption.
LEMMA AssumeFacts ==
  ASSUME PodInv, CarefulClient, assume
  PROVE  \E n \in nodes :
           LET p == Head(call.todo)
           IN  /\ n \in Feasible(p) /\ nodePods' = AddPod(nodePods, p, n)
               /\ p \in Pods /\ p = call.todo[1] /\ 1 \in 1..Len(call.todo)
               /\ ~On(nodePods, p)
               /\ \A i \in 1..stateVersion :
                    undoOperations[i].op = "add" => undoOperations[i].pod # p
               /\ pc = "schedule" /\ pc' = "reserve" /\ call.fn = "SchedulePods"
               /\ call'.todo = call.todo /\ call'.results = call.results
               /\ call'.stopOnFailure = call.stopOnFailure /\ call'.host = n
               /\ history' = Append(history, nodePods)
               /\ UNCHANGED <<nodes, specNode, undoOperations, stateVersion, handles>>
<1> DEFINE p == Head(call.todo)
<1>1. PICK n \in Feasible(p) : /\ nodePods' = AddPod(nodePods, p, n)
                               /\ call' = [call EXCEPT !.host = n]
  BY DEF assume
<1>2. /\ pc = "schedule" /\ pc' = "reserve" /\ call.fn = "SchedulePods" /\ call.todo # <<>>
      /\ history' = Append(history, nodePods)
      /\ UNCHANGED <<nodes, specNode, undoOperations, stateVersion, handles>>
  BY DEF assume, Scheduling, undoLog
<1>3. call \in Call /\ call.todo \in Seq(Pods) /\ n \in nodes
  BY DEF PodInv, StructInv, TypeOK, Call, Feasible
<1>4. p \in Pods /\ p = call.todo[1] /\ 1 \in 1..Len(call.todo)
  BY <1>2, <1>3, HeadTailProperties, LenProperties, EmptySeq
<1>5. ~On(nodePods, p)
  BY <1>2, <1>4, ViewNow DEF PodInv, ScheduleInv, TodoInv
<1>6. \A i \in 1..stateVersion : undoOperations[i].op = "add" => undoOperations[i].pod # p
  BY <1>2, <1>4 DEF PodInv, RollbackInv, NamesInv, CarefulClient
<1>7. /\ call'.todo = call.todo /\ call'.results = call.results
      /\ call'.stopOnFailure = call.stopOnFailure /\ call'.host = n
  BY <1>1, <1>3 DEF Call
<1> QED BY <1>1, <1>2, <1>3, <1>4, <1>5, <1>6, <1>7

\* The pod that is preempted runs where its object says, or the call fails.
LEMMA PreemptFacts ==
  ASSUME PodInv, removePodFromNode
  PROVE  LET p == Head(call.todo)
             n == specNode[p]
         IN  /\ p \in Pods /\ p = call.todo[1] /\ 1 \in 1..Len(call.todo) /\ pc = "preempt"
             /\ UNCHANGED <<nodes, specNode, handles, stateVersionForPreemption, transaction,
                            observed, points>>
             /\ call'.base = call.base /\ call'.fn = call.fn
             /\ \/ /\ CanRemove(nodePods, p, n) /\ nodePods' = RemovePod(nodePods, p, n)
                   /\ pc' = "preempt" /\ history' = Append(history, nodePods)
                   /\ call'.todo = Tail(call.todo) /\ call'.done = Append(call.done, p)
                   /\ registerOperation(Operation("add", p, n))
                   /\ Operation("add", p, n) \in UndoOperation /\ n \in nodes
                \/ /\ pc' = "restore"
                   /\ UNCHANGED <<nodePods, undoOperations, stateVersion, history>>
<1>1. /\ pc = "preempt" /\ call.todo # <<>> /\ call \in Call /\ call.todo \in Seq(Pods)
      /\ nodes \subseteq Nodes
      /\ UNCHANGED <<nodes, specNode, handles, stateVersionForPreemption, transaction,
                     observed, points>>
  BY DEF removePodFromNode, PodInv, StructInv, TypeOK, Call
<1> DEFINE p == Head(call.todo)
           n == specNode[p]
<1>2. p \in Pods /\ p = call.todo[1] /\ 1 \in 1..Len(call.todo)
  BY <1>1, HeadTailProperties, LenProperties, EmptySeq
<1>3. CASE CanRemove(nodePods, p, n)
  <2>1. /\ nodePods' = RemovePod(nodePods, p, n) /\ registerOperation(Operation("add", p, n))
        /\ pc' = pc /\ history' = Append(history, nodePods)
        /\ call' = [call EXCEPT !.todo = Tail(@), !.done = Append(@, p)]
    BY <1>3 DEF removePodFromNode
  <2>2. n \in nodes
    BY <1>3 DEF CanRemove
  <2>3. Operation("add", p, n) \in UndoOperation
    BY <1>1, <1>2, <2>2 DEF Operation, UndoOperation
  <2> HIDE DEF p, n
  <2>4. /\ call'.todo = Tail(call.todo) /\ call'.done = Append(call.done, p)
        /\ call'.base = call.base /\ call'.fn = call.fn
    BY <1>1, <2>1 DEF Call
  <2> QED BY <1>1, <1>2, <1>3, <2>1, <2>2, <2>3, <2>4 DEF p, n
<1>4. CASE ~CanRemove(nodePods, p, n)
  <2>1. /\ pc' = "restore" /\ call' = [call EXCEPT !.failed = TRUE]
        /\ UNCHANGED <<nodePods, undoOperations, stateVersion, history>>
    BY <1>4 DEF removePodFromNode, undoLog
  <2>2. call'.base = call.base /\ call'.fn = call.fn
    BY <1>1, <2>1, SMTT(30) DEF Call
  <2> QED BY <1>1, <1>2, <2>1, <2>2
<1> QED BY <1>3, <1>4

\* The pod that Unpreempt puts back is not running, and goes where it was.
LEMMA PutBackFacts ==
  ASSUME PodInv, addPodToNode
  PROVE  LET p == Last(call.todo)
             n == specNode[p]
             h == handles[call.handle]
             j == Len(call.todo)
         IN  /\ p \in Pods /\ n \in nodes /\ p = h.pods[j] /\ n = h.from[j]
             /\ j \in 1..Len(h.pods) /\ ~On(nodePods, p)
             /\ pc = "unpreempt" /\ pc' = "unpreempt"
             /\ nodePods' = AddPod(nodePods, p, n)
             /\ call'.todo \in Seq(Pods) /\ Len(call'.todo) = j - 1
             /\ \A i \in 1..(j - 1) : call'.todo[i] = call.todo[i]
             /\ call'.handle = call.handle /\ call'.fn = call.fn /\ call'.base = call.base
             /\ history' = Append(history, nodePods)
             /\ registerOperation(Operation("remove", p, n))
             /\ Operation("remove", p, n) \in UndoOperation
             /\ UNCHANGED <<nodes, specNode, handles, stateVersionForPreemption, transaction,
                            observed, points>>
<1> DEFINE p == Last(call.todo)
           n == specNode[p]
           h == handles[call.handle]
           j == Len(call.todo)
<1>1. /\ pc = "unpreempt" /\ pc' = "unpreempt" /\ call.todo # <<>> /\ call \in Call
      /\ call.todo \in Seq(Pods) /\ nodes \subseteq Nodes
      /\ nodePods' = AddPod(nodePods, p, n)
      /\ call' = [call EXCEPT !.todo = Front(@), !.failed = @ \/ ~(n \in nodes)]
      /\ UNCHANGED <<nodes, specNode, handles, stateVersionForPreemption, transaction,
                     observed, points>>
  BY DEF addPodToNode, PodInv, StructInv, TypeOK, Call
<1>2. /\ j \in Nat \ {0} /\ p = call.todo[j] /\ p \in Pods
      /\ Front(call.todo) \in Seq(Pods) /\ Len(Front(call.todo)) = j - 1
      /\ \A i \in 1..(j - 1) : Front(call.todo)[i] = call.todo[i]
  BY <1>1, FrontFacts
<1>3. /\ call.handle \in 1..Len(handles) /\ Outstanding(call.handle) /\ j =< Len(h.pods)
      /\ \A i \in 1..j : call.todo[i] = h.pods[i]
  BY <1>1 DEF PodInv, UnpreemptInv
<1>4. h \in Handle
  BY <1>3 DEF PodInv, StructInv, TypeOK
<1> HIDE DEF h
<1>5. Len(h.pods) \in Nat /\ h.base \in Nat
  BY <1>4, LenProperties DEF Handle
<1>6. j \in 1..Len(h.pods) /\ p = h.pods[j]
  <2> HIDE DEF p, j
  <2>1. j \in 1..Len(h.pods) /\ j \in 1..j
    BY <1>2, <1>3, <1>5
  <2> QED BY <1>2, <1>3, <2>1
<1>7. Linked(h)
  BY <1>3 DEF PodInv, LinkInv, Outstanding, h
<1>8. /\ undoOperations[h.base + j] = Operation("add", p, h.from[j])
      /\ h.base + j \in 1..stateVersion
      /\ h.base + Len(h.pods) =< stateVersion
  <2>1. Floor = stateVersion /\ stateVersion \in Nat
    BY <1>1 DEF Floor, PodInv, StructInv, TypeOK
  <2>2. h.base + Len(h.pods) =< stateVersion
    BY <1>7, <2>1 DEF Linked
  <2>3. undoOperations[h.base + j] = Operation("add", h.pods[j], h.from[j])
    BY <1>6, <1>7 DEF Linked
  <2> QED BY <1>2, <1>3, <1>5, <1>6, <2>1, <2>2, <2>3
<1>9. n = h.from[j] /\ n \in nodes
  <2>1. /\ undoOperations[h.base + j].op = "add" /\ undoOperations[h.base + j].pod = p
        /\ undoOperations[h.base + j].node = h.from[j]
    BY <1>8 DEF Operation
  <2>2. specNode[p] = h.from[j]
    BY <1>8, <2>1 DEF PodInv, RollbackInv, NamesInv
  <2>3. undoOperations[h.base + j].node \in nodes
    BY <1>8 DEF PodInv, StructInv, LogInv
  <2> QED BY <2>1, <2>2, <2>3
<1>10. ~On(nodePods, p)
  <2>1. ~PutBack(call.handle, j)
    BY <1>2 DEF PutBack
  <2>2. h.base + Len(h.pods) =< Len(history)
    BY <1>5, <1>8, ViewNow DEF PodInv
  <2> QED BY <1>3, <1>6, <2>1, <2>2, ViewNow DEF PodInv, AbsentInv, h
<1>11. /\ call'.todo = Front(call.todo) /\ call'.handle = call.handle
       /\ call'.fn = call.fn /\ call'.base = call.base
  <2> HIDE DEF p, n
  <2> QED BY <1>1 DEF Call
<1>12. registerOperation(Operation("remove", p, n)) /\ history' = Append(history, nodePods)
  BY <1>9 DEF addPodToNode
<1>13. Operation("remove", p, n) \in UndoOperation
  BY <1>1, <1>2, <1>9 DEF Operation, UndoOperation
<1> QED BY <1>1, <1>2, <1>6, <1>9, <1>10, <1>11, <1>12, <1>13 DEF h

--------------------------------------------------------------------------------
(* What a step does to the handles and to the log below them               *)

\* A handle is never changed but to be reverted or undone.
SameHandle(i) ==
  /\ handles'[i].pods = handles[i].pods /\ handles'[i].from = handles[i].from
  /\ handles'[i].base = handles[i].base
  /\ handles'[i].validPreemptionVersion = handles[i].validPreemptionVersion
  /\ handles[i].undone => handles'[i].undone
  /\ handles[i].reverted => handles'[i].reverted

\* Handles are kept, none comes alive again, and PreemptPods appends new ones.
LEMMA HandlesStep ==
  ASSUME StructInv, StructInv', UnpreemptInv, [Next]_vars
  PROVE  /\ Len(handles) \in Nat /\ Len(handles') \in Nat
         /\ \A i \in 1..Len(handles) : handles[i] \in Handle
         /\ \A i \in 1..Len(handles') : handles'[i] \in Handle
         /\ \A i \in 1..Len(handles') :
              \/ /\ i \in 1..Len(handles) /\ SameHandle(i)
                 /\ Live(handles[i])' => Live(handles[i])
                 /\ Outstanding(i)' => Outstanding(i)
              \/ preemptDone /\ i = Len(handles) + 1 /\ handles'[i] = Unpreemption
<1>1. /\ handles \in Seq(Handle) /\ handles' \in Seq(Handle)
      /\ Len(handles) \in Nat /\ Len(handles') \in Nat
      /\ DOMAIN handles = 1..Len(handles) /\ DOMAIN handles' = 1..Len(handles')
      /\ \A i \in 1..Len(handles) : handles[i] \in Handle
      /\ \A i \in 1..Len(handles') : handles'[i] \in Handle
  BY LenProperties, SMTT(30) DEF StructInv, TypeOK
<1>2. CASE handles' = handles /\ (pc # "restore" \/ UNCHANGED <<pc, call>>)
  BY <1>1, <1>2 DEF SameHandle, Live, Outstanding, Doomed
<1>3. CASE preemptDone
  <2>1. handles' = Append(handles, Unpreemption) /\ pc = "preempt"
    BY <1>3 DEF preemptDone
  <2>2. /\ Len(handles') = Len(handles) + 1 /\ handles'[Len(handles) + 1] = Unpreemption
        /\ \A i \in 1..Len(handles) : handles'[i] = handles[i]
    BY <1>1, <2>1
  <2> QED BY <1>1, <1>3, <2>1, <2>2 DEF SameHandle, Live, Outstanding, Doomed
<1>4. CASE unpreemptDone
  <2>1. /\ handles' = [handles EXCEPT ![call.handle].reverted = TRUE] /\ pc = "unpreempt"
        /\ call.handle \in 1..Len(handles)
    BY <1>4 DEF unpreemptDone, UnpreemptInv
  <2>2. /\ Len(handles') = Len(handles)
        /\ \A i \in 1..Len(handles) :
             /\ i # call.handle => handles'[i] = handles[i]
             /\ i = call.handle => handles'[i] = [handles[i] EXCEPT !.reverted = TRUE]
    <3> DEFINE r == [handles[call.handle] EXCEPT !.reverted = TRUE]
    <3>1. handles' = [handles EXCEPT ![call.handle] = r]
      BY <2>1
    <3> HIDE DEF r
    <3>2. DOMAIN handles' = DOMAIN handles
      BY <3>1
    <3>3. Len(handles') = Len(handles)
      <4>1. \A a, b \in Nat : a < b => b \in 1..b /\ b \notin 1..a
        BY SMTT(30)
      <4>2. 1..Len(handles') = 1..Len(handles)
        BY <1>1, <3>2
      <4>3. ASSUME NEW a \in Nat, NEW b \in Nat, 1..a = 1..b PROVE a = b
        <5>1. a < b \/ b < a \/ a = b
          OBVIOUS
        <5> QED BY <4>1, <4>3, <5>1, Zenon
      <4> QED BY <1>1, <4>2, <4>3
    <3>4. /\ handles'[call.handle] = r
          /\ \A i \in 1..Len(handles) : i # call.handle => handles'[i] = handles[i]
      BY <1>1, <2>1, <3>1, Zenon
    <3> QED BY <3>3, <3>4, Zenon DEF r
  <2>3. ASSUME NEW i \in 1..Len(handles)
        PROVE  SameHandle(i) /\ handles'[i].undone = handles[i].undone
    <3>1. handles[i] \in Handle
      BY <1>1
    <3>2. CASE i = call.handle
      <4>1. handles'[i] = [handles[i] EXCEPT !.reverted = TRUE]
        BY <2>2, <3>2
      <4> QED BY <3>1, <4>1 DEF SameHandle, Handle
    <3>3. CASE i # call.handle
      BY <2>2, <3>3 DEF SameHandle
    <3> QED BY <3>2, <3>3
  <2> QED BY <1>1, <2>1, <2>2, <2>3 DEF SameHandle, Live, Outstanding, Doomed
<1>5. CASE restoreCall
  BY <1>1, <1>5 DEF restoreCall, Restored, SameHandle, Live, Outstanding, Doomed
<1>6. CASE restoreTransaction \/ restoreReset
  <2>1. /\ pc = "restore" /\ call.fn \in {"Transaction", "ResetMutations"} /\ pc' = "idle"
        /\ MarkUndone
    BY <1>6 DEF restoreTransaction, restoreReset, Restored, Return
  <2>2. /\ Len(handles') = Len(handles)
        /\ \A i \in 1..Len(handles) :
             handles'[i] = [handles[i] EXCEPT !.undone = @ \/ handles[i].base >= call.base]
    BY <1>1, <2>1 DEF MarkUndone
  <2>3. ASSUME NEW i \in 1..Len(handles)
        PROVE  /\ SameHandle(i) /\ handles'[i].reverted = handles[i].reverted
               /\ handles'[i].undone <=> handles[i].undone \/ handles[i].base >= call.base
    <3>1. handles[i] \in Handle
      BY <1>1
    <3>2. handles'[i] = [handles[i] EXCEPT !.undone = @ \/ handles[i].base >= call.base]
      BY <2>2
    <3> QED BY <3>1, <3>2 DEF SameHandle, Handle
  <2> QED BY <1>1, <2>1, <2>2, <2>3 DEF SameHandle, Live, Outstanding, Doomed
<1>7. CASE Client
  BY <1>2, <1>7 DEF Client, SchedulePods, SchedulePodsByTemplate, schedulePods, CanSchedulePod,
     PreemptPods, Unpreempt, TransactionBegin, TransactionKeep, TransactionRevert,
     ResetMutations, ReturnAtOnce, Enter, Idle
<1>8. CASE \/ scheduleNoProfile \/ scheduleFails \/ assume \/ reserve \/ unreserveAndForget
           \/ scheduleDone \/ canScheduleDone \/ removePodFromNode \/ addPodToNode \/ undo
  BY <1>2, <1>8 DEF scheduleNoProfile, scheduleFails, assume, reserve, unreserveAndForget,
     scheduleDone, canScheduleDone, removePodFromNode, addPodToNode, undo, Scheduling
<1>9. CASE UNCHANGED vars
  BY <1>2, <1>9 DEF vars
<1> QED BY <1>3, <1>4, <1>5, <1>6, <1>7, <1>8, <1>9 DEF Next, Step

\* The log below the floor is kept.
LEMMA LogStep ==
  ASSUME PodInv, StructInv', [Next]_vars
  PROVE  /\ Floor \in Nat /\ Floor =< stateVersion
         /\ \A i \in 1..Floor : undoOperations'[i] = undoOperations[i]
         /\ stateVersion' \in Nat /\ Floor =< stateVersion'
<1>1. /\ stateVersion \in Nat /\ call.base \in Nat /\ call.base =< stateVersion
      /\ stateVersion' \in Nat
  BY DEF PodInv, StructInv, TypeOK, ControlInv, Call
<1>2. Floor \in Nat /\ Floor =< stateVersion
  BY <1>1 DEF Floor
<1>3. CASE UNCHANGED <<undoOperations, stateVersion>>
  BY <1>1, <1>2, <1>3
<1>4. ASSUME NEW e \in UndoOperation, e.node \in nodes, registerOperation(e)
      PROVE  /\ \A i \in 1..Floor : undoOperations'[i] = undoOperations[i]
             /\ Floor =< stateVersion'
  BY <1>1, <1>2, <1>4, RegisterFacts DEF PodInv
<1>5. CASE undo
  <2>1. /\ stateVersion' = stateVersion - 1 /\ call.base =< stateVersion' /\ Floor = call.base
        /\ \A i \in 1..stateVersion' : undoOperations'[i] = undoOperations[i]
    BY <1>5, UndoFacts DEF PodInv, undo, Floor
  <2> QED BY <1>1, <1>2, <2>1
<1>6. CASE reserve
  <2> DEFINE e == Operation("forget", Head(call.todo), call.host)
  <2>1. /\ registerOperation(e) /\ pc = "reserve" /\ call.todo # <<>> /\ call \in Call
        /\ nodes \subseteq Nodes /\ call.host \in nodes
    BY <1>6 DEF reserve, Scheduling, PodInv, StructInv, TypeOK, ControlInv
  <2>2. Head(call.todo) \in Pods
    BY <2>1, HeadTailProperties DEF Call
  <2>3. e \in UndoOperation /\ e.node \in nodes
    BY <2>1, <2>2 DEF Operation, UndoOperation
  <2> QED BY <1>1, <1>2, <1>4, <2>1, <2>3
<1>7. CASE removePodFromNode
  <2> DEFINE e == Operation("add", Head(call.todo), specNode[Head(call.todo)])
  <2>1. CASE UNCHANGED <<undoOperations, stateVersion>>
    BY <1>3, <2>1
  <2>2. CASE ~UNCHANGED <<undoOperations, stateVersion>>
    <3>1. registerOperation(e) /\ e \in UndoOperation /\ e.node \in nodes
      BY <1>7, <2>2, PreemptFacts DEF Operation
    <3> QED BY <1>1, <1>2, <1>4, <3>1
  <2> QED BY <2>1, <2>2
<1>8. CASE addPodToNode
  <2> DEFINE e == Operation("remove", Last(call.todo), specNode[Last(call.todo)])
  <2>1. registerOperation(e) /\ e \in UndoOperation /\ e.node \in nodes
    BY <1>8, PutBackFacts DEF Operation
  <2> QED BY <1>1, <1>2, <1>4, <2>1
<1>9. CASE assume \/ unreserveAndForget
  BY <1>3, <1>9 DEF assume, unreserveAndForget, undoLog
<1> QED BY <1>1, <1>2, <1>3, <1>5, <1>6, <1>7, <1>8, <1>9, StepKinds DEF Quiet

\* The floor comes down only when a transaction or all mutations are rolled back,
\* and then no further than the preemptions that stay.
LEMMA FloorStep ==
  ASSUME PodInv, StructInv', [Next]_vars, NEW i \in 1..Len(handles),
         Live(handles[i])', Linked(handles[i]), SameHandle(i)
  PROVE  handles[i].base + Len(handles[i].pods) =< Floor'
<1> DEFINE top == handles[i].base + Len(handles[i].pods)
<1>1. handles[i] \in Handle
  BY DEF PodInv, StructInv, TypeOK
<1>2. top \in Nat /\ handles[i].base \in Nat
  BY <1>1, LenProperties DEF Handle
<1>3. /\ stateVersion \in Nat /\ call.base \in Nat /\ call.base =< stateVersion
      /\ stateVersion' \in Nat /\ call'.base \in Nat /\ call'.base =< stateVersion'
      /\ tx.initialStateVersion \in Nat
  BY DEF PodInv, StructInv, TypeOK, ControlInv, Call
<1>4. top =< Floor /\ Floor =< stateVersion /\ Floor \in Nat /\ Floor =< stateVersion'
  BY LogStep DEF Linked
<1> HIDE DEF top
<1>5. CASE pc' \in {"idle", "canSchedule", "unpreempt"}
  BY <1>2, <1>3, <1>4, <1>5 DEF Floor, top
<1>6. CASE pc' \notin {"idle", "canSchedule", "unpreempt"} /\ call'.base = call.base
           /\ pc \notin {"idle", "canSchedule", "unpreempt"}
  BY <1>4, <1>6 DEF Floor, top
<1>7. CASE pc' \notin {"idle", "canSchedule", "unpreempt"} /\ call'.base = stateVersion
  BY <1>2, <1>3, <1>4, <1>7 DEF Floor, top
<1>8. CASE TransactionRevert
  <2>1. /\ transactionInProgress /\ pc' = "restore"
        /\ call'.fn = "Transaction" /\ call'.base = tx.initialStateVersion
    BY <1>8 DEF TransactionRevert, Enter, NoCall
  <2>2. ~(handles[i].base >= tx.initialStateVersion)
    BY <2>1 DEF Live, Doomed, SameHandle
  <2> QED BY <2>1, <2>2 DEF Linked, Floor, top
<1>9. CASE ResetMutations
  <2>1. CASE pc' = "idle"
    BY <1>5, <2>1
  <2>2. CASE pc' # "idle"
    <3>1. pc' = "restore" /\ call'.fn = "ResetMutations" /\ call'.base = 0
      BY <1>9, <2>2 DEF ResetMutations, ReturnAtOnce, Enter, NoCall, Idle
    <3>2. ~(handles[i].base >= 0)
      BY <3>1 DEF Live, Doomed, SameHandle
    <3> QED BY <1>2, <3>2
  <2> QED BY <2>1, <2>2
<1>10. CASE SchedulePods \/ SchedulePodsByTemplate \/ PreemptPods
  <2>1. CASE SchedulePods \/ SchedulePodsByTemplate
    BY <1>5, <1>7, <2>1 DEF SchedulePods, SchedulePodsByTemplate, schedulePods, ReturnAtOnce,
       Enter, NoCall, Idle
  <2>2. CASE PreemptPods
    BY <1>5, <1>7, <2>2 DEF PreemptPods, ReturnAtOnce, Enter, NoCall, Idle
  <2> QED BY <1>10, <2>1, <2>2
<1>11. CASE CanSchedulePod \/ Unpreempt \/ TransactionBegin \/ TransactionKeep
  BY <1>5, <1>11 DEF CanSchedulePod, Unpreempt, TransactionBegin, TransactionKeep,
     ReturnAtOnce, Enter, Idle
<1>12. CASE UNCHANGED <<pc, call>>
  BY <1>5, <1>6, <1>12
<1>13. call \in Call
  BY DEF PodInv, StructInv, TypeOK
<1>14. CASE scheduleNoProfile \/ assume
  BY <1>6, <1>13, <1>14 DEF scheduleNoProfile, assume, Scheduling, Call
<1>15. CASE scheduleFails \/ reserve \/ unreserveAndForget
  <2>1. /\ pc \in {"schedule", "reserve"} /\ pc' = "schedule"
        /\ \E st, n : Record(st, n)
    BY <1>15 DEF scheduleFails, reserve, unreserveAndForget, Scheduling
  <2>2. call'.base = call.base
    BY <1>13, <2>1 DEF Record, Call
  <2> QED BY <1>6, <2>1, <2>2
<1>16. CASE scheduleDone
  BY <1>5, <1>6, <1>16 DEF scheduleDone, Return
<1>17. CASE removePodFromNode
  BY <1>6, <1>17, PreemptFacts
<1>18. CASE addPodToNode
  BY <1>5, <1>18, PutBackFacts
<1>19. CASE undo
  BY <1>12, <1>19 DEF undo
<1>20. CASE \/ canScheduleDone \/ preemptDone \/ unpreemptDone
            \/ restoreCall \/ restoreTransaction \/ restoreReset
  BY <1>5, <1>20 DEF canScheduleDone, preemptDone, unpreemptDone, restoreCall,
     restoreTransaction, restoreReset, Return
<1>21. CASE UNCHANGED vars
  BY <1>12, <1>21 DEF vars
<1> HIDE <1>5, <1>6, <1>7, <1>12
<1> QED BY <1>8, <1>9, <1>10, <1>11, <1>14, <1>15, <1>16, <1>17, <1>18, <1>19, <1>20, <1>21
        DEF Next, Client, Step, top

--------------------------------------------------------------------------------
(* Every step keeps the invariant of pods and handles                      *)

\* Whether a view has copies does not change with the step, the nodes being fixed.
LEMMA FixedNodes ==
  ASSUME nodes' = nodes
  PROVE  \A v : /\ Unique(v)' <=> Unique(v)
                /\ \A p : On(v, p)' <=> On(v, p)
BY DEF Unique, On

\* A pod is added only where it is not, and only to the newest view.
LEMMA UniqueNext ==
  ASSUME PodInv, StructInv', CarefulClient, [Next]_vars
  PROVE  UniqueInv'
<1>1. nodes' = nodes /\ nodes \subseteq Nodes
  BY StepKinds DEF PodInv, StructInv, TypeOK
<1>2. nodePods \in View /\ Unique(nodePods)
  BY ViewNow DEF PodInv, UniqueInv
<1>3. ASSUME assume \/ removePodFromNode \/ addPodToNode PROVE Unique(nodePods')
  <2>1. CASE assume
    BY <1>1, <1>2, <2>1, AssumeFacts, UniqueAdd
  <2>2. CASE removePodFromNode
    BY <1>1, <1>2, <2>2, PreemptFacts, UniqueRemove
  <2>3. CASE addPodToNode
    BY <1>1, <1>2, <2>3, PutBackFacts, UniqueAdd
  <2> QED BY <1>3, <2>1, <2>2, <2>3
<1>4. ASSUME NEW k \in 0..Len(history') PROVE Unique(ViewAt(k))'
  <2>1. \/ k \in 0..Len(history) /\ ViewAt(k)' = ViewAt(k)
        \/ ViewAt(k)' = nodePods' /\ (assume \/ removePodFromNode \/ addPodToNode)
    BY ViewsStep DEF PodInv
  <2> DEFINE v == IF k = Len(history') THEN nodePods' ELSE history'[k + 1]
  <2>2. v = ViewAt(k)'
    BY DEF ViewAt
  <2> HIDE DEF v
  <2>3. Unique(v)
    BY <1>3, <2>1, <2>2 DEF PodInv, UniqueInv
  <2> QED BY <1>1, <2>2, <2>3 DEF Unique
<1> QED BY <1>4 DEF UniqueInv

\* Pod objects get a node when their pod is added and keep it.
LEMMA NamedNext ==
  ASSUME PodInv, StructInv', CarefulClient, [Next]_vars
  PROVE  NamedInv'
<1> SUFFICES ASSUME NEW k \in 0..Len(history'), NEW n \in Nodes, NEW p \in Pods,
                    ViewAt(k)'[n][p] > 0,
                    ~(k = Len(history') /\ pc' = "reserve" /\ p = Head(call'.todo))
             PROVE  specNode'[p] # NoNode
  BY DEF NamedInv
<1>1. nodes' = nodes /\ nodes \subseteq Nodes /\ NoNode \notin nodes
  BY StepKinds, ConstantsAssumption DEF PodInv, StructInv, TypeOK
<1>2. /\ nodePods \in View /\ Len(history) \in 0..Len(history)
      /\ ViewAt(Len(history)) = nodePods /\ Len(history) \in Nat
  BY ViewNow DEF PodInv
<1>3. specNode[p] # NoNode => specNode'[p] # NoNode
  <2>1. CASE reserve
    <3>1. /\ specNode' = [specNode EXCEPT ![Head(call.todo)] = call.host]
          /\ call.host \in nodes /\ specNode \in [Pods -> Nodes \cup {NoNode}]
      BY <2>1 DEF reserve, Scheduling, PodInv, StructInv, TypeOK, ControlInv
    <3> QED BY <1>1, <3>1
  <2>2. CASE ~reserve
    BY <2>2, StepKinds DEF Quiet, assume, unreserveAndForget, removePodFromNode,
       addPodToNode, undo
  <2> QED BY <2>1, <2>2
<1>4. CASE k \in 0..Len(history) /\ ViewAt(k)' = ViewAt(k)
  <2>1. \/ specNode[p] # NoNode
        \/ k = Len(history) /\ pc = "reserve" /\ p = Head(call.todo)
    BY <1>4 DEF PodInv, NamedInv
  <2>2. CASE k = Len(history) /\ pc = "reserve" /\ p = Head(call.todo)
    <3>1. reserve \/ unreserveAndForget \/ UNCHANGED <<pc, call, history>>
      BY <2>2 DEF Next, Client, Step, SchedulePods, SchedulePodsByTemplate, schedulePods,
         CanSchedulePod, PreemptPods, Unpreempt, TransactionBegin, TransactionKeep,
         TransactionRevert, ResetMutations, ReturnAtOnce, Enter, Idle, scheduleNoProfile,
         scheduleFails, assume, scheduleDone, canScheduleDone, removePodFromNode,
         preemptDone, addPodToNode, unpreemptDone, undo, restoreCall, restoreTransaction,
         restoreReset, Restored, Scheduling, vars
    <3>2. CASE reserve
      <4>1. /\ specNode' = [specNode EXCEPT ![Head(call.todo)] = call.host]
            /\ call.host \in nodes /\ specNode \in [Pods -> Nodes \cup {NoNode}]
        BY <3>2 DEF reserve, Scheduling, PodInv, StructInv, TypeOK, ControlInv
      <4> QED BY <1>1, <2>2, <4>1
    <3>3. CASE unreserveAndForget
      <4>1. history' = Front(history) /\ history \in Seq(View) /\ Len(history) > 0
        BY <2>2, <3>3 DEF unreserveAndForget, PodInv, StructInv, TypeOK, LogInv
      <4>2. Len(history') = Len(history) - 1
        BY <4>1, FrontFacts, EmptySeq
      <4> QED BY <1>2, <2>2, <4>2
    <3>4. CASE UNCHANGED <<pc, call, history>>
      BY <2>2, <3>4
    <3> QED BY <3>1, <3>2, <3>3, <3>4
  <2> QED BY <1>3, <2>1, <2>2
<1>5. CASE /\ k = Len(history') /\ ViewAt(k)' = nodePods'
           /\ assume \/ removePodFromNode \/ addPodToNode
  <2>1. CASE assume
    <3>1. PICK m \in nodes : /\ nodePods' = AddPod(nodePods, Head(call.todo), m)
                             /\ Head(call.todo) \in Pods /\ call'.todo = call.todo
                             /\ pc = "schedule" /\ pc' = "reserve"
      BY <2>1, AssumeFacts
    <3>2. p # Head(call.todo)
      BY <1>5, <3>1
    <3>3. nodePods[n][p] > 0
      BY <1>1, <1>2, <1>5, <3>1, <3>2, AddValue
    <3>4. specNode[p] # NoNode
      BY <1>2, <3>1, <3>3 DEF PodInv, NamedInv
    <3> QED BY <1>3, <3>4
  <2>2. CASE removePodFromNode
    <3> DEFINE q == Head(call.todo)
    <3>1. /\ q \in Pods /\ pc = "preempt"
          /\ \/ CanRemove(nodePods, q, specNode[q]) /\ nodePods' = RemovePod(nodePods, q, specNode[q])
             \/ nodePods' = nodePods
      BY <2>2, PreemptFacts
    <3>2. \A a \in Nodes, b \in Pods : nodePods[a][b] \in Nat
      BY <1>2 DEF View
    <3>3. nodePods[n][p] > 0
      <4> HIDE DEF q
      <4> QED BY <1>1, <1>2, <1>5, <3>1, <3>2, RemoveValue
    <3>4. specNode[p] # NoNode
      BY <1>2, <3>1, <3>3 DEF PodInv, NamedInv
    <3> QED BY <1>3, <3>4
  <2>3. CASE addPodToNode
    <3> DEFINE q == Last(call.todo)
    <3>1. /\ q \in Pods /\ specNode[q] \in nodes /\ pc = "unpreempt"
          /\ nodePods' = AddPod(nodePods, q, specNode[q])
      BY <2>3, PutBackFacts
    <3> HIDE DEF q
    <3>2. CASE p = q
      BY <1>1, <1>3, <3>1, <3>2
    <3>3. CASE p # q
      <4>1. nodePods[n][p] > 0
        BY <1>1, <1>2, <1>5, <3>1, <3>3, AddValue
      <4>2. specNode[p] # NoNode
        BY <1>2, <3>1, <4>1 DEF PodInv, NamedInv
      <4> QED BY <1>3, <4>2
    <3> QED BY <3>2, <3>3
  <2> QED BY <1>5, <2>1, <2>2, <2>3
<1> QED BY <1>4, <1>5, ViewsStep DEF PodInv

\* What is known of the handle PreemptPods returns.
LEMMA NewHandle ==
  ASSUME PodInv, preemptDone
  PROVE  LET h == Unpreemption
         IN  /\ h.pods = call.done /\ h.pods \in Seq(Pods) /\ Len(h.pods) \in Nat
             /\ h.base = call.base /\ h.base \in Nat /\ Len(h.from) = Len(h.pods)
             /\ h.validPreemptionVersion = stateVersionForPreemption
             /\ ~h.reverted /\ ~h.undone
             /\ \A j \in 1..Len(h.pods) :
                  /\ h.from[j] = undoOperations[h.base + j].node
                  /\ undoOperations[h.base + j] = Operation("add", h.pods[j], h.from[j])
                  /\ h.base + j \in 1..stateVersion
             /\ stateVersion = h.base + Len(h.pods) /\ IsInjective(h.pods)
             /\ pc = "preempt" /\ pc' = "idle" /\ Floor = call.base
             /\ UNCHANGED <<undoOperations, stateVersion, history, nodePods, transaction>>
<1> DEFINE h == Unpreemption
<1>1. /\ pc = "preempt" /\ pc' = "idle" /\ call \in Call /\ call.done \in Seq(Pods)
      /\ call.base \in Nat /\ stateVersion = call.base + Len(call.done)
      /\ undoOperations \in Seq(UndoOperation) /\ stateVersion = Len(undoOperations)
      /\ Floor = call.base
      /\ UNCHANGED <<undoOperations, stateVersion, history, nodePods, transaction>>
  BY DEF preemptDone, Return, PodInv, StructInv, TypeOK, ControlInv, LogInv, Call, undoLog, Floor
<1>2. DOMAIN call.done = 1..Len(call.done) /\ Len(call.done) \in Nat
  BY <1>1, LenProperties
<1>3. /\ h.pods = call.done /\ h.base = call.base /\ ~h.reverted /\ ~h.undone
      /\ h.validPreemptionVersion = stateVersionForPreemption
      /\ h.from = [i \in 1..Len(call.done) |-> undoOperations[call.base + i].node]
  BY <1>2 DEF Unpreemption
<1> HIDE DEF h
<1>4. Len(h.from) = Len(h.pods)
  BY <1>2, <1>3
<1>5. ASSUME NEW j \in 1..Len(h.pods)
      PROVE  /\ h.from[j] = undoOperations[h.base + j].node
             /\ undoOperations[h.base + j] = Operation("add", h.pods[j], h.from[j])
             /\ h.base + j \in 1..stateVersion
  <2>1. h.base + j \in 1..stateVersion /\ h.from[j] = undoOperations[h.base + j].node
    BY <1>1, <1>2, <1>3
  <2>2. undoOperations[h.base + j] \in UndoOperation
    BY <1>1, <2>1
  <2>3. undoOperations[h.base + j].op = "add" /\ undoOperations[h.base + j].pod = h.pods[j]
    BY <1>1, <1>3 DEF PodInv, PreemptInv
  <2> QED BY <2>1, <2>2, <2>3 DEF Operation, UndoOperation
<1>6. IsInjective(h.pods)
  BY <1>1, <1>3 DEF PodInv, PreemptInv
<1> QED BY <1>1, <1>2, <1>3, <1>4, <1>5, <1>6 DEF h

\* Rollbacks pop the entries of a handle only if the handle is doomed, and then all of them.
LEMMA LinkNext ==
  ASSUME PodInv, StructInv', [Next]_vars
  PROVE  LinkInv'
<1> SUFFICES ASSUME NEW i \in 1..Len(handles'), Live(handles[i])'
             PROVE  Linked(handles[i])'
  BY DEF LinkInv
<1>1. stateVersion \in Nat /\ stateVersion' \in Nat /\ tx.initialStateVersion \in Nat
  BY DEF PodInv, StructInv, TypeOK
<1>2. CASE i \in 1..Len(handles) /\ SameHandle(i) /\ Live(handles[i])
  <2> DEFINE h == handles[i]
  <2>1. Linked(h)
    BY <1>2 DEF PodInv, LinkInv
  <2>2. h \in Handle
    BY <1>2, HandlesStep DEF PodInv
  <2>3. Len(h.pods) \in Nat /\ h.base \in Nat
    BY <2>2, LenProperties DEF Handle
  <2>4. /\ handles'[i].pods = h.pods /\ handles'[i].from = h.from /\ handles'[i].base = h.base
    BY <1>2 DEF SameHandle
  <2>5. h.base + Len(h.pods) =< Floor'
    BY <1>2, <2>1, FloorStep
  <2>6. h.base + Len(h.pods) =< Floor /\ Floor \in Nat /\ Floor =< stateVersion
    BY <2>1, LogStep DEF Linked
  <2> HIDE DEF h
  <2>7. \A j \in 1..Len(h.pods) : undoOperations'[h.base + j] = undoOperations[h.base + j]
    <3>1. \A j \in 1..Len(h.pods) : h.base + j \in 1..Floor
      BY <2>3, <2>6
    <3> QED BY <3>1, LogStep
  <2>8. transactionInProgress' => \/ h.base >= tx'.initialStateVersion
                                  \/ h.base + Len(h.pods) =< tx'.initialStateVersion
    <3>1. CASE UNCHANGED transaction
      BY <2>1, <3>1 DEF Linked, transaction
    <3>2. CASE transactionInProgress' = FALSE
      BY <3>2
    <3>3. CASE tx'.initialStateVersion = stateVersion
      BY <1>1, <2>3, <2>6, <3>3
    <3> QED BY <3>1, <3>2, <3>3, TransactionStep DEF transaction
  <2>9. \A j \in 1..Len(h.pods) :
          undoOperations'[h.base + j] = Operation("add", h.pods[j], h.from[j])
    BY <2>1, <2>7 DEF Linked
  <2>10. Len(h.from) = Len(h.pods) /\ IsInjective(h.pods)
    BY <2>1 DEF Linked
  <2> QED BY <2>4, <2>5, <2>8, <2>9, <2>10 DEF Linked, Operation
<1>3. CASE preemptDone /\ handles'[i] = Unpreemption
  <2> DEFINE h == Unpreemption
  <2>1. /\ h.base = call.base /\ h.base \in Nat /\ Len(h.pods) \in Nat
        /\ Len(h.from) = Len(h.pods) /\ IsInjective(h.pods)
        /\ \A j \in 1..Len(h.pods) :
             undoOperations[h.base + j] = Operation("add", h.pods[j], h.from[j])
        /\ stateVersion = h.base + Len(h.pods) /\ pc = "preempt" /\ pc' = "idle"
        /\ UNCHANGED <<undoOperations, stateVersion, history, nodePods, transaction>>
    BY <1>3, NewHandle
  <2> HIDE DEF h
  <2>2. transactionInProgress => h.base >= tx.initialStateVersion
    BY <1>1, <2>1 DEF PodInv, StructInv, ControlInv
  <2>3. handles'[i] = h
    BY <1>3 DEF h
  <2>4. /\ h.base + Len(h.pods) =< Floor'
        /\ transactionInProgress' => h.base >= tx'.initialStateVersion
    BY <1>1, <2>1, <2>2 DEF Floor, transaction
  <2>5. \A j \in 1..Len(h.pods) :
          undoOperations'[h.base + j] = Operation("add", h.pods[j], h.from[j])
    BY <2>1
  <2> QED BY <2>1, <2>3, <2>4, <2>5 DEF Linked, Operation
<1> QED BY <1>2, <1>3, HandlesStep DEF PodInv

\* Scheduling cannot bring back a preempted pod, and rollbacks only show older views.
LEMMA AbsentNext ==
  ASSUME PodInv, StructInv', CarefulClient, [Next]_vars
  PROVE  AbsentInv'
<1> SUFFICES ASSUME NEW i \in 1..Len(handles'), Outstanding(i)',
                    NEW j \in 1..Len(handles'[i].pods), ~PutBack(i, j)',
                    NEW k \in 0..Len(history'),
                    handles'[i].base + Len(handles'[i].pods) =< k
             PROVE  ~On(ViewAt(k)', handles'[i].pods[j])
  <2>1. nodes' = nodes
    BY StepKinds
  <2> QED BY <2>1 DEF AbsentInv, On
<1>1. nodes' = nodes /\ nodes \subseteq Nodes /\ nodePods \in View /\ Unique(nodePods)
  BY StepKinds, ViewNow DEF PodInv, StructInv, TypeOK, UniqueInv
<1>2. CASE i \in 1..Len(handles) /\ SameHandle(i) /\ Outstanding(i)
  <2> DEFINE h == handles[i]
             q == h.pods[j]
  <2>1. h \in Handle /\ handles'[i].pods = h.pods /\ handles'[i].base = h.base
    BY <1>2, HandlesStep DEF SameHandle, PodInv
  <2>2. Len(h.pods) \in Nat /\ h.base \in Nat /\ j \in 1..Len(h.pods) /\ q \in Pods
    BY <2>1, LenProperties DEF Handle
  <2>3. Linked(h)
    BY <1>2 DEF PodInv, LinkInv, Outstanding
  <2>4. ~PutBack(i, j)
    <3>1. SUFFICES ASSUME PutBack(i, j) PROVE FALSE
      OBVIOUS
    <3>2. pc = "unpreempt" /\ call.handle = i /\ j > Len(call.todo)
      BY <3>1 DEF PutBack
    <3>3. CASE addPodToNode
      <4>1. /\ pc' = "unpreempt" /\ call'.handle = i /\ Len(call'.todo) = Len(call.todo) - 1
            /\ Len(call.todo) \in 1..Len(h.pods)
        BY <3>2, <3>3, PutBackFacts
      <4> QED BY <2>2, <3>2, <4>1 DEF PutBack
    <3>4. CASE unpreemptDone
      <4>1. handles' = [handles EXCEPT ![call.handle].reverted = TRUE] /\ handles \in Seq(Handle)
        BY <3>4 DEF unpreemptDone, PodInv, StructInv, TypeOK
      <4>2. handles'[i] = [handles[i] EXCEPT !.reverted = TRUE]
        <5> DEFINE r == [handles[i] EXCEPT !.reverted = TRUE]
        <5>1. handles' = [handles EXCEPT ![i] = r] /\ i \in DOMAIN handles
          BY <1>2, <3>2, <4>1, LenProperties
        <5> HIDE DEF r
        <5>2. handles'[i] = r
          BY <5>1
        <5> QED BY <5>2 DEF r
      <4>3. handles'[i].reverted = TRUE
        BY <2>1, <4>2 DEF Handle
      <4> QED BY <4>3 DEF Outstanding
    <3>5. CASE UNCHANGED vars
      BY <3>2, <3>5 DEF PutBack, vars
    <3> QED BY <3>2, <3>3, <3>4, <3>5, StepsFrom
  <2>5. \A l \in 0..Len(history) : h.base + Len(h.pods) =< l => ~On(ViewAt(l), q)
    BY <1>2, <2>2, <2>4 DEF PodInv, AbsentInv
  <2>6. h.base + Len(h.pods) =< k
    BY <2>1
  <2> HIDE DEF h, q
  <2>7. CASE k \in 0..Len(history) /\ ViewAt(k)' = ViewAt(k)
    <3>1. ~On(ViewAt(k)', q)
      BY <2>5, <2>6, <2>7
    <3> QED BY <2>1, <3>1 DEF q
  <2>8. CASE ViewAt(k)' = nodePods' /\ (assume \/ removePodFromNode \/ addPodToNode)
    <3>1. ~On(nodePods, q)
      <4>1. h.base + Len(h.pods) =< Floor /\ Floor =< stateVersion /\ Floor \in Nat
        BY <2>3, LogStep DEF Linked
      <4>2. h.base + Len(h.pods) =< Len(history)
        BY <2>2, <4>1, ViewNow DEF PodInv
      <4> QED BY <2>5, <4>2, ViewNow DEF PodInv
    <3>2. ~On(nodePods', q)
      <4>1. CASE assume
        <5> DEFINE p == Head(call.todo)
        <5>1. PICK n \in nodes : /\ nodePods' = AddPod(nodePods, p, n) /\ p \in Pods
                                 /\ ~On(nodePods, p)
                                 /\ \A l \in 1..stateVersion :
                                      undoOperations[l].op = "add" => undoOperations[l].pod # p
          BY <4>1, AssumeFacts
        <5>2. h.base + j \in 1..stateVersion
          <6>1. h.base + Len(h.pods) =< Floor /\ Floor =< stateVersion /\ Floor \in Nat
            BY <2>3, LogStep DEF Linked
          <6>2. stateVersion \in Nat
            BY ViewNow DEF PodInv
          <6> QED BY <2>2, <6>1, <6>2, SMTT(30)
        <5>3. undoOperations[h.base + j].op = "add" /\ undoOperations[h.base + j].pod = q
          <6>1. undoOperations[h.base + j] = Operation("add", q, h.from[j])
            BY <2>2, <2>3 DEF Linked, q
          <6> QED BY <6>1 DEF Operation
        <5>4. q # p
          BY <5>1, <5>2, <5>3
        <5> HIDE DEF p
        <5> QED BY <1>1, <2>2, <3>1, <5>1, <5>4, UniqueAdd
      <4>2. CASE removePodFromNode
        <5> DEFINE p == Head(call.todo)
        <5>1. /\ p \in Pods
              /\ \/ CanRemove(nodePods, p, specNode[p]) /\ nodePods' = RemovePod(nodePods, p, specNode[p])
                 \/ nodePods' = nodePods
          BY <4>2, PreemptFacts
        <5> HIDE DEF p
        <5> QED BY <1>1, <2>2, <3>1, <5>1, UniqueRemove
      <4>3. CASE addPodToNode
        <5> DEFINE p == Last(call.todo)
                   l == Len(call.todo)
                   g == handles[call.handle]
        <5>1. /\ nodePods' = AddPod(nodePods, p, specNode[p]) /\ p \in Pods /\ specNode[p] \in nodes
              /\ ~On(nodePods, p) /\ p = g.pods[l] /\ l \in 1..Len(g.pods)
              /\ pc = "unpreempt" /\ pc' = "unpreempt" /\ Len(call'.todo) = l - 1
              /\ call'.handle = call.handle
          BY <4>3, PutBackFacts
        <5>2. q # p
          <6>1. CASE i = call.handle
            <7>1. ~(j > Len(call'.todo))
              BY <5>1, <6>1 DEF PutBack
            <7>2. g = h /\ j # l
              BY <2>2, <5>1, <6>1, <7>1 DEF h
            <7>3. h.pods \in Seq(Pods) /\ DOMAIN h.pods = 1..Len(h.pods)
              BY <2>1, LenProperties DEF Handle, h
            <7> QED BY <2>2, <2>3, <5>1, <7>2, <7>3 DEF Linked, IsInjective, q
          <6>2. CASE i # call.handle
            <7>1. call.handle \in 1..Len(handles) /\ Outstanding(call.handle)
              BY <5>1 DEF PodInv, UnpreemptInv
            <7> QED BY <1>2, <2>2, <5>1, <6>2, <7>1 DEF PodInv, DisjointInv, h, q
          <6> QED BY <6>1, <6>2
        <5> HIDE DEF p
        <5> QED BY <1>1, <2>2, <3>1, <5>1, <5>2, UniqueAdd
      <4> QED BY <2>8, <4>1, <4>2, <4>3
    <3> QED BY <2>1, <2>8, <3>2 DEF q
  <2> QED BY <2>7, <2>8, ViewsStep DEF PodInv
<1>3. CASE preemptDone /\ handles'[i] = Unpreemption
  <2> DEFINE h == Unpreemption
  <2>1. /\ h.pods = call.done /\ h.base \in Nat /\ Len(h.pods) \in Nat
        /\ stateVersion = h.base + Len(h.pods) /\ pc = "preempt" /\ nodePods' = nodePods
        /\ history' = history
    BY <1>3, NewHandle
  <2> HIDE DEF h
  <2>2. handles'[i] = h
    BY <1>3 DEF h
  <2>3. Len(history') = stateVersion /\ stateVersion \in Nat
    BY <2>1 DEF PodInv, StructInv, TypeOK, LogInv
  <2>4. k = Len(history')
    BY <2>1, <2>2, <2>3
  <2>5. ViewAt(k)' = nodePods
    BY <2>1, <2>4 DEF ViewAt
  <2>6. ~On(nodePods, call.done[j])
    BY <2>1, <2>2, ViewNow DEF PodInv, PreemptInv
  <2> QED BY <2>1, <2>2, <2>5, <2>6
<1> QED BY <1>2, <1>3, HandlesStep DEF PodInv

\* The pods PreemptPods takes were running when it began, so they are in no
\* outstanding handle.
LEMMA NewPodsAreNew ==
  ASSUME PodInv, preemptDone, NEW i \in 1..Len(handles), Outstanding(i),
         NEW j \in 1..Len(handles[i].pods), NEW l \in 1..Len(call.done)
  PROVE  handles[i].pods[j] # call.done[l]
<1> DEFINE h == handles[i]
           q == call.done[l]
           k == call.base + l
<1>1. /\ call.done = Unpreemption.pods /\ call.base = Unpreemption.base
      /\ pc = "preempt" /\ Floor = call.base /\ call.base \in Nat
  BY NewHandle
<1>2. undoOperations[k] = Operation("add", q, Unpreemption.from[l]) /\ k \in 1..stateVersion
  BY <1>1, NewHandle
<1>3. /\ stateVersion \in Nat /\ Len(history) = stateVersion /\ history \in Seq(View)
      /\ nodes \subseteq Nodes /\ nodePods \in View /\ l \in Nat
  BY <1>1 DEF PodInv, StructInv, TypeOK, LogInv
<1> DEFINE n == undoOperations[k].node
<1>4. n \in nodes
  BY <1>2 DEF PodInv, StructInv, LogInv
<1>5. h \in Handle
  BY DEF PodInv, StructInv, TypeOK
<1>6. h.base \in Nat /\ Len(h.pods) \in Nat /\ h.base + Len(h.pods) =< call.base
  <2>1. Linked(h)
    BY DEF PodInv, LinkInv, Outstanding
  <2> QED BY <1>1, <1>5, <2>1, LenProperties DEF Linked, Handle
<1> HIDE DEF k, q, n, h
<1>7. k \in Nat /\ k > 0 /\ k - 1 \in 0..Len(history) /\ h.base + Len(h.pods) =< k - 1
  <2> DEFINE top == h.base + Len(h.pods)
  <2>1. k \in 1..stateVersion /\ k >= call.base + 1
    BY <1>1, <1>2, <1>3 DEF k
  <2>2. top \in Nat /\ top =< call.base
    BY <1>6
  <2>3. call.base \in Nat /\ stateVersion \in Nat /\ Len(history) = stateVersion
    BY <1>1, <1>3
  <2> HIDE DEF top
  <2>4. k \in Nat /\ k > 0 /\ k - 1 \in 0..Len(history) /\ top =< k - 1
    BY <2>1, <2>2, <2>3
  <2> QED BY <2>4 DEF top
<1>8. ViewAt(k - 1) = history[k] /\ ViewAt(k) \in View
  BY <1>2, <1>3, <1>7 DEF ViewAt
<1>9. history[k] = AddPod(ViewAt(k), q, n)
  <2>1. RevertInPlace(ViewAt(k), undoOperations[k]) = history[k]
    BY <1>2 DEF PodInv, RollbackInv, ChainInv
  <2> QED BY <1>2, <2>1 DEF RevertInPlace, Operation, n
<1>10. q \in Pods
  BY <1>1, NewHandle DEF q
<1>11. On(history[k], q)
  <2>1. AddPod(ViewAt(k), q, n)[n][q] = ViewAt(k)[n][q] + 1 /\ ViewAt(k)[n][q] \in Nat
    <3>1. n \in Nodes /\ ViewAt(k)[n][q] \in Nat
      BY <1>3, <1>4, <1>8, <1>10 DEF View
    <3> QED BY <1>3, <1>4, <1>8, <1>10, <3>1, AddValue
  <2> QED BY <1>4, <1>9, <2>1 DEF On
<1>12. ~On(ViewAt(k - 1), h.pods[j])
  BY <1>1, <1>7 DEF PodInv, AbsentInv, PutBack, h
<1> QED BY <1>8, <1>11, <1>12 DEF h, q

\* A new handle has pods that were running, and so are in no other one.
LEMMA DisjointNext ==
  ASSUME PodInv, StructInv', [Next]_vars
  PROVE  DisjointInv'
<1> SUFFICES ASSUME NEW i \in 1..Len(handles'), NEW k \in 1..Len(handles'), i # k,
                    Outstanding(i)', Outstanding(k)',
                    NEW j \in 1..Len(handles'[i].pods), NEW l \in 1..Len(handles'[k].pods)
             PROVE  handles'[i].pods[j] # handles'[k].pods[l]
  BY DEF DisjointInv
<1> DEFINE Kept(a) == a \in 1..Len(handles) /\ SameHandle(a) /\ Outstanding(a)
           New(a) == preemptDone /\ a = Len(handles) + 1 /\ handles'[a] = Unpreemption
<1>1. \A a \in {i, k} : Kept(a) \/ New(a)
  BY HandlesStep DEF PodInv
<1>2. CASE Kept(i) /\ Kept(k)
  BY <1>2, SMTT(30) DEF PodInv, DisjointInv, SameHandle
<1>3. ASSUME NEW a, NEW b, Kept(a), New(b), NEW x \in 1..Len(handles'[a].pods),
             NEW y \in 1..Len(handles'[b].pods)
      PROVE  handles'[a].pods[x] # handles'[b].pods[y]
  <2>1. handles'[a].pods = handles[a].pods /\ a \in 1..Len(handles) /\ Outstanding(a)
    BY <1>3 DEF SameHandle
  <2>2. preemptDone /\ handles'[b].pods = call.done
    BY <1>3, NewHandle
  <2> QED BY <2>1, <2>2, NewPodsAreNew
<1>4. ~(New(i) /\ New(k))
  OBVIOUS
<1> QED BY <1>1, <1>2, <1>3, <1>4

\* Unpreempt goes through the pods of its handle, last first.
LEMMA UnpreemptNext ==
  ASSUME PodInv, StructInv', CarefulClient, [Next]_vars
  PROVE  UnpreemptInv'
<1> SUFFICES ASSUME pc' = "unpreempt" PROVE UnpreemptInv'
  BY DEF UnpreemptInv
<1>1. CASE UNCHANGED vars
  BY <1>1 DEF PodInv, UnpreemptInv, Outstanding, Live, Doomed, vars
<1>2. CASE addPodToNode
  <2> DEFINE h == handles[call.handle]
             j == Len(call.todo)
  <2>1. /\ j \in 1..Len(h.pods) /\ pc = "unpreempt" /\ Len(call'.todo) = j - 1
        /\ \A i \in 1..(j - 1) : call'.todo[i] = call.todo[i]
        /\ call'.handle = call.handle
        /\ UNCHANGED <<handles, stateVersionForPreemption>>
    BY <1>2, PutBackFacts
  <2>2. /\ call.handle \in 1..Len(handles) /\ Outstanding(call.handle)
        /\ h.validPreemptionVersion = stateVersionForPreemption
        /\ \A i \in 1..j : call.todo[i] = h.pods[i]
    BY <2>1 DEF PodInv, UnpreemptInv
  <2>3. h \in Handle
    BY <2>2, SMTT(30) DEF PodInv, StructInv, TypeOK
  <2>4. Len(h.pods) \in Nat
    BY <2>3, LenProperties DEF Handle
  <2> HIDE DEF j
  <2>5. j - 1 =< Len(h.pods) /\ \A i \in 1..(j - 1) : i \in 1..j
    BY <2>1, <2>4
  <2>6. \A i \in 1..(j - 1) : call'.todo[i] = h.pods[i]
    BY <2>1, <2>2, <2>5
  <2>7. Outstanding(call.handle)'
    BY <2>1, <2>2 DEF Outstanding, Live, Doomed
  <2> QED BY <2>1, <2>2, <2>5, <2>6, <2>7 DEF UnpreemptInv
<1>3. CASE Unpreempt
  <2>1. PICK i \in DOMAIN handles :
          /\ Accepted(handles[i]) /\ ~handles[i].undone
          /\ call' = [NoCall EXCEPT !.fn = "Unpreempt", !.base = stateVersion,
                         !.todo = handles[i].pods, !.handle = i]
          /\ UNCHANGED <<handles, stateVersionForPreemption>>
    BY <1>3 DEF Unpreempt, CarefulClient, ReturnAtOnce, Enter, Idle
  <2>2. call'.todo = handles[i].pods /\ call'.handle = i
    BY <2>1 DEF NoCall
  <2>3. i \in 1..Len(handles) /\ handles[i] \in Handle
    BY <2>1, LenProperties DEF PodInv, StructInv, TypeOK
  <2>4. Len(handles[i].pods) \in Nat
    BY <2>3, LenProperties DEF Handle
  <2>5. Outstanding(i)'
    BY <2>1 DEF Outstanding, Live, Doomed, Accepted
  <2> QED BY <2>1, <2>2, <2>3, <2>4, <2>5 DEF UnpreemptInv, Accepted, Outstanding
<1>4. CASE pc = "unpreempt" /\ unpreemptDone
  BY <1>4 DEF unpreemptDone, Return
<1> QED BY <1>1, <1>2, <1>3, <1>4, StepsTo, StepsFrom

\* The rest of a list without repetition, and one with another element.
LEMMA InjectiveTail ==
  ASSUME NEW S, NEW s \in Seq(S), s # <<>>, IsInjective(s)
  PROVE  /\ Tail(s) \in Seq(S) /\ IsInjective(Tail(s))
         /\ Len(s) \in Nat \ {0} /\ Len(Tail(s)) = Len(s) - 1
         /\ Head(s) = s[1] /\ Head(s) \in S
         /\ \A i \in 1..Len(Tail(s)) : /\ Tail(s)[i] = s[i + 1] /\ i + 1 \in 1..Len(s)
                                       /\ Tail(s)[i] # Head(s) /\ Tail(s)[i] \in S
<1> DEFINE t == Tail(s)
<1>1. /\ t \in Seq(S) /\ Len(t) = Len(s) - 1 /\ Head(s) = s[1] /\ Head(s) \in S
      /\ \A i \in 1..Len(t) : t[i] = s[i + 1]
      /\ Len(s) \in Nat \ {0}
  BY HeadTailProperties, LenProperties, EmptySeq
<1>2. /\ DOMAIN t = 1..Len(t) /\ DOMAIN s = 1..Len(s) /\ \A i \in 1..Len(t) : t[i] \in S
  BY <1>1, LenProperties
<1> HIDE DEF t
<1>3. ASSUME NEW i \in 1..Len(t) PROVE t[i] = s[i + 1] /\ i + 1 \in DOMAIN s /\ i + 1 # 1
  BY <1>1, <1>2
<1>4. \A i \in 1..Len(t) : t[i] # s[1]
  <2>1. 1 \in DOMAIN s
    BY <1>1, <1>2
  <2> QED BY <1>3, <2>1 DEF IsInjective
<1>5. ASSUME NEW a \in 1..Len(t), NEW b \in 1..Len(t), t[a] = t[b] PROVE a = b
  <2>1. a + 1 = b + 1
    BY <1>3, <1>5 DEF IsInjective
  <2> QED BY <1>1, <2>1
<1>6. IsInjective(t)
  BY <1>2, <1>5 DEF IsInjective
<1> QED BY <1>1, <1>2, <1>3, <1>4, <1>6 DEF t

\* A sequence without repetitions stays one if something new is appended.
LEMMA InjectiveAppend ==
  ASSUME NEW S, NEW s \in Seq(S), NEW x \in S, IsInjective(s),
         \A j \in 1..Len(s) : s[j] # x
  PROVE  IsInjective(Append(s, x))
<1> DEFINE t == Append(s, x)
<1>1. /\ t \in Seq(S) /\ Len(t) = Len(s) + 1 /\ t[Len(s) + 1] = x
      /\ \A i \in 1..Len(s) : t[i] = s[i]
      /\ Len(s) \in Nat
  BY AppendProperties, LenProperties
<1>2. DOMAIN t = 1..Len(t) /\ DOMAIN s = 1..Len(s)
  BY <1>1, LenProperties
<1> HIDE DEF t
<1>3. \A i \in DOMAIN t : i = Len(s) + 1 \/ i \in 1..Len(s)
  BY <1>1, <1>2
<1>4. ASSUME NEW a \in DOMAIN t, NEW b \in DOMAIN t, t[a] = t[b] PROVE a = b
  BY <1>1, <1>2, <1>3, <1>4 DEF IsInjective
<1>5. IsInjective(t)
  BY <1>4 DEF IsInjective
<1> QED BY <1>5 DEF t

\* PreemptPods pushes one entry per pod it removes.
LEMMA PreemptNext ==
  ASSUME PodInv, StructInv', [Next]_vars
  PROVE  PreemptInv'
<1> SUFFICES ASSUME pc' = "preempt" PROVE PreemptInv'
  BY DEF PreemptInv
<1>1. CASE UNCHANGED vars
  BY <1>1 DEF PodInv, PreemptInv, Running, vars, undoLog
<1>2. CASE removePodFromNode
  <2> DEFINE p == Head(call.todo)
             n == specNode[p]
             e == Operation("add", p, n)
  <2>1. /\ p \in Pods /\ p = call.todo[1] /\ 1 \in 1..Len(call.todo) /\ pc = "preempt"
        /\ CanRemove(nodePods, p, n) /\ nodePods' = RemovePod(nodePods, p, n)
        /\ call'.todo = Tail(call.todo) /\ call'.done = Append(call.done, p)
        /\ call'.base = call.base /\ registerOperation(e) /\ e \in UndoOperation /\ n \in nodes
        /\ nodes' = nodes
    BY <1>2, PreemptFacts
  <2>2. /\ call.todo \in Seq(Pods) /\ call.done \in Seq(Pods) /\ call.base \in Nat
        /\ stateVersion = call.base + Len(call.done) /\ nodes \subseteq Nodes
        /\ nodePods \in View /\ Unique(nodePods) /\ stateVersion \in Nat
    <3>1. Unique(nodePods)
      BY ViewNow DEF PodInv, UniqueInv
    <3> QED BY <2>1, <3>1 DEF PodInv, StructInv, TypeOK, ControlInv, Call
  <2>3. /\ e.op = "add" /\ e.pod = p /\ e.node \in nodes
    BY <2>1 DEF Operation
  <2> HIDE DEF e, n, p
  <2>4. /\ undoOperations'[stateVersion + 1] = e
        /\ \A i \in 1..stateVersion : undoOperations'[i] = undoOperations[i]
    BY <2>1, <2>3, RegisterFacts DEF PodInv
  <2>5. \A q \in Pods : On(nodePods', q) <=> On(nodePods, q) /\ q # p
    BY <2>1, <2>2, UniqueRemove
  <2>6. /\ IsInjective(call.todo) /\ IsInjective(call.done)
        /\ \A i \in 1..Len(call.todo), j \in 1..Len(call.done) : call.todo[i] # call.done[j]
        /\ \A j \in 1..Len(call.done) :
             /\ undoOperations[call.base + j].op = "add"
             /\ undoOperations[call.base + j].pod = call.done[j]
             /\ ~Running(call.done[j])
    BY <2>1 DEF PodInv, PreemptInv
  <2> DEFINE t == call.todo
             d == call.done
             nt == Tail(t)
             nd == Append(d, p)
  <2>7. /\ Len(t) \in Nat /\ Len(d) \in Nat /\ DOMAIN t = 1..Len(t) /\ DOMAIN d = 1..Len(d)
        /\ IsInjective(nt) /\ IsInjective(nd)
        /\ Len(nt) = Len(t) - 1 /\ Len(nd) = Len(d) + 1
        /\ \A i \in 1..Len(nt) : nt[i] = t[i + 1] /\ i + 1 \in 1..Len(t) /\ nt[i] # p
        /\ \A j \in 1..Len(d) : nd[j] = d[j] /\ d[j] \in Pods
        /\ nd[Len(d) + 1] = p
    <3>1. t # <<>>
      BY <2>1, <2>2
    <3>2. Len(t) \in Nat /\ Len(d) \in Nat /\ DOMAIN t = 1..Len(t) /\ DOMAIN d = 1..Len(d)
      BY <2>2, LenProperties
    <3>3. /\ nd \in Seq(Pods) /\ Len(nd) = Len(d) + 1
          /\ \A j \in 1..Len(d) : nd[j] = d[j]
          /\ nd[Len(d) + 1] = p
      BY <2>1, <2>2, AppendProperties
    <3>4. /\ nt \in Seq(Pods) /\ Len(nt) = Len(t) - 1 /\ IsInjective(nt)
          /\ \A i \in 1..Len(nt) : nt[i] = t[i + 1] /\ i + 1 \in 1..Len(t) /\ nt[i] # p
      BY <2>2, <2>6, <3>1, InjectiveTail DEF p
    <3>5. IsInjective(nd)
      BY <2>1, <2>2, <2>6, InjectiveAppend
    <3> QED BY <2>2, <3>2, <3>3, <3>4, <3>5
  <2> HIDE DEF t, d, nt, nd
  <2>11. \A i \in 1..Len(nt), j \in 1..Len(nd) : nt[i] # nd[j]
    <3>1. \A j \in 1..Len(nd) : j \in 1..Len(d) \/ j = Len(d) + 1
      BY <2>7
    <3>2. \A i \in 1..Len(t), j \in 1..Len(d) : t[i] # d[j]
      BY <2>6 DEF t, d
    <3> QED BY <2>7, <3>1, <3>2
  <2>12. ASSUME NEW j \in 1..Len(nd)
         PROVE  /\ undoOperations'[call.base + j].op = "add"
                /\ undoOperations'[call.base + j].pod = nd[j]
                /\ ~On(nodePods', nd[j])
    <3>1. CASE j \in 1..Len(d)
      <4>1. call.base + j \in 1..stateVersion
        BY <2>2, <2>7, <3>1 DEF d
      <4>2. nd[j] = d[j] /\ nd[j] \in Pods
        BY <2>7, <3>1
      <4>3. ~On(nodePods, nd[j])
        BY <2>6, <3>1, <4>2 DEF d, Running, On
      <4>4. undoOperations'[call.base + j] = undoOperations[call.base + j]
        BY <2>4, <4>1
      <4>5. undoOperations[call.base + j].op = "add" /\ undoOperations[call.base + j].pod = nd[j]
        BY <2>6, <3>1, <4>2 DEF d
      <4>6. ~On(nodePods', nd[j])
        BY <2>5, <4>2, <4>3
      <4> QED BY <4>4, <4>5, <4>6
    <3>2. CASE j = Len(d) + 1
      <4>1. call.base + j = stateVersion + 1 /\ nd[j] = p
        BY <2>2, <2>7, <3>2 DEF d
      <4>2. ~On(nodePods', p)
        BY <2>1, <2>5
      <4> QED BY <2>3, <2>4, <4>1, <4>2
    <3> QED BY <2>7, <3>1, <3>2
  <2>13. call'.todo = nt /\ call'.done = nd /\ call'.base = call.base
    BY <2>1 DEF nt, nd, t, d
  <2>14. \A j \in 1..Len(call'.done) : /\ undoOperations'[call'.base + j].op = "add"
                                       /\ undoOperations'[call'.base + j].pod = call'.done[j]
                                       /\ ~Running(call.done[j])'
    BY <2>1, <2>12, <2>13 DEF Running, On
  <2> QED BY <2>7, <2>11, <2>13, <2>14 DEF PreemptInv
<1>3. CASE PreemptPods
  <2>1. PICK b \in Batches(Pods) :
          call' = [NoCall EXCEPT !.fn = "PreemptPods", !.base = stateVersion, !.todo = b]
    BY <1>3 DEF PreemptPods, ReturnAtOnce, Enter, Idle
  <2>2. call'.todo = b /\ call'.done = <<>>
    BY <2>1 DEF NoCall
  <2>3. IsInjective(b)
    BY DEF Batches
  <2> QED BY <2>2, <2>3 DEF PreemptInv, IsInjective
<1>4. CASE preemptDone
  BY <1>4 DEF preemptDone, Return
<1> QED BY <1>1, <1>2, <1>3, <1>4, StepsTo, StepsFrom

\* What Record writes: the result, and the pods that are left.
LEMMA RecordResult ==
  ASSUME StructInv, call.todo # <<>>, NEW st \in {"Success", "Unschedulable", "Error"},
         NEW n \in Nodes \cup {NoNode}, Record(st, n)
  PROVE  LET r == [pod |-> Head(call.todo), status |-> st, node |-> n]
         IN  /\ call'.results = Append(call.results, r)
             /\ Len(call.results) \in Nat /\ Len(call'.results) = Len(call.results) + 1
             /\ \A i \in 1..Len(call.results) :
                  call'.results[i] = call.results[i] /\ call.results[i] \in Result
             /\ call'.results[Len(call.results) + 1] = r
             /\ call'.stopOnFailure = call.stopOnFailure
             /\ call'.todo = Tail(call.todo) \/ call'.todo = <<>>
             /\ st # "Success" /\ call.stopOnFailure => call'.todo = <<>>
<1> DEFINE r == [pod |-> Head(call.todo), status |-> st, node |-> n]
<1>1. call \in Call /\ call.results \in Seq(Result) /\ call.todo \in Seq(Pods)
  BY DEF StructInv, TypeOK, Call
<1>2. r \in Result
  BY <1>1, HeadTailProperties DEF Result
<1>3. call' = [call EXCEPT
        !.todo = IF st # "Success" /\ call.stopOnFailure THEN <<>> ELSE Tail(@),
        !.host = NoNode,
        !.results = Append(@, r)]
  BY DEF Record
<1> HIDE DEF r
<1>4. /\ call'.results = Append(call.results, r) /\ call'.stopOnFailure = call.stopOnFailure
      /\ call'.todo = IF st # "Success" /\ call.stopOnFailure THEN <<>> ELSE Tail(call.todo)
  BY <1>1, <1>3 DEF Call
<1>5. /\ Len(call.results) \in Nat /\ Len(call'.results) = Len(call.results) + 1
      /\ \A i \in 1..Len(call.results) :
           call'.results[i] = call.results[i] /\ call.results[i] \in Result
      /\ call'.results[Len(call.results) + 1] = r
  BY <1>1, <1>2, <1>4, AppendProperties, LenProperties
<1> QED BY <1>4, <1>5 DEF r

\* A pod's attempt ends: the other pods are as they were, and it runs where the
\* result says or nowhere.
LEMMA ScheduleRecord ==
  ASSUME PodInv, pc \in {"schedule", "reserve"}, pc' = "schedule", call.todo # <<>>,
         NEW st \in {"Success", "Unschedulable", "Error"}, NEW n \in Nodes \cup {NoNode},
         Record(st, n), nodes' = nodes,
         \A q \in Pods : q # Head(call.todo) =>
           specNode'[q] = specNode[q] /\ \A m \in Nodes : nodePods'[m][q] = nodePods[m][q],
         st = "Success" => /\ n \in nodes /\ nodePods'[n][Head(call.todo)] > 0
                           /\ specNode'[Head(call.todo)] = n,
         st # "Success" => ~On(nodePods', Head(call.todo))
  PROVE  ScheduleInv'
<1> DEFINE p == Head(call.todo)
           t == call'.todo
           R == call.results
           r == [pod |-> p, status |-> st, node |-> n]
<1>1. call.todo \in Seq(Pods) /\ nodes \subseteq Nodes
  BY DEF PodInv, StructInv, TypeOK, Call
<1>2. /\ IsInjective(call.todo)
      /\ \A j \in 1..Len(call.todo) : Running(call.todo[j]) => j = 1
      /\ \A i \in 1..Len(R) : ResultInv(R[i])
      /\ StopInv
  BY DEF PodInv, ScheduleInv, TodoInv
<1>3. /\ Len(R) \in Nat /\ Len(call'.results) = Len(R) + 1
      /\ \A i \in 1..Len(R) : call'.results[i] = R[i] /\ R[i] \in Result
      /\ call'.results[Len(R) + 1] = r
      /\ call'.stopOnFailure = call.stopOnFailure
      /\ t = Tail(call.todo) \/ t = <<>>
      /\ st # "Success" /\ call.stopOnFailure => t = <<>>
  BY RecordResult DEF PodInv
<1>4. /\ IsInjective(t) /\ p \in Pods /\ p = call.todo[1] /\ 1 \in 1..Len(call.todo)
      /\ \A j \in 1..Len(t) : /\ t[j] = call.todo[j + 1] /\ j + 1 \in 1..Len(call.todo)
                              /\ t[j] # p /\ t[j] \in Pods
  <2>1. p \in Pods /\ p = call.todo[1] /\ 1 \in 1..Len(call.todo)
    BY <1>1, <1>2, InjectiveTail
  <2>2. CASE t = Tail(call.todo)
    BY <1>1, <1>2, <2>1, <2>2, InjectiveTail
  <2>3. CASE t = <<>>
    BY <2>1, <2>3 DEF IsInjective
  <2> QED BY <1>3, <2>1, <2>2, <2>3
<1>5. r.pod = p /\ r.status = st /\ r.node = n
  OBVIOUS
<1> HIDE DEF p, t, r
<1>6. \A q \in Pods : q # p => /\ specNode'[q] = specNode[q]
                               /\ \A m \in Nodes : nodePods'[m][q] = nodePods[m][q]
  BY DEF p
<1>7. \A q \in Pods : q # p => (On(nodePods', q) <=> Running(q))
  BY <1>1, <1>6 DEF On, Running
<1>8. \A j \in 1..Len(t) : ~On(nodePods', t[j])
  <2>1. \A j \in 1..Len(t) : j + 1 # 1
    OBVIOUS
  <2> QED BY <1>2, <1>4, <1>7, <2>1
<1> DEFINE Good(x) == /\ \A j \in 1..Len(t) : t[j] # x.pod
                      /\ x.status = "Success" => /\ x.node \in nodes
                                                 /\ nodePods'[x.node][x.pod] > 0
                                                 /\ specNode'[x.pod] = x.node
                      /\ x.status # "Success" => ~On(nodePods', x.pod)
<1>9. ASSUME NEW i \in 1..Len(R) PROVE Good(R[i])
  <2>1. /\ ResultInv(R[i]) /\ R[i].pod \in Pods
    BY <1>2, <1>3 DEF Result
  <2>2. R[i].pod # p /\ \A j \in 1..Len(t) : t[j] # R[i].pod
    BY <1>4, <2>1 DEF ResultInv
  <2>3. R[i].status # "Success" => ~On(nodePods', R[i].pod)
    BY <1>7, <2>1, <2>2 DEF ResultInv
  <2>4. R[i].status = "Success" => /\ R[i].node \in nodes
                                   /\ nodePods'[R[i].node][R[i].pod] > 0
                                   /\ specNode'[R[i].pod] = R[i].node
    BY <1>1, <1>6, <2>1, <2>2 DEF ResultInv
  <2> QED BY <2>2, <2>3, <2>4
<1>10. Good(r)
  BY <1>4, <1>5 DEF p
<1>11. ASSUME NEW i \in 1..Len(call'.results) PROVE Good(call'.results[i])
  <2>1. i \in 1..Len(R) \/ i = Len(R) + 1
    BY <1>3
  <2> HIDE DEF Good
  <2> QED BY <1>3, <1>9, <1>10, <2>1
<1>12. TodoInv'
  BY <1>4, <1>8 DEF TodoInv, t, Running, On
<1>13. \A i \in 1..Len(call'.results) : ResultInv(call.results[i])'
  BY <1>11 DEF ResultInv, Running, On, t
<1>14. StopInv'
  <2>1. SUFFICES ASSUME NEW i \in 1..Len(call'.results), call'.stopOnFailure,
                        call'.results[i].status # "Success"
                 PROVE  t = <<>> /\ i = Len(call'.results)
    BY DEF StopInv, t
  <2>2. i \notin 1..Len(R)
    BY <1>2, <1>3, <2>1 DEF StopInv
  <2>3. i = Len(R) + 1
    BY <1>3, <2>2
  <2> QED BY <1>3, <1>5, <2>1, <2>3
<1> QED BY <1>12, <1>13, <1>14 DEF ScheduleInv

\* SchedulePods starts with pods that do not run.
LEMMA ScheduleEnter ==
  ASSUME PodInv, SchedulePods \/ SchedulePodsByTemplate, pc' = "schedule"
  PROVE  ScheduleInv'
<1> DEFINE Pending == {p \in Pods : ~Running(p)}
<1>1. pc = "idle"
  BY DEF SchedulePods, SchedulePodsByTemplate, schedulePods, ReturnAtOnce, Enter, Idle
<1>2. Schedulable \subseteq Pending
  BY DEF Schedulable
<1>3. {p \in TemplatePods : specNode[p] = NoNode} \subseteq Pending
  <2>1. ASSUME NEW p \in TemplatePods, specNode[p] = NoNode, Running(p) PROVE FALSE
    <3>1. PICK n \in nodes : nodePods[n][p] > 0
      BY <2>1 DEF Running
    <3>2. n \in Nodes /\ p \in Pods
      BY ConstantsAssumption DEF PodInv, StructInv, TypeOK
    <3> QED BY <1>1, <2>1, <3>1, <3>2, ViewNow DEF PodInv, NamedInv
  <2> QED BY <2>1, ConstantsAssumption
<1>4. PICK b, ps, d, s : /\ b \in Seq(Pending) /\ IsInjective(b)
                         /\ schedulePods(b, ps, d, s)
  <2> HIDE DEF Pending
  <2>1. CASE SchedulePods
    <3>1. PICK b \in Batches(Schedulable \ {p \in TemplatePods : specNode[p] = NoNode}),
               ps \in SUBSET Nodes, d \in BOOLEAN, s \in BOOLEAN :
                 schedulePods(b, ps, d, s)
      BY <2>1 DEF SchedulePods
    <3>2. /\ b \in Seq(Schedulable \ {p \in TemplatePods : specNode[p] = NoNode})
          /\ IsInjective(b)
      BY BatchFacts DEF Batches
    <3>3. b \in Seq(Pending)
      BY <1>2, <3>2, SeqMonotonic
    <3> QED BY <3>1, <3>2, <3>3, Zenon
  <2>2. CASE SchedulePodsByTemplate
    <3>1. PICK b \in Batches({p \in TemplatePods : specNode[p] = NoNode}),
               ps \in SUBSET nodes, d \in BOOLEAN :
                 schedulePods(b, ps, d, TRUE)
      BY <2>2 DEF SchedulePodsByTemplate
    <3>2. b \in Seq({p \in TemplatePods : specNode[p] = NoNode}) /\ IsInjective(b)
      BY BatchFacts DEF Batches
    <3>3. b \in Seq(Pending)
      BY <1>3, <3>2, SeqMonotonic
    <3> QED BY <3>1, <3>2, <3>3, Zenon
  <2> QED BY <2>1, <2>2
<1>5. /\ call' = [NoCall EXCEPT !.fn = "SchedulePods", !.base = stateVersion,
                     !.todo = b, !.dryRun = d, !.stopOnFailure = s]
      /\ UNCHANGED <<nodes, nodePods>>
  BY <1>1, <1>4 DEF schedulePods, ReturnAtOnce, Enter
<1>6. call'.todo = b /\ call'.results = <<>>
  BY <1>5 DEF NoCall
<1>7. \A j \in 1..Len(b) : ~Running(b[j])
  BY <1>4
<1>8. TodoInv'
  BY <1>4, <1>5, <1>6, <1>7 DEF TodoInv, Running
<1> QED BY <1>6, <1>8 DEF ScheduleInv, StopInv

\* SchedulePods records for each pod what became of it, and goes on without it.
LEMMA ScheduleNext ==
  ASSUME PodInv, StructInv', CarefulClient, [Next]_vars
  PROVE  ScheduleInv'
<1> SUFFICES ASSUME pc' \in {"schedule", "reserve"} PROVE ScheduleInv'
  BY DEF ScheduleInv
<1>1. /\ nodes' = nodes /\ nodes \subseteq Nodes /\ nodePods \in View /\ Unique(nodePods)
      /\ call.todo \in Seq(Pods) /\ specNode \in [Pods -> Nodes \cup {NoNode}]
      /\ \A m \in Nodes, q \in Pods : nodePods[m][q] \in Nat
  <2>1. nodes' = nodes /\ nodes \subseteq Nodes
    BY StepKinds DEF PodInv, StructInv, TypeOK
  <2>2. nodePods \in View /\ specNode \in [Pods -> Nodes \cup {NoNode}] /\ call.todo \in Seq(Pods)
    BY DEF PodInv, StructInv, TypeOK, Call
  <2>3. Unique(nodePods)
    BY ViewNow DEF PodInv, UniqueInv
  <2>4. \A m \in Nodes, q \in Pods : nodePods[m][q] \in Nat
    BY <2>2 DEF View
  <2> QED BY <2>1, <2>2, <2>3, <2>4
<1>2. CASE UNCHANGED vars
  BY <1>2 DEF PodInv, ScheduleInv, TodoInv, ResultInv, StopInv, Running, vars
<1>3. CASE SchedulePods \/ SchedulePodsByTemplate
  <2>1. pc' = "schedule"
    BY <1>3 DEF SchedulePods, SchedulePodsByTemplate, schedulePods, ReturnAtOnce, Enter, Idle
  <2> QED BY <1>3, <2>1, ScheduleEnter
<1>4. CASE scheduleFails
  <2>1. /\ pc = "schedule" /\ pc' = "schedule" /\ call.todo # <<>>
        /\ UNCHANGED <<nodes, nodePods, specNode>>
        /\ Record("Unschedulable", NoNode) \/ Record("Error", NoNode)
    BY <1>4 DEF scheduleFails, Scheduling
  <2>2. Head(call.todo) = call.todo[1] /\ 1 \in 1..Len(call.todo)
    BY <1>1, <2>1, HeadTailProperties, LenProperties, EmptySeq
  <2>3. ~On(nodePods', Head(call.todo))
    BY <2>1, <2>2 DEF PodInv, ScheduleInv, TodoInv, Running, On
  <2> QED BY <2>1, <2>3, ScheduleRecord
<1>5. CASE reserve
  <2>1. /\ pc = "reserve" /\ pc' = "schedule" /\ call.todo # <<>>
        /\ specNode' = [specNode EXCEPT ![Head(call.todo)] = call.host]
        /\ UNCHANGED <<nodes, nodePods>> /\ Record("Success", call.host)
        /\ call.host \in nodes
    BY <1>5 DEF reserve, Scheduling, PodInv, StructInv, ControlInv
  <2>2. Head(call.todo) \in Pods
    BY <1>1, <2>1, HeadTailProperties
  <2>3. nodePods'[call.host][Head(call.todo)] > 0
    BY <2>1 DEF PodInv, ScheduleInv, TodoInv
  <2>4. /\ specNode'[Head(call.todo)] = call.host
        /\ \A q \in Pods : q # Head(call.todo) => specNode'[q] = specNode[q]
    BY <1>1, <2>1, <2>2
  <2>5. call.host \in Nodes
    BY <1>1, <2>1
  <2> QED BY <2>1, <2>3, <2>4, <2>5, ScheduleRecord
<1>6. CASE unreserveAndForget
  <2> DEFINE p == Head(call.todo)
  <2>1. /\ pc = "reserve" /\ pc' = "schedule" /\ call.todo # <<>>
        /\ nodePods' = RemovePod(nodePods, p, call.host)
        /\ UNCHANGED <<nodes, specNode>>
        /\ Record("Unschedulable", NoNode) \/ Record("Error", NoNode)
        /\ call.host \in nodes
    BY <1>6 DEF unreserveAndForget, Scheduling, PodInv, StructInv, ControlInv
  <2>2. p \in Pods
    BY <1>1, <2>1, HeadTailProperties
  <2>3. CanRemove(nodePods, p, call.host)
    BY <2>1 DEF PodInv, ScheduleInv, TodoInv, CanRemove
  <2> HIDE DEF p
  <2>4. ~On(nodePods', p)
    BY <1>1, <2>1, <2>2, <2>3, UniqueRemove
  <2>5. \A q \in Pods : q # p => \A m \in Nodes : nodePods'[m][q] = nodePods[m][q]
    BY <1>1, <2>1, <2>2, <2>3, RemoveValue
  <2> QED BY <2>1, <2>4, <2>5, ScheduleRecord DEF p
<1>7. CASE assume
  <2> DEFINE p == Head(call.todo)
  <2>1. PICK n \in nodes :
          /\ nodePods' = AddPod(nodePods, p, n)
          /\ p \in Pods /\ p = call.todo[1] /\ 1 \in 1..Len(call.todo) /\ ~On(nodePods, p)
          /\ pc = "schedule" /\ pc' = "reserve"
          /\ call'.todo = call.todo /\ call'.results = call.results
          /\ call'.stopOnFailure = call.stopOnFailure /\ call'.host = n
          /\ UNCHANGED <<nodes, specNode>>
    BY <1>7, AssumeFacts
  <2> HIDE DEF p
  <2>2. \A q \in Pods : On(nodePods', q) <=> On(nodePods, q) \/ q = p
    BY <1>1, <2>1, UniqueAdd
  <2>3. \A m \in Nodes, q \in Pods :
          nodePods'[m][q] = IF m = n /\ q = p THEN nodePods[m][q] + 1 ELSE nodePods[m][q]
    BY <1>1, <2>1, AddValue
  <2>4. /\ IsInjective(call.todo) /\ DOMAIN call.todo = 1..Len(call.todo)
        /\ \A j \in 1..Len(call.todo) : ~On(nodePods, call.todo[j]) /\ call.todo[j] \in Pods
        /\ \A i \in 1..Len(call.results) : ResultInv(call.results[i])
        /\ StopInv
    <3>1. /\ IsInjective(call.todo) /\ StopInv
          /\ \A j \in 1..Len(call.todo) : ~Running(call.todo[j])
          /\ \A i \in 1..Len(call.results) : ResultInv(call.results[i])
      BY <2>1 DEF PodInv, ScheduleInv, TodoInv
    <3>2. DOMAIN call.todo = 1..Len(call.todo)
          /\ \A j \in 1..Len(call.todo) : call.todo[j] \in Pods
      BY <1>1, LenProperties, ElementOfSeq
    <3>3. \A j \in 1..Len(call.todo) : ~On(nodePods, call.todo[j])
      BY <3>1 DEF Running, On
    <3> QED BY <3>1, <3>2, <3>3
  <2>5. \A i \in 1..Len(call.results) : call.results[i] \in Result
    <3>1. call.results \in Seq(Result)
      BY DEF PodInv, StructInv, TypeOK, Call
    <3> QED BY <3>1, ElementOfSeq
  <2>6. \A j \in 1..Len(call.todo) : On(nodePods', call.todo[j]) => j = 1
    BY <2>1, <2>2, <2>4 DEF IsInjective
  <2>7. nodePods'[n][p] > 0
    BY <1>1, <2>1, <2>3
  <2>8. TodoInv'
    <3>1. Head(call'.todo) = p /\ call'.host = n
      BY <2>1 DEF p
    <3> QED BY <2>1, <2>4, <2>6, <2>7, <3>1 DEF TodoInv, Running, On
  <2>9. ASSUME NEW i \in 1..Len(call'.results) PROVE ResultInv(call.results[i])'
    <3> DEFINE r == call.results[i]
    <3>1. r \in Result /\ ResultInv(r) /\ call'.results[i] = r
      BY <2>1, <2>4, <2>5, <2>9
    <3>2. r.pod \in Pods /\ r.pod # p
      BY <2>1, <3>1 DEF Result, ResultInv
    <3>3. r.status # "Success" => ~On(nodePods', r.pod)
      BY <2>2, <3>1, <3>2 DEF ResultInv, Running, On
    <3>4. r.status = "Success" => /\ r.node \in nodes /\ nodePods'[r.node][r.pod] > 0
                                  /\ specNode[r.pod] = r.node
      BY <1>1, <2>3, <3>1, <3>2 DEF ResultInv
    <3>5. \A j \in 1..Len(call.todo) : call.todo[j] # r.pod
      BY <3>1 DEF ResultInv
    <3> QED BY <2>1, <3>1, <3>3, <3>4, <3>5 DEF ResultInv, Running, On
  <2>10. StopInv'
    BY <2>1, <2>4 DEF StopInv
  <2> QED BY <2>8, <2>9, <2>10 DEF ScheduleInv
<1>8. CASE scheduleNoProfile \/ scheduleDone
  BY <1>8 DEF scheduleNoProfile, scheduleDone, Return
<1> QED BY <1>2, <1>3, <1>4, <1>5, <1>6, <1>7, <1>8, StepsTo, StepsFrom

--------------------------------------------------------------------------------
(* Pods and handles                                                        *)

\* A new snapshot has the pods of the cluster once each, and no handles.
LEMMA PodInit == Init => PodInv
<1> SUFFICES ASSUME Init PROVE PodInv
  OBVIOUS
<1>1. StructInv /\ RollbackInv
  BY StructInit, RollbackInit
<1>2. /\ pc = "idle" /\ history = <<>> /\ handles = <<>> /\ nodes = SnapshotNodes
      /\ specNode = InitialNode
      /\ nodePods = [n \in Nodes |-> [p \in Pods |-> IF InitialNode[p] = n THEN 1 ELSE 0]]
  BY DEF Init
<1>3. Len(history) = 0 /\ Len(handles) = 0
  BY <1>2
<1>4. ViewAt(0) = nodePods
  BY <1>3 DEF ViewAt
<1>5. UniqueInv
  <2>1. Unique(nodePods)
    BY <1>2, ConstantsAssumption DEF Unique
  <2> QED BY <1>3, <1>4, <2>1 DEF UniqueInv
<1>6. NamedInv
  <2>1. ASSUME NEW n \in Nodes, NEW p \in Pods, nodePods[n][p] > 0 PROVE specNode[p] # NoNode
    BY <1>2, <2>1, ConstantsAssumption
  <2> QED BY <1>3, <1>4, <2>1 DEF NamedInv
<1>7. LinkInv /\ AbsentInv /\ DisjointInv
  BY <1>3 DEF LinkInv, AbsentInv, DisjointInv
<1> QED BY <1>1, <1>2, <1>5, <1>6, <1>7 DEF PodInv, ScheduleInv, PreemptInv, UnpreemptInv

\* Every step preserves the invariant of pods and handles.
LEMMA PodNext ==
  ASSUME CarefulClient, PodInv, [Next]_vars
  PROVE  PodInv'
<1>1. StructInv'
  BY StructNext DEF PodInv
<1>2. RollbackInv'
  BY <1>1, RollbackNext DEF PodInv, CarefulClient, NamesProtected
<1> QED BY <1>1, <1>2, UniqueNext, NamedNext, ScheduleNext, PreemptNext, UnpreemptNext,
           LinkNext, AbsentNext, DisjointNext DEF PodInv

\* The invariant of pods and handles holds in every reachable state.
THEOREM PodInvHolds ==
  ASSUME CarefulClient
  PROVE  Spec => []PodInv
<1>1. Init => PodInv
  BY PodInit
<1>2. PodInv /\ [Next]_vars => PodInv'
  BY PodNext
<1> QED BY <1>1, <1>2, PTL DEF Spec

\* No pod is ever in the snapshot twice, on one node or on two, whatever is
\* scheduled, preempted, put back and rolled back, and in whatever order.
THEOREM NoPodTwice ==
  ASSUME CarefulClient
  PROVE  Spec => []NoDuplicatePods
<1>1. PodInv => NoDuplicatePods
  <2> SUFFICES ASSUME PodInv, NEW p \in Pods, NEW n \in Nodes, NEW m \in Nodes
               PROVE  /\ nodePods[n][p] =< 1
                      /\ n # m => nodePods[n][p] = 0 \/ nodePods[m][p] = 0
    BY DEF NoDuplicatePods
  <2>1. Unique(nodePods)
    BY ViewNow DEF PodInv, UniqueInv
  <2>2. nodePods[n][p] \in Nat /\ nodePods[m][p] \in Nat
    BY DEF PodInv, StructInv, TypeOK, View
  <2> QED BY <2>1, <2>2 DEF Unique
<1> QED BY <1>1, PodInvHolds, PTL

\* As long as Unpreempt would accept a handle, its pods are not running and their
\* objects still name the nodes they were taken from: nothing a client does in
\* between makes a handle put a pod in the wrong place or a second time.
THEOREM AcceptedHandlesAreSound ==
  ASSUME CarefulClient
  PROVE  Spec => []AcceptedHandleSound
<1>1. PodInv => AcceptedHandleSound
  <2> SUFFICES ASSUME PodInv, pc = "idle", NEW i \in DOMAIN handles, Accepted(handles[i]),
                      ~handles[i].undone, NEW j \in DOMAIN handles[i].pods
               PROVE  /\ ~Running(handles[i].pods[j])
                      /\ specNode[handles[i].pods[j]] = handles[i].from[j]
    BY DEF AcceptedHandleSound, Idle
  <2> DEFINE h == handles[i]
  <2>1. i \in 1..Len(handles) /\ h \in Handle
    BY LenProperties DEF PodInv, StructInv, TypeOK
  <2>2. h.pods \in Seq(Pods) /\ h.base \in Nat
    BY <2>1 DEF Handle
  <2>3. j \in 1..Len(h.pods) /\ Len(h.pods) \in Nat
    BY <2>2, LenProperties
  <2>4. Outstanding(i)
    BY DEF Outstanding, Live, Doomed, Accepted
  <2>5. Linked(h)
    BY <2>1, <2>4 DEF PodInv, LinkInv, Outstanding
  <2>6. h.base + Len(h.pods) =< stateVersion /\ stateVersion \in Nat
    BY <2>5 DEF Linked, Floor, PodInv, StructInv, TypeOK
  <2>7. h.base + Len(h.pods) =< Len(history) /\ h.base + j \in 1..stateVersion
    BY <2>2, <2>3, <2>6, ViewNow DEF PodInv
  <2>8. ~On(nodePods, h.pods[j])
    BY <2>1, <2>3, <2>4, <2>7, ViewNow DEF PodInv, AbsentInv, PutBack
  <2>9. undoOperations[h.base + j] = Operation("add", h.pods[j], h.from[j])
    BY <2>3, <2>5 DEF Linked
  <2>10. specNode[h.pods[j]] = h.from[j]
    <3>1. /\ undoOperations[h.base + j].op = "add" /\ undoOperations[h.base + j].pod = h.pods[j]
          /\ undoOperations[h.base + j].node = h.from[j]
      BY <2>9 DEF Operation
    <3> QED BY <2>7, <3>1 DEF PodInv, RollbackInv, NamesInv
  <2> QED BY <2>8, <2>10, ViewNow DEF PodInv
<1> QED BY <1>1, PodInvHolds, PTL

\* SchedulePods reports what it did: when its loop is over a pod runs, exactly on
\* the reported node, if and only if its result is a success, and with
\* StopOnFailure nothing was attempted after a failure.
THEOREM ResultsAreFaithful ==
  ASSUME CarefulClient
  PROVE  Spec => []ResultsFaithful
<1>1. PodInv => ResultsFaithful
  <2> SUFFICES ASSUME PodInv, pc = "schedule", NEW i \in DOMAIN call.results
               PROVE  LET r == call.results[i]
                      IN  /\ r.status = "Success" <=> Running(r.pod)
                          /\ r.status = "Success" =>
                               nodePods[r.node][r.pod] = 1 /\ specNode[r.pod] = r.node
                          /\ call.stopOnFailure /\ i < Len(call.results) => r.status = "Success"
    BY DEF ResultsFaithful
  <2> DEFINE r == call.results[i]
  <2>1. i \in 1..Len(call.results) /\ r \in Result /\ Len(call.results) \in Nat
    BY LenProperties DEF PodInv, StructInv, TypeOK, Call
  <2>2. ResultInv(r) /\ StopInv
    BY <2>1 DEF PodInv, ScheduleInv
  <2>3. Unique(nodePods)
    BY ViewNow DEF PodInv, UniqueInv
  <2>4. /\ nodes \subseteq Nodes /\ r.pod \in Pods
        /\ \A m \in Nodes, q \in Pods : nodePods[m][q] \in Nat
    BY <2>1 DEF PodInv, StructInv, TypeOK, View, Result
  <2>5. r.status = "Success" => nodePods[r.node][r.pod] = 1 /\ specNode[r.pod] = r.node /\ Running(r.pod)
    BY <2>2, <2>3, <2>4 DEF ResultInv, Unique, Running
  <2>6. call.stopOnFailure /\ i < Len(call.results) => r.status = "Success"
    BY <2>1, <2>2 DEF StopInv
  <2> QED BY <2>2, <2>5, <2>6 DEF ResultInv
<1> QED BY <1>1, PodInvHolds, PTL

--------------------------------------------------------------------------------
(* Reservations                                                            *)

\* The first k entries of the undo log have this one.
Has(op, p, n, k) == \E i \in 1..k : undoOperations[i] = Operation(op, p, n)

\* The Reserve plugins hold what the log will give back.
ReservedInv ==
  \A p \in Pods, n \in Nodes : n \in reserved[p] <=> Has("forget", p, n, stateVersion)

\* At each state version: the log forgets a pod on a node exactly if it was not there
\* at the creation and is there now, or was preempted from there; and a pod of the
\* creation that is gone was preempted.
HeldAt(p, n, k) ==
  /\ Has("forget", p, n, k) <=>
       ViewAt(0)[n][p] = 0 /\ (ViewAt(k)[n][p] > 0 \/ Has("add", p, n, k))
  /\ ViewAt(0)[n][p] > 0 /\ ViewAt(k)[n][p] = 0 => Has("add", p, n, k)
HeldInv == \A p \in Pods, n \in Nodes, k \in 0..stateVersion : HeldAt(p, n, k)

\* No pod is scheduled on top of a preemption of it.
OrderInv ==
  \A i, j \in 1..stateVersion :
    i < j /\ undoOperations[i].op = "add" /\ undoOperations[j].op = "forget"
      => undoOperations[i].pod # undoOperations[j].pod

HoldInv == ReservedInv /\ HeldInv /\ OrderInv

\* A log that keeps its first entries has the same ones among them.
LEMMA HasKept ==
  ASSUME NEW k \in Nat, \A i \in 1..k : undoOperations'[i] = undoOperations[i]
  PROVE  \A op, p, n : Has(op, p, n, k)' <=> Has(op, p, n, k)
BY DEF Has, Operation

\* A log that gains an entry has that one more.
LEMMA HasPush ==
  ASSUME StructInv, NEW e \in UndoOperation, e.node \in nodes, registerOperation(e)
  PROVE  \A op, p, n :
           Has(op, p, n, stateVersion)' <=>
             Has(op, p, n, stateVersion) \/ e = Operation(op, p, n)
<1>1. /\ stateVersion' = stateVersion + 1 /\ stateVersion \in Nat
      /\ \A i \in 1..stateVersion : undoOperations'[i] = undoOperations[i]
      /\ undoOperations'[stateVersion + 1] = e
  BY RegisterFacts DEF StructInv, TypeOK
<1>2. 1..stateVersion' = 1..stateVersion \cup {stateVersion + 1}
  BY <1>1
<1> QED BY <1>1, <1>2 DEF Has, Operation

\* The views at the state versions that stay are kept.
LEMMA ViewKept ==
  ASSUME PodInv, StructInv', [Next]_vars
  PROVE  \A k \in 0..stateVersion : k =< stateVersion' => ViewAt(k)' = ViewAt(k)
<1>1. /\ stateVersion \in Nat /\ Len(history) \in Nat /\ stateVersion =< Len(history)
  BY ViewNow DEF PodInv
<1>2. /\ stateVersion' \in Nat /\ Len(history') \in Nat /\ stateVersion' =< Len(history')
  <2>1. stateVersion' \in Nat /\ Len(history') \in Nat
    BY LenProperties DEF StructInv, TypeOK
  <2> QED BY <2>1 DEF StructInv, LogInv
<1>3. ASSUME NEW k \in 0..stateVersion, k =< stateVersion' PROVE ViewAt(k)' = ViewAt(k)
  <2>1. k \in 0..Len(history') /\ k # Len(history) + 1
    BY <1>1, <1>2, <1>3
  <2> QED BY <2>1, ViewsStep DEF PodInv
<1> QED BY <1>3

\* So is what is known of them.
LEMMA HeldKept ==
  ASSUME PodInv, HeldInv, StructInv', [Next]_vars, NEW k \in 0..stateVersion,
         k =< stateVersion', \A i \in 1..k : undoOperations'[i] = undoOperations[i]
  PROVE  \A p \in Pods, n \in Nodes : HeldAt(p, n, k)'
<1>1. stateVersion \in Nat /\ stateVersion' \in Nat
  BY DEF PodInv, StructInv, TypeOK
<1>2. ViewAt(0)' = ViewAt(0) /\ ViewAt(k)' = ViewAt(k)
  BY <1>1, ViewKept
<1>3. \A op, p, n : Has(op, p, n, k)' <=> Has(op, p, n, k)
  BY HasKept
<1>4. ASSUME NEW p \in Pods, NEW n \in Nodes PROVE HeldAt(p, n, k)'
  <2>1. HeldAt(p, n, k)
    BY DEF HeldInv
  <2> QED BY <1>2, <1>3, <2>1 DEF HeldAt
<1> QED BY <1>4

\* A step that leaves log and reservations alone.
LEMMA HoldKept ==
  ASSUME PodInv, HoldInv, StructInv', [Next]_vars,
         UNCHANGED <<reserved, undoOperations, stateVersion>>
  PROVE  HoldInv'
<1>1. stateVersion \in Nat
  BY DEF PodInv, StructInv, TypeOK
<1>2. ASSUME NEW k \in 0..stateVersion PROVE \A p \in Pods, n \in Nodes : HeldAt(p, n, k)'
  BY <1>1, HeldKept DEF HoldInv
<1>3. HeldInv'
  BY <1>2 DEF HeldInv
<1>4. ReservedInv' /\ OrderInv'
  BY DEF HoldInv, ReservedInv, OrderInv, Has
<1> QED BY <1>3, <1>4 DEF HoldInv

\* A step that registers an operation: what has to be shown of the new version.
LEMMA HoldPush ==
  ASSUME PodInv, HoldInv, StructInv', [Next]_vars,
         NEW e \in UndoOperation, e.node \in nodes, registerOperation(e),
         \A p \in Pods, n \in Nodes :
           /\ HeldAt(p, n, stateVersion)'
           /\ n \in reserved'[p] <=> n \in reserved[p] \/ e = Operation("forget", p, n),
         e.op = "forget" => \A i \in 1..stateVersion :
           undoOperations[i].op = "add" => undoOperations[i].pod # e.pod
  PROVE  HoldInv'
<1>1. /\ stateVersion' = stateVersion + 1 /\ stateVersion \in Nat
      /\ \A i \in 1..stateVersion : undoOperations'[i] = undoOperations[i]
      /\ undoOperations'[stateVersion + 1] = e
  BY RegisterFacts DEF PodInv, StructInv, TypeOK
<1>2. ASSUME NEW k \in 0..stateVersion', NEW p \in Pods, NEW n \in Nodes
      PROVE  HeldAt(p, n, k)'
  <2>1. CASE k = stateVersion'
    <3>1. HeldAt(p, n, stateVersion)'
      OBVIOUS
    <3> QED BY <2>1, <3>1 DEF HeldAt, Has, ViewAt
  <2>2. CASE k # stateVersion'
    <3>1. k \in 0..stateVersion /\ k =< stateVersion' /\ 1..k \subseteq 1..stateVersion
      BY <1>1, <2>2
    <3>2. \A i \in 1..k : undoOperations'[i] = undoOperations[i]
      BY <1>1, <3>1
    <3> QED BY <3>1, <3>2, HeldKept DEF HoldInv
  <2> QED BY <2>1, <2>2
<1>3. HeldInv'
  BY <1>2 DEF HeldInv
<1>4. ReservedInv'
  <2>1. ASSUME NEW p \in Pods, NEW n \in Nodes
        PROVE  n \in reserved'[p] <=> Has("forget", p, n, stateVersion)'
    BY HasPush DEF PodInv, HoldInv, ReservedInv
  <2> QED BY <2>1 DEF ReservedInv
<1>5. OrderInv'
  <2>1. ASSUME NEW i \in 1..stateVersion', NEW j \in 1..stateVersion', i < j,
               undoOperations'[i].op = "add", undoOperations'[j].op = "forget"
        PROVE  undoOperations'[i].pod # undoOperations'[j].pod
    <3>1. i \in 1..stateVersion /\ undoOperations'[i] = undoOperations[i]
      BY <1>1, <2>1
    <3>2. CASE j = stateVersion + 1
      BY <1>1, <2>1, <3>1, <3>2
    <3>3. CASE j # stateVersion + 1
      <4>1. j \in 1..stateVersion /\ undoOperations'[j] = undoOperations[j]
        BY <1>1, <3>3
      <4> QED BY <2>1, <3>1, <4>1 DEF HoldInv, OrderInv
    <3> QED BY <3>2, <3>3
  <2> QED BY <2>1 DEF OrderInv
<1> QED BY <1>3, <1>4, <1>5 DEF HoldInv

\* Reserving: the pod was nowhere, and the log has no preemption of it.
LEMMA Hold_reserve ==
  ASSUME PodInv, HoldInv, StructInv', CarefulClient, reserve
  PROVE  HoldInv'
<1> DEFINE q == Head(call.todo)
           m == call.host
           e == Operation("forget", q, m)
<1>1. /\ registerOperation(e) /\ reserved' = Reserve(reserved, q, m) /\ pc = "reserve"
      /\ pc' = "schedule" /\ call.todo # <<>> /\ UNCHANGED <<nodes, nodePods, history>>
  BY DEF reserve, Scheduling
<1>2. /\ call \in Call /\ call.todo \in Seq(Pods) /\ m \in nodes /\ m \in Nodes
      /\ nodes \subseteq Nodes /\ stateVersion \in Nat /\ Len(history) = stateVersion + 1
      /\ reserved \in [Pods -> SUBSET Nodes] /\ nodePods \in View
      /\ \A n \in Nodes, p \in Pods : nodePods[n][p] \in Nat
  <2>1. TypeOK /\ ControlInv /\ LogInv
    BY DEF PodInv, StructInv
  <2>2. m \in nodes
    BY <1>1, <2>1 DEF ControlInv
  <2>3. Len(history) = stateVersion + 1
    BY <1>1, <2>1 DEF LogInv
  <2>4. call \in Call /\ call.todo \in Seq(Pods)
    BY <2>1 DEF TypeOK, Call
  <2>5. /\ nodes \subseteq Nodes /\ stateVersion \in Nat
        /\ reserved \in [Pods -> SUBSET Nodes] /\ nodePods \in View
    BY <2>1 DEF TypeOK
  <2>6. \A n \in Nodes, p \in Pods : nodePods[n][p] \in Nat
    BY <2>5 DEF View
  <2> QED BY <2>2, <2>3, <2>4, <2>5, <2>6
<1>3. q \in Pods /\ q = call.todo[1] /\ 1 \in 1..Len(call.todo)
  BY <1>1, <1>2, HeadTailProperties, LenProperties, EmptySeq
<1>4. e \in UndoOperation /\ e.node \in nodes /\ e.op = "forget" /\ e.pod = q
  BY <1>2, <1>3 DEF Operation, UndoOperation
<1>5. \A i \in 1..stateVersion : undoOperations[i].op = "add" => undoOperations[i].pod # q
  BY <1>1, <1>3 DEF PodInv, RollbackInv, NamesInv, CarefulClient
<1>6. \A n : ~Has("add", q, n, stateVersion)
  BY <1>5 DEF Has, Operation
<1>7. ViewAt(stateVersion) = RemovePod(nodePods, q, m) /\ CanRemove(nodePods, q, m)
  BY <1>1, <1>2 DEF PodInv, RollbackInv, ScheduleInv, TodoInv, ViewAt, CanRemove
<1> HIDE DEF q, m
<1>8. /\ nodePods[m][q] = 1 /\ \A n \in Nodes : n # m => nodePods[n][q] = 0
  <2>1. Unique(nodePods)
    BY ViewNow DEF PodInv, UniqueInv
  <2> QED BY <1>2, <1>3, <1>7, <2>1 DEF Unique, CanRemove
<1>9. \A n \in Nodes, p \in Pods :
        ViewAt(stateVersion)[n][p] = IF n = m /\ p = q THEN 0 ELSE nodePods[n][p]
  BY <1>2, <1>3, <1>7, <1>8, RemoveValue
<1>10. stateVersion' = stateVersion + 1
  BY <1>1 DEF registerOperation
<1>11. ViewAt(stateVersion)' = nodePods /\ ViewAt(0)' = ViewAt(0)
  <2>1. ViewAt(stateVersion)' = nodePods
    BY <1>1, <1>2, <1>10 DEF ViewAt
  <2>2. ViewAt(0)' = ViewAt(0)
    BY <1>1 DEF ViewAt
  <2> QED BY <2>1, <2>2
<1>12. \A op, p, n : Has(op, p, n, stateVersion)' <=>
                       Has(op, p, n, stateVersion) \/ e = Operation(op, p, n)
  BY <1>1, <1>4, HasPush DEF PodInv
<1>13. \A op, p, n : e = Operation(op, p, n) <=> op = "forget" /\ p = q /\ n = m
  BY DEF Operation
<1>14. ASSUME NEW p \in Pods, NEW n \in Nodes
       PROVE  /\ HeldAt(p, n, stateVersion)'
              /\ n \in reserved'[p] <=> n \in reserved[p] \/ e = Operation("forget", p, n)
  <2>1. HeldAt(p, n, stateVersion)
    BY <1>2 DEF HoldInv, HeldInv
  <2>2. ViewAt(0)[n][p] \in Nat
    <3>1. history \in Seq(View) /\ 1 \in 1..Len(history)
      BY <1>2 DEF PodInv, StructInv, TypeOK
    <3>2. ViewAt(0) \in View
      BY <1>2, <3>1 DEF ViewAt
    <3> QED BY <3>2 DEF View
  <2>3. HeldAt(p, n, stateVersion)'
    <3>1. CASE p = q /\ n = m
      BY <1>6, <1>8, <1>9, <1>11, <1>12, <1>13, <2>1, <2>2, <3>1 DEF HeldAt
    <3>2. CASE ~(p = q /\ n = m)
      BY <1>9, <1>11, <1>12, <1>13, <2>1, <3>2 DEF HeldAt
    <3> QED BY <3>1, <3>2
  <2>4. n \in reserved'[p] <=> n \in reserved[p] \/ (p = q /\ n = m)
    BY <1>1, <1>2, <1>3 DEF Reserve, q, m
  <2> QED BY <1>13, <2>3, <2>4
<1> HIDE DEF e
<1>15. [Next]_vars
  BY DEF Next, Step
<1> QED BY <1>1, <1>4, <1>5, <1>14, <1>15, HoldPush DEF q, m

\* Preempting keeps what is reserved: the pod was on the node it is removed from.
LEMMA Hold_removePodFromNode ==
  ASSUME PodInv, HoldInv, StructInv', removePodFromNode
  PROVE  HoldInv'
<1> DEFINE q == Head(call.todo)
           m == specNode[q]
           e == Operation("add", q, m)
<1>0. [Next]_vars /\ UNCHANGED reserved
  BY DEF Next, Step, removePodFromNode
<1>1. CASE UNCHANGED <<undoOperations, stateVersion>>
  BY <1>0, <1>1, HoldKept
<1>2. CASE ~UNCHANGED <<undoOperations, stateVersion>>
  <2>1. /\ q \in Pods /\ CanRemove(nodePods, q, m) /\ nodePods' = RemovePod(nodePods, q, m)
        /\ registerOperation(e) /\ e \in UndoOperation /\ m \in nodes /\ e.node \in nodes
        /\ history' = Append(history, nodePods) /\ pc = "preempt" /\ pc' = "preempt"
        /\ e.op = "add"
    BY <1>2, PreemptFacts DEF Operation
  <2>2. /\ stateVersion \in Nat /\ Len(history) = stateVersion /\ nodes \subseteq Nodes
        /\ history \in Seq(View) /\ nodePods \in View
        /\ \A n \in Nodes, p \in Pods : nodePods[n][p] \in Nat
    BY <2>1 DEF PodInv, StructInv, TypeOK, LogInv, View
  <2>3. stateVersion' = stateVersion + 1 /\ Len(history') = stateVersion + 1
    BY <2>1, <2>2 DEF registerOperation
  <2>4. ViewAt(stateVersion) = nodePods /\ ViewAt(stateVersion)' = nodePods'
    BY <2>2, <2>3 DEF ViewAt
  <2>5. ViewAt(0)' = ViewAt(0)
    BY <1>0, <2>2, <2>3, ViewKept
  <2>6. \A op, p, n : e = Operation(op, p, n) <=> op = "add" /\ p = q /\ n = m
    BY DEF Operation
  <2> HIDE DEF q, m, e
  <2>7. \A n \in Nodes, p \in Pods :
          nodePods'[n][p] = IF n = m /\ p = q THEN 0 ELSE nodePods[n][p]
    <3>1. Unique(nodePods)
      BY ViewNow DEF PodInv, UniqueInv
    <3>2. nodePods[m][q] = 1
      BY <2>1, <2>2, <3>1 DEF Unique, CanRemove
    <3> QED BY <2>1, <2>2, <3>2, RemoveValue
  <2>8. \A op, p, n : Has(op, p, n, stateVersion)' <=>
                        Has(op, p, n, stateVersion) \/ e = Operation(op, p, n)
    BY <2>1, HasPush DEF PodInv
  <2>9. ASSUME NEW p \in Pods, NEW n \in Nodes
        PROVE  /\ HeldAt(p, n, stateVersion)'
               /\ n \in reserved'[p] <=> n \in reserved[p] \/ e = Operation("forget", p, n)
    <3>1. HeldAt(p, n, stateVersion)
      BY <2>2 DEF HoldInv, HeldInv
    <3>2. CASE p = q /\ n = m
      <4>1. nodePods[n][p] > 0
        BY <2>1, <3>2 DEF CanRemove
      <4> QED BY <1>0, <2>4, <2>5, <2>6, <2>7, <2>8, <3>1, <3>2, <4>1 DEF HeldAt
    <3>3. CASE ~(p = q /\ n = m)
      BY <1>0, <2>4, <2>5, <2>6, <2>7, <2>8, <3>1, <3>3 DEF HeldAt
    <3> QED BY <3>2, <3>3
  <2> QED BY <1>0, <2>1, <2>9, HoldPush
<1> QED BY <1>1, <1>2

\* Putting back: the pod returns to the node its preemption is recorded for.
LEMMA Hold_addPodToNode ==
  ASSUME PodInv, HoldInv, StructInv', addPodToNode
  PROVE  HoldInv'
<1> DEFINE q == Last(call.todo)
           m == specNode[q]
           e == Operation("remove", q, m)
           h == handles[call.handle]
           j == Len(call.todo)
<1>0. [Next]_vars /\ UNCHANGED reserved
  BY DEF Next, Step, addPodToNode
<1>1. /\ q \in Pods /\ m \in nodes /\ q = h.pods[j] /\ m = h.from[j] /\ j \in 1..Len(h.pods)
      /\ ~On(nodePods, q) /\ pc = "unpreempt" /\ nodePods' = AddPod(nodePods, q, m)
      /\ history' = Append(history, nodePods) /\ registerOperation(e) /\ e \in UndoOperation
      /\ e.node \in nodes /\ e.op = "remove"
  BY PutBackFacts DEF Operation
<1>2. /\ stateVersion \in Nat /\ Len(history) = stateVersion /\ nodes \subseteq Nodes
      /\ history \in Seq(View) /\ nodePods \in View
      /\ \A n \in Nodes, p \in Pods : nodePods[n][p] \in Nat
  BY <1>1 DEF PodInv, StructInv, TypeOK, LogInv, View
<1>3. stateVersion' = stateVersion + 1 /\ Len(history') = stateVersion + 1
  BY <1>1, <1>2 DEF registerOperation
<1>4. ViewAt(stateVersion) = nodePods /\ ViewAt(stateVersion)' = nodePods'
  BY <1>2, <1>3 DEF ViewAt
<1>5. ViewAt(0)' = ViewAt(0)
  BY <1>0, <1>2, <1>3, ViewKept
<1>6. \A op, p, n : e = Operation(op, p, n) <=> op = "remove" /\ p = q /\ n = m
  BY DEF Operation
<1>7. Has("add", q, m, stateVersion)
  <2>1. call.handle \in 1..Len(handles) /\ Outstanding(call.handle)
    BY <1>1 DEF PodInv, UnpreemptInv
  <2>2. h \in Handle /\ Linked(h)
    <3>1. handles \in Seq(Handle)
      BY DEF PodInv, StructInv, TypeOK
    <3>2. h \in Handle
      BY <2>1, <3>1, ElementOfSeq
    <3>3. Linked(h)
      BY <2>1 DEF PodInv, LinkInv, Outstanding
    <3> QED BY <3>2, <3>3
  <2>3. Floor = stateVersion
    BY <1>1 DEF Floor
  <2> HIDE DEF h, q, m, j
  <2>4. /\ undoOperations[h.base + j] = Operation("add", q, m)
        /\ h.base + Len(h.pods) =< stateVersion /\ h.base \in Nat /\ Len(h.pods) \in Nat
    <3>1. undoOperations[h.base + j] = Operation("add", q, m)
      BY <1>1, <2>2 DEF Linked
    <3>2. h.base + Len(h.pods) =< stateVersion
      BY <2>2, <2>3 DEF Linked
    <3>3. h.base \in Nat /\ h.pods \in Seq(Pods)
      BY <2>2 DEF Handle
    <3> QED BY <3>1, <3>2, <3>3, LenProperties
  <2>5. h.base + j \in 1..stateVersion
    BY <1>1, <1>2, <2>4
  <2> QED BY <2>4, <2>5 DEF Has
<1> HIDE DEF q, m, e, h, j
<1>8. \A n \in Nodes, p \in Pods :
        nodePods'[n][p] = IF n = m /\ p = q THEN nodePods[n][p] + 1 ELSE nodePods[n][p]
  <2>1. nodePods \in View /\ q \in Pods /\ m \in nodes /\ nodes \subseteq Nodes
    BY <1>1, <1>2
  <2>2. \A n \in Nodes, p \in Pods :
          AddPod(nodePods, q, m)[n][p]
            = IF n = m /\ p = q THEN nodePods[n][p] + 1 ELSE nodePods[n][p]
    BY <2>1, AddValue
  <2>3. nodePods' = AddPod(nodePods, q, m)
    BY <1>1
  <2> QED BY <2>2, <2>3
<1>9. \A op, p, n : Has(op, p, n, stateVersion)' <=>
                      Has(op, p, n, stateVersion) \/ e = Operation(op, p, n)
  BY <1>1, HasPush DEF PodInv
<1>10. ASSUME NEW p \in Pods, NEW n \in Nodes
       PROVE  /\ HeldAt(p, n, stateVersion)'
              /\ n \in reserved'[p] <=> n \in reserved[p] \/ e = Operation("forget", p, n)
  <2>1. HeldAt(p, n, stateVersion)
    BY <1>2 DEF HoldInv, HeldInv
  <2>2. CASE p = q /\ n = m
    <3>1. nodePods[n][p] \in Nat
      BY <1>2
    <3> QED BY <1>0, <1>4, <1>5, <1>6, <1>7, <1>8, <1>9, <2>1, <2>2, <3>1 DEF HeldAt
  <2>3. CASE ~(p = q /\ n = m)
    BY <1>0, <1>4, <1>5, <1>6, <1>8, <1>9, <2>1, <2>3 DEF HeldAt
  <2> QED BY <2>2, <2>3
<1> QED BY <1>0, <1>1, <1>10, HoldPush

\* A pod that is in a view once is gone from the node it is removed from.
LEMMA RemovedIsGone ==
  ASSUME NEW v \in View, Unique(v), NEW p \in Pods, NEW n \in nodes, nodes \subseteq Nodes
  PROVE  RemovePod(v, p, n)[n][p] = 0
<1>1. n \in Nodes /\ v[n][p] \in Nat /\ v[n][p] =< 1
  BY DEF View, Unique
<1>2. CASE CanRemove(v, p, n)
  <2>1. RemovePod(v, p, n)[n][p] = v[n][p] - 1
    BY <1>1, <1>2, RemoveValue
  <2> QED BY <1>1, <1>2, <2>1 DEF CanRemove
<1>3. CASE ~CanRemove(v, p, n)
  BY <1>1, <1>3 DEF CanRemove, RemovePod
<1> QED BY <1>2, <1>3

\* A failed attempt: nothing was held for the pod on that node before it.
LEMMA Hold_unreserveAndForget ==
  ASSUME PodInv, HoldInv, StructInv', CarefulClient, unreserveAndForget
  PROVE  HoldInv'
<1> DEFINE q == Head(call.todo)
           m == call.host
<1>1. /\ \E r \in ReservedInPart : reserved' = Unreserve(r, q, m)
      /\ pc = "reserve" /\ call.todo # <<>> /\ UNCHANGED <<undoOperations, stateVersion>>
  BY DEF unreserveAndForget, Scheduling, undoLog
<1>2. TypeOK /\ ControlInv /\ LogInv
  BY DEF PodInv, StructInv
<1>3. /\ m \in nodes /\ Len(history) = stateVersion + 1 /\ nodes \subseteq Nodes
      /\ stateVersion \in Nat /\ reserved \in [Pods -> SUBSET Nodes] /\ nodePods \in View
  BY <1>1, <1>2 DEF ControlInv, LogInv, TypeOK
<1>4. q \in Pods /\ q = call.todo[1] /\ 1 \in 1..Len(call.todo)
  <2>1. call.todo \in Seq(Pods)
    BY <1>2 DEF TypeOK, Call
  <2> QED BY <1>1, <2>1, HeadTailProperties, LenProperties, EmptySeq
<1>5. ~Has("add", q, m, stateVersion)
  <2>1. \A i \in 1..stateVersion : undoOperations[i].op = "add" => undoOperations[i].pod # q
    BY <1>1, <1>4 DEF PodInv, RollbackInv, NamesInv, CarefulClient
  <2> QED BY <2>1 DEF Has, Operation
<1>6. ViewAt(stateVersion) = RemovePod(nodePods, q, m)
  BY <1>1, <1>3 DEF PodInv, RollbackInv, ViewAt
<1>7. Unique(nodePods)
  BY ViewNow DEF PodInv, UniqueInv
<1> HIDE DEF q, m
<1>8. ViewAt(stateVersion)[m][q] = 0
  BY <1>3, <1>4, <1>6, <1>7, RemovedIsGone
<1>9. m \notin reserved[q]
  <2>1. HeldAt(q, m, stateVersion)
    BY <1>3, <1>4 DEF HoldInv, HeldInv
  <2>2. ~Has("forget", q, m, stateVersion)
    BY <1>5, <1>8, <2>1 DEF HeldAt
  <2> QED BY <1>3, <1>4, <2>2 DEF HoldInv, ReservedInv
<1>10. UNCHANGED reserved
  <2>1. PICK r \in {reserved, Reserve(reserved, q, m)} : reserved' = Unreserve(r, q, m)
    BY <1>1 DEF ReservedInPart, q, m
  <2>2. CASE r = reserved
    BY <1>3, <1>4, <1>9, <2>1, <2>2 DEF Unreserve
  <2>3. CASE r = Reserve(reserved, q, m)
    BY <1>3, <1>4, <1>9, <2>1, <2>3 DEF Reserve, Unreserve
  <2> QED BY <2>1, <2>2, <2>3
<1>11. [Next]_vars
  BY DEF Next, Step
<1> QED BY <1>1, <1>10, <1>11, HoldKept

\* Undoing: the reservation given back is the one the entry stands for, since the
\* log has only one such entry.
LEMMA Hold_undo ==
  ASSUME PodInv, HoldInv, StructInv', undo
  PROVE  HoldInv'
<1> DEFINE k == stateVersion - 1
           e == undoOperations[stateVersion]
           q == e.pod
           m == e.node
<1>0. [Next]_vars
  BY DEF Next, Step
<1>1. /\ stateVersion \in Nat \ {0} /\ stateVersion' = k /\ k \in Nat
      /\ \A i \in 1..k : undoOperations'[i] = undoOperations[i]
      /\ Last(undoOperations) = e /\ e \in UndoOperation
      /\ Len(history) = stateVersion
  BY UndoFacts DEF PodInv
<1>2. /\ reserved' = IF e.op = "forget" THEN Unreserve(reserved, q, m) ELSE reserved
      /\ reserved \in [Pods -> SUBSET Nodes] /\ nodes \subseteq Nodes /\ nodePods \in View
  <2>1. reserved' = IF e.op = "forget" THEN Unreserve(reserved, q, m) ELSE reserved
    BY <1>1 DEF undo
  <2> QED BY <2>1 DEF PodInv, StructInv, TypeOK
<1>3. q \in Pods /\ m \in nodes /\ m \in Nodes /\ stateVersion \in 1..stateVersion
  BY <1>1, <1>2 DEF PodInv, StructInv, LogInv, UndoOperation
<1>4. ASSUME NEW l \in 0..k PROVE \A p \in Pods, n \in Nodes : HeldAt(p, n, l)'
  <2>1. l \in 0..stateVersion /\ l =< stateVersion' /\ 1..l \subseteq 1..k
    BY <1>1
  <2> QED BY <1>0, <1>1, <2>1, HeldKept DEF HoldInv
<1>5. HeldInv'
  BY <1>1, <1>4 DEF HeldInv
<1>6. OrderInv'
  <2>1. 1..k \subseteq 1..stateVersion
    BY <1>1
  <2> QED BY <1>1, <2>1 DEF HoldInv, OrderInv
<1>7. \A op, p, n : /\ Has(op, p, n, stateVersion)' <=> Has(op, p, n, k)
                    /\ Has(op, p, n, stateVersion) <=>
                         Has(op, p, n, k) \/ e = Operation(op, p, n)
  <2>1. 1..stateVersion = 1..k \cup {stateVersion}
    BY <1>1
  <2> QED BY <1>1, <2>1 DEF Has
<1>8. ASSUME e.op = "forget" PROVE ~Has("forget", q, m, k)
  <2>1. ~Has("add", q, m, k)
    <3>1. ASSUME NEW i \in 1..k PROVE undoOperations[i] # Operation("add", q, m)
      <4>1. i \in 1..stateVersion /\ i < stateVersion
        BY <1>1, <3>1
      <4> QED BY <1>3, <1>8, <4>1 DEF HoldInv, OrderInv, Operation
    <3> QED BY <3>1 DEF Has
  <2>2. ViewAt(stateVersion) = nodePods /\ ViewAt(k) = history[stateVersion]
    BY <1>1 DEF ViewAt
  <2>3. ViewAt(k) = RemovePod(nodePods, q, m)
    BY <1>3, <1>8, <2>2 DEF PodInv, RollbackInv, ChainInv, RevertInPlace
  <2>4. Unique(nodePods)
    BY ViewNow DEF PodInv, UniqueInv
  <2>5. ViewAt(k)[m][q] = 0
    BY <1>2, <1>3, <2>3, <2>4, RemovedIsGone
  <2>6. HeldAt(q, m, k)
    BY <1>1, <1>3 DEF HoldInv, HeldInv
  <2> QED BY <2>1, <2>5, <2>6 DEF HeldAt
<1>9. ASSUME NEW p \in Pods, NEW n \in Nodes
      PROVE  n \in reserved'[p] <=> Has("forget", p, n, stateVersion)'
  <2>1. n \in reserved[p] <=> Has("forget", p, n, k) \/ e = Operation("forget", p, n)
    BY <1>7 DEF HoldInv, ReservedInv
  <2>2. e = Operation("forget", p, n) <=> e.op = "forget" /\ p = q /\ n = m
    BY <1>1 DEF Operation, UndoOperation
  <2> HIDE DEF e, q, m, k
  <2>3. CASE e.op = "forget"
    <3>1. n \in reserved'[p] <=> n \in reserved[p] /\ ~(p = q /\ n = m)
      BY <1>2, <1>3, <2>3 DEF Unreserve
    <3> QED BY <1>7, <1>8, <2>1, <2>2, <2>3, <3>1
  <2>4. CASE e.op # "forget"
    BY <1>2, <1>7, <2>1, <2>2, <2>4
  <2> QED BY <2>3, <2>4
<1>10. ReservedInv'
  BY <1>9 DEF ReservedInv
<1> QED BY <1>5, <1>6, <1>10 DEF HoldInv

\* Only scheduling and undoing touch the reservations.
LEMMA ReservedStep ==
  ASSUME [Next]_vars
  PROVE  reserve \/ unreserveAndForget \/ undo \/ UNCHANGED reserved
<1>1. CASE Client
  BY <1>1 DEF Client, SchedulePods, SchedulePodsByTemplate, schedulePods, CanSchedulePod,
     PreemptPods, Unpreempt, TransactionBegin, TransactionKeep, TransactionRevert,
     ResetMutations, ReturnAtOnce
<1>2. CASE Step
  BY <1>2 DEF Step, scheduleNoProfile, scheduleFails, assume,
     scheduleDone, canScheduleDone, removePodFromNode, preemptDone, addPodToNode,
     unpreemptDone, restoreCall, restoreTransaction, restoreReset
<1>3. CASE UNCHANGED vars
  BY <1>3 DEF vars
<1> QED BY <1>1, <1>2, <1>3, Zenon DEF Next

\* Every step keeps reservations, pods and log together.
LEMMA HoldNext ==
  ASSUME CarefulClient, PodInv, HoldInv, [Next]_vars
  PROVE  HoldInv'
<1>1. StructInv'
  BY StructNext DEF PodInv
<1>2. CASE reserve
  BY <1>1, <1>2, Hold_reserve
<1>3. CASE unreserveAndForget
  BY <1>1, <1>3, Hold_unreserveAndForget
<1>4. CASE undo
  BY <1>1, <1>4, Hold_undo
<1>5. CASE removePodFromNode
  BY <1>1, <1>5, Hold_removePodFromNode
<1>6. CASE addPodToNode
  BY <1>1, <1>6, Hold_addPodToNode
<1>7. CASE UNCHANGED reserved /\ (Quiet \/ assume)
  <2>1. UNCHANGED <<undoOperations, stateVersion>>
    BY <1>7 DEF Quiet, assume, undoLog
  <2> QED BY <1>1, <1>7, <2>1, HoldKept
<1> QED BY <1>2, <1>3, <1>4, <1>5, <1>6, <1>7, StepKinds, ReservedStep

\* The creation has no reservations.
LEMMA HoldInit == Init => HoldInv
<1> SUFFICES ASSUME Init PROVE HoldInv
  OBVIOUS
<1>1. /\ stateVersion = 0 /\ reserved = [p \in Pods |-> {}]
  BY DEF Init
<1>2. \A op, p, n : ~Has(op, p, n, 0)
  BY DEF Has
<1>3. 0..stateVersion = {0} /\ 1..stateVersion = {}
  BY <1>1
<1>4. ReservedInv /\ OrderInv
  BY <1>1, <1>2, <1>3 DEF ReservedInv, OrderInv
<1>5. \A p \in Pods, n \in Nodes : ViewAt(0)[n][p] \in Nat
  <2>1. ViewAt(0) = nodePods /\ nodePods \in View
    BY StructInit DEF Init, ViewAt, StructInv, TypeOK
  <2> QED BY <2>1 DEF View
<1>6. HeldInv
  BY <1>2, <1>3, <1>5 DEF HeldInv, HeldAt
<1> QED BY <1>4, <1>6 DEF HoldInv

\* What the Reserve plugins hold follows the pods, whatever is scheduled, rejected,
\* preempted, put back and rolled back: every reservation belongs to a pod the simulation
\* put on that node, every such pod has its reservation, and Reserve plugins that
\* fail after others have reserved leave nothing behind (Unreserve at scheduler.go:205
\* and in the revert functions).
THEOREM ReservationsFollowPods ==
  ASSUME CarefulClient
  PROVE  Spec => []ReservationsMatchPods
<1>1. Init => PodInv /\ HoldInv
  BY PodInit, HoldInit
<1>2. PodInv /\ HoldInv /\ [Next]_vars => PodInv' /\ HoldInv'
  BY PodNext, HoldNext
<1>3. PodInv /\ HoldInv => ReservationsMatchPods
  <2> SUFFICES ASSUME PodInv, HoldInv, pc # "reserve", NEW p \in Pods, NEW n \in Nodes
               PROVE  n \in reserved[p] <=>
                        /\ points[1][n][p] = 0
                        /\ \/ nodePods[n][p] > 0
                           \/ \E i \in DOMAIN undoOperations :
                                undoOperations[i] = Operation("add", p, n)
    BY DEF ReservationsMatchPods
  <2>1. /\ stateVersion \in Nat /\ Len(history) = stateVersion
        /\ undoOperations \in Seq(UndoOperation) /\ stateVersion = Len(undoOperations)
    BY DEF PodInv, StructInv, TypeOK, LogInv
  <2>2. ViewAt(stateVersion) = nodePods /\ ViewAt(0) = points[1]
    BY <2>1 DEF ViewAt, PodInv, RollbackInv, OwedInv
  <2>3. DOMAIN undoOperations = 1..stateVersion
    BY <2>1, LenProperties
  <2>4. HeldAt(p, n, stateVersion)
    BY <2>1 DEF HoldInv, HeldInv
  <2>5. n \in reserved[p] <=> Has("forget", p, n, stateVersion)
    BY DEF HoldInv, ReservedInv
  <2> QED BY <2>2, <2>3, <2>4, <2>5 DEF HeldAt, Has
<1> QED BY <1>1, <1>2, <1>3, PTL DEF Spec

--------------------------------------------------------------------------------
(* Room on the nodes                                                       *)

\* No node is overcommitted when the snapshot is created.
StartsWithinCapacity ==
  \A n \in Nodes : Cardinality({p \in Pods : InitialNode[p] = n}) =< Capacity[n]

\* The pods on a node, and those that handles of a version may put back on it.
Occupied(view, n) == {p \in Pods : view[n][p] > 0}
Owed(hs, v, n) ==
  {p \in Pods : \E i \in 1..Len(hs) : \E j \in 1..Len(hs[i].pods) :
     /\ ~hs[i].undone /\ ~hs[i].reverted /\ hs[i].validPreemptionVersion = v
     /\ hs[i].pods[j] = p /\ hs[i].from[j] = n}

Fits(view) == \A n \in Nodes : Cardinality(Occupied(view, n)) =< Capacity[n]
Room(view, hs, v) ==
  \A n \in Nodes : Cardinality(Occupied(view, n) \cup Owed(hs, v, n)) =< Capacity[n]

\* Versions: a handle is at most as new as the snapshot and, in a transaction,
\* from before it or taken in it.
VersionInv ==
  /\ \A i \in 1..Len(handles) : ~handles[i].undone =>
       /\ handles[i].validPreemptionVersion =< stateVersionForPreemption
       /\ transactionInProgress =>
            \/ handles[i].validPreemptionVersion =< tx.initialStateVersionForPreemption
            \/ handles[i].base >= tx.initialStateVersion
  /\ transactionInProgress => tx.initialStateVersionForPreemption < stateVersionForPreemption

\* Every view a rollback can bring back fits; what the client saw last leaves
\* room for all the handles of the current version, and what it saw when the
\* transaction began for those of the version before it.
RoomInv ==
  /\ \A k \in 0..Len(history) : Fits(ViewAt(k))
  /\ Room(observed, handles, stateVersionForPreemption)
  /\ transactionInProgress => Room(points[2], handles, tx.initialStateVersionForPreemption)

\* What the running call has done so far to what the client saw: scheduling only
\* adds pods, Unpreempt only adds pods of a handle, PreemptPods only removes pods.
KeptInv ==
  /\ pc = "canSchedule" => observed = nodePods
  /\ pc \in {"schedule", "reserve"} =>
       \A k \in 0..Len(history), n \in Nodes :
         call.base =< k => Occupied(observed, n) \subseteq Occupied(ViewAt(k), n)
  /\ pc = "unpreempt" =>
       \A n \in Nodes :
         /\ Occupied(observed, n) \subseteq Occupied(nodePods, n)
         /\ Occupied(nodePods, n) \subseteq
              Occupied(observed, n) \cup Owed(handles, stateVersionForPreemption, n)
  /\ pc = "preempt" =>
       /\ \A n \in Nodes : Occupied(nodePods, n) \subseteq Occupied(observed, n)
       /\ \A j \in 1..Len(call.done) :
            call.done[j] \in Occupied(observed, undoOperations[call.base + j].node)

CapacityInv == PodInv /\ VersionInv /\ RoomInv /\ KeptInv

\* Fewer pods fit as well.
LEMMA FewerFit ==
  ASSUME NEW T \in SUBSET Pods, NEW S \in SUBSET T, NEW c \in Nat, Cardinality(T) =< c
  PROVE  Cardinality(S) =< c
<1>1. IsFiniteSet(T)
  BY ConstantsAssumption, FS_Subset
<1>2. IsFiniteSet(S) /\ Cardinality(S) =< Cardinality(T)
  BY <1>1, FS_Subset
<1>3. Cardinality(S) \in Nat /\ Cardinality(T) \in Nat
  BY <1>1, <1>2, FS_CardinalityType
<1> QED BY <1>2, <1>3

\* Without copies, the load the filters look at is the number of pods.
LEMMA LoadIsOccupied ==
  ASSUME nodePods \in View, Unique(nodePods), NEW n \in Nodes
  PROVE  Load(n) = Cardinality(Occupied(nodePods, n))
<1>1. nodePods[n] \in [Pods -> Nat] /\ DOMAIN nodePods[n] = Pods
  BY DEF View
<1>2. \A p \in Pods : nodePods[n][p] \in {0, 1}
  BY <1>1 DEF Unique
<1>3. SumFunctionOnSet(nodePods[n], Pods) = Cardinality({p \in Pods : nodePods[n][p] > 0})
  BY <1>2, ConstantsAssumption, SumOfOnes
<1> QED BY <1>1, <1>3 DEF Load, SumFunction, Occupied

\* A view with room for handles fits.
LEMMA RoomFits ==
  ASSUME NEW view, NEW hs, NEW v, Room(view, hs, v)
  PROVE  Fits(view)
<1> SUFFICES ASSUME NEW n \in Nodes PROVE Cardinality(Occupied(view, n)) =< Capacity[n]
  BY DEF Fits
<1> DEFINE T == Occupied(view, n) \cup Owed(hs, v, n)
<1>1. T \in SUBSET Pods /\ Occupied(view, n) \in SUBSET T
  BY DEF Occupied, Owed
<1>2. Cardinality(T) =< Capacity[n] /\ Capacity[n] \in Nat
  BY ConstantsAssumption DEF Room
<1> HIDE DEF T
<1> QED BY <1>1, <1>2, FewerFit

\* Room for fewer pods.
LEMMA RoomLess ==
  ASSUME NEW view, NEW hs, NEW v, NEW view2, NEW hs2, NEW w, Room(view, hs, v),
         \A n \in Nodes : Occupied(view2, n) \cup Owed(hs2, w, n) \subseteq
                          Occupied(view, n) \cup Owed(hs, v, n)
  PROVE  Room(view2, hs2, w)
<1> SUFFICES ASSUME NEW n \in Nodes
             PROVE  Cardinality(Occupied(view2, n) \cup Owed(hs2, w, n)) =< Capacity[n]
  BY DEF Room
<1> DEFINE T == Occupied(view, n) \cup Owed(hs, v, n)
           S == Occupied(view2, n) \cup Owed(hs2, w, n)
<1>1. T \in SUBSET Pods
  BY DEF Occupied, Owed
<1>2. Cardinality(T) =< Capacity[n] /\ Capacity[n] \in Nat /\ S \in SUBSET T
  BY ConstantsAssumption DEF Room
<1> HIDE DEF T
<1> QED BY <1>1, <1>2, FewerFit

\* A view that fits has room for handles that owe nothing.
LEMMA FitsRoom ==
  ASSUME NEW view, NEW hs, NEW v, Fits(view), \A n \in Nodes : Owed(hs, v, n) = {}
  PROVE  Room(view, hs, v)
<1>1. \A n \in Nodes : Occupied(view, n) \cup Owed(hs, v, n) = Occupied(view, n)
  OBVIOUS
<1> QED BY <1>1 DEF Room, Fits

\* What the client sees changes when a call that stays returns, when a
\* transaction begins or ends, and when all mutations are taken back.
LEMMA ObservedStep ==
  ASSUME PodInv, KeptInv, [Next]_vars
  PROVE  \/ UNCHANGED <<observed, handles, stateVersionForPreemption,
                        transactionInProgress, tx, points>>
         \/ /\ scheduleDone /\ pc = "schedule" /\ pc' = "idle" /\ observed' = nodePods
            /\ stateVersionForPreemption' = stateVersionForPreemption + 1
            /\ UNCHANGED <<handles, transactionInProgress, tx, points>>
         \/ preemptDone \/ unpreemptDone
         \/ TransactionBegin /\ pc = "idle" /\ ~transactionInProgress /\ transactionInProgress'
         \/ TransactionKeep \/ restoreTransaction \/ restoreReset
<1>1. CASE TransactionBegin
  BY <1>1 DEF TransactionBegin, ReturnAtOnce, transaction, Idle
<1>2. CASE \/ SchedulePods \/ SchedulePodsByTemplate \/ CanSchedulePod \/ PreemptPods
           \/ Unpreempt \/ TransactionRevert \/ ResetMutations
  <2>1. CASE SchedulePods \/ SchedulePodsByTemplate
    BY <2>1 DEF SchedulePods, SchedulePodsByTemplate, schedulePods, ReturnAtOnce, transaction
  <2>2. CASE CanSchedulePod
    BY <2>2 DEF CanSchedulePod, ReturnAtOnce, transaction
  <2>3. CASE PreemptPods \/ Unpreempt
    BY <2>3 DEF PreemptPods, Unpreempt, ReturnAtOnce, transaction
  <2>4. CASE TransactionRevert \/ ResetMutations
    BY <2>4 DEF TransactionRevert, ResetMutations, ReturnAtOnce, transaction
  <2> QED BY <1>2, <2>1, <2>2, <2>3, <2>4
<1>3. CASE \/ scheduleNoProfile \/ scheduleFails \/ assume \/ reserve \/ unreserveAndForget
           \/ removePodFromNode \/ addPodToNode \/ undo
  BY <1>3 DEF scheduleNoProfile, scheduleFails, assume, reserve, unreserveAndForget,
     removePodFromNode, addPodToNode, undo, transaction
<1>4. CASE canScheduleDone
  BY <1>4 DEF canScheduleDone, Return, KeptInv, transaction
<1>5. CASE restoreCall
  <2>1. /\ pc = "restore" /\ stateVersion = call.base /\ observed' = nodePods
        /\ call.fn \in {"SchedulePods", "PreemptPods"}
        /\ UNCHANGED <<handles, stateVersionForPreemption, transactionInProgress, tx, points>>
    BY <1>5 DEF restoreCall, Restored, Return, transaction
  <2>2. nodePods = observed
    BY <2>1, RestoredView DEF Promised, PodInv
  <2> QED BY <2>1, <2>2
<1>6. CASE scheduleDone
  <2>1. /\ pc = "schedule" /\ call.fn = "SchedulePods"
        /\ UNCHANGED <<handles, transactionInProgress, tx, points>>
        /\ \/ UNCHANGED <<observed, stateVersionForPreemption>>
           \/ /\ pc' = "idle" /\ observed' = nodePods
              /\ stateVersionForPreemption' =
                   stateVersionForPreemption + (IF stateVersion # call.base THEN 1 ELSE 0)
    BY <1>6 DEF scheduleDone, Return, transaction
  <2>2. stateVersion = call.base => nodePods = observed
    <3>1. Len(history) = stateVersion /\ ViewAt(call.base) = observed
      BY <2>1 DEF PodInv, StructInv, LogInv, RollbackInv, OwedInv
    <3> QED BY <3>1 DEF ViewAt
  <2>3. stateVersionForPreemption \in Nat
    BY DEF PodInv, StructInv, TypeOK
  <2> QED BY <1>6, <2>1, <2>2, <2>3
<1>7. CASE UNCHANGED vars
  BY <1>7 DEF vars, transaction
<1> QED BY <1>1, <1>2, <1>3, <1>4, <1>5, <1>6, <1>7 DEF Next, Client, Step

\* A step leaves nothing more owed, but to the handle PreemptPods returns.
LEMMA OwedStep ==
  ASSUME PodInv, StructInv', [Next]_vars, NEW v, NEW n, NEW p \in Owed(handles', v, n)
  PROVE  \/ p \in Owed(handles, v, n)
         \/ /\ preemptDone /\ v = stateVersionForPreemption
            /\ \E j \in 1..Len(call.done) :
                 p = call.done[j] /\ n = undoOperations[call.base + j].node
<1>1. p \in Pods
  BY DEF Owed
<1>2. PICK i \in 1..Len(handles') : \E j \in 1..Len(handles'[i].pods) :
        /\ ~handles'[i].undone /\ ~handles'[i].reverted
        /\ handles'[i].validPreemptionVersion = v
        /\ handles'[i].pods[j] = p /\ handles'[i].from[j] = n
  BY DEF Owed
<1> PICK j \in 1..Len(handles'[i].pods) : handles'[i].pods[j] = p /\ handles'[i].from[j] = n
  BY <1>2
<1>3. CASE i \in 1..Len(handles) /\ SameHandle(i)
  <2>1. /\ ~handles[i].undone /\ ~handles[i].reverted
        /\ handles[i].validPreemptionVersion = v /\ j \in 1..Len(handles[i].pods)
        /\ handles[i].pods[j] = p /\ handles[i].from[j] = n
    BY <1>2, <1>3 DEF SameHandle
  <2> QED BY <1>1, <1>3, <2>1 DEF Owed
<1>4. CASE preemptDone /\ handles'[i] = Unpreemption
  <2>1. /\ handles'[i].pods = call.done /\ handles'[i].base = call.base
        /\ handles'[i].validPreemptionVersion = stateVersionForPreemption
        /\ \A x \in 1..Len(call.done) :
             handles'[i].from[x] = undoOperations[call.base + x].node
    BY <1>4, NewHandle
  <2> QED BY <1>2, <1>4, <2>1
<1> QED BY <1>3, <1>4, HandlesStep DEF PodInv

\* The handle that Unpreempt runs on owes its pods.
LEMMA OwedNow ==
  ASSUME PodInv, pc = "unpreempt", NEW j \in 1..Len(handles[call.handle].pods)
  PROVE  LET h == handles[call.handle]
         IN  h.pods[j] \in Owed(handles, stateVersionForPreemption, h.from[j])
<1> DEFINE h == handles[call.handle]
<1>1. /\ call.handle \in 1..Len(handles) /\ Outstanding(call.handle)
      /\ h.validPreemptionVersion = stateVersionForPreemption
  BY DEF PodInv, UnpreemptInv
<1>2. h.pods[j] \in Pods
  <2>1. h \in Handle
    BY <1>1 DEF PodInv, StructInv, TypeOK
  <2> QED BY <2>1, ElementOfSeq DEF Handle
<1> QED BY <1>1, <1>2 DEF Owed, Outstanding, Live

\* Handles of a version that has not come yet owe nothing.
LEMMA NothingOwedLater ==
  ASSUME PodInv, VersionInv, NEW n
  PROVE  Owed(handles, stateVersionForPreemption + 1, n) = {}
<1>1. \A i \in 1..Len(handles) : handles[i].validPreemptionVersion \in Nat
  <2>1. \A i \in 1..Len(handles) : handles[i] \in Handle
    BY DEF PodInv, StructInv, TypeOK
  <2> QED BY <2>1 DEF Handle
<1>2. stateVersionForPreemption \in Nat
  BY DEF PodInv, StructInv, TypeOK
<1> QED BY <1>1, <1>2 DEF VersionInv, Owed

\* The version moves forwards, or back to where a transaction began, with the handles of
\* the transaction undone.
LEMMA VersionNext ==
  ASSUME PodInv, StructInv', VersionInv, KeptInv, [Next]_vars
  PROVE  VersionInv'
<1>1. /\ stateVersionForPreemption \in Nat /\ stateVersion \in Nat
      /\ tx.initialStateVersion \in Nat /\ tx.initialStateVersionForPreemption \in Nat
  BY DEF PodInv, StructInv, TypeOK
<1>2. \A i \in 1..Len(handles) : /\ handles[i].validPreemptionVersion \in Nat
                                 /\ handles[i].base \in Nat
  <2>1. \A i \in 1..Len(handles) : handles[i] \in Handle
    BY DEF PodInv, StructInv, TypeOK
  <2> QED BY <2>1 DEF Handle
<1>3. \A i \in 1..Len(handles') :
        \/ i \in 1..Len(handles) /\ SameHandle(i)
        \/ preemptDone /\ i = Len(handles) + 1 /\ handles'[i] = Unpreemption
  BY HandlesStep DEF PodInv
<1>4. CASE UNCHANGED <<handles, transactionInProgress, tx>>
           /\ stateVersionForPreemption' \in {stateVersionForPreemption, stateVersionForPreemption + 1}
  BY <1>1, <1>2, <1>4 DEF VersionInv
<1>5. CASE preemptDone
  <2>1. UNCHANGED <<stateVersionForPreemption, transactionInProgress, tx>> /\ pc = "preempt"
    BY <1>5 DEF preemptDone, transaction
  <2>2. ASSUME NEW i \in 1..Len(handles'), handles'[i] = Unpreemption
        PROVE  /\ handles'[i].validPreemptionVersion = stateVersionForPreemption
               /\ transactionInProgress => handles'[i].base >= tx.initialStateVersion
    <3>1. call.base \in Nat /\ (transactionInProgress => tx.initialStateVersion =< call.base)
      BY <2>1 DEF PodInv, StructInv, TypeOK, ControlInv, Call
    <3> QED BY <1>1, <1>5, <2>2, <3>1, NewHandle
  <2>3. ASSUME NEW i \in 1..Len(handles'), ~handles'[i].undone
        PROVE  /\ handles'[i].validPreemptionVersion =< stateVersionForPreemption
               /\ transactionInProgress =>
                    \/ handles'[i].validPreemptionVersion =< tx.initialStateVersionForPreemption
                    \/ handles'[i].base >= tx.initialStateVersion
    BY <1>1, <1>3, <2>2, <2>3 DEF VersionInv, SameHandle
  <2> QED BY <2>1, <2>3 DEF VersionInv
<1>6. CASE UNCHANGED <<stateVersionForPreemption, transactionInProgress, tx>> /\ ~preemptDone
  BY <1>3, <1>6 DEF VersionInv, SameHandle
<1>7. CASE ~transactionInProgress' /\ ~preemptDone
           /\ stateVersionForPreemption' \in {stateVersionForPreemption, stateVersionForPreemption + 1}
  BY <1>1, <1>2, <1>3, <1>7 DEF VersionInv, SameHandle
<1>8. CASE unpreemptDone
  BY <1>6, <1>8 DEF unpreemptDone, preemptDone, transaction
<1>9. CASE TransactionBegin /\ ~transactionInProgress /\ transactionInProgress'
  <2>1. /\ tx' = [initialStateVersion |-> stateVersion,
                  initialStateVersionForPreemption |-> stateVersionForPreemption]
        /\ stateVersionForPreemption' = stateVersionForPreemption + 1 /\ handles' = handles
    BY <1>9 DEF TransactionBegin, ReturnAtOnce, transaction
  <2> QED BY <1>1, <1>2, <2>1 DEF VersionInv
<1>10. CASE TransactionKeep
  BY <1>7, <1>10 DEF TransactionKeep, TransactionEnd, Idle, preemptDone
<1>11. CASE restoreTransaction
  <2>1. /\ pc = "restore" /\ call.fn = "Transaction" /\ MarkUndone
        /\ transactionInProgress' = FALSE
        /\ stateVersionForPreemption' = tx.initialStateVersionForPreemption
    BY <1>11 DEF restoreTransaction, Restored, TransactionEnd
  <2>2. transactionInProgress /\ call.base = tx.initialStateVersion
    BY <2>1 DEF PodInv, StructInv, ControlInv
  <2>3. ASSUME NEW i \in 1..Len(handles'), ~handles'[i].undone
        PROVE  handles'[i].validPreemptionVersion =< tx.initialStateVersionForPreemption
    <3>1. i \in 1..Len(handles) /\ SameHandle(i)
      BY <1>3, <2>1 DEF preemptDone
    <3>2. handles[i] \in Handle /\ DOMAIN handles = 1..Len(handles)
      BY <3>1, LenProperties DEF PodInv, StructInv, TypeOK
    <3>3. handles'[i] = [handles[i] EXCEPT !.undone = @ \/ handles[i].base >= call.base]
      BY <2>1, <3>1, <3>2 DEF MarkUndone
    <3>4. ~(handles[i].base >= call.base) /\ ~handles[i].undone
      BY <2>3, <3>2, <3>3 DEF Handle
    <3> QED BY <2>2, <3>1, <3>4 DEF VersionInv, SameHandle
  <2> QED BY <2>1, <2>3 DEF VersionInv
<1>12. CASE restoreReset
  <2>1. /\ stateVersionForPreemption' = stateVersionForPreemption + 1
        /\ UNCHANGED <<transactionInProgress, tx>> /\ pc = "restore"
        /\ call.fn = "ResetMutations"
    BY <1>12 DEF restoreReset, Restored, transaction
  <2>2. ~transactionInProgress
    BY <2>1 DEF PodInv, StructInv, ControlInv
  <2> QED BY <1>7, <2>1, <2>2 DEF preemptDone
<1> QED BY <1>4, <1>5, <1>8, <1>9, <1>10, <1>11, <1>12, ObservedStep

\* Calls that add pods end the version or use room that is owed to them, and a
\* preemption leaves the room its handle may need.
LEMMA RoomNext ==
  ASSUME CapacityInv, StructInv', [Next]_vars
  PROVE  /\ Room(observed', handles', stateVersionForPreemption')
         /\ transactionInProgress' =>
              Room(points'[2], handles', tx'.initialStateVersionForPreemption)
<1>1. /\ PodInv /\ Room(observed, handles, stateVersionForPreemption)
      /\ stateVersionForPreemption \in Nat
  BY DEF CapacityInv, PodInv, StructInv, TypeOK, RoomInv
<1>2. Fits(nodePods) /\ Fits(observed)
  <2>1. Fits(nodePods)
    BY <1>1, ViewNow DEF CapacityInv, RoomInv, PodInv
  <2> QED BY <1>1, <2>1, RoomFits
<1>3. ~preemptDone => \A v, n : Owed(handles', v, n) \subseteq Owed(handles, v, n)
  BY <1>1, OwedStep
<1>4. \A n : Owed(handles, stateVersionForPreemption + 1, n) = {}
  BY <1>1, NothingOwedLater DEF CapacityInv
<1>5. ASSUME ~preemptDone, stateVersionForPreemption' = stateVersionForPreemption + 1,
             observed' \in {observed, nodePods}
      PROVE  Room(observed', handles', stateVersionForPreemption')
  <2>1. Fits(observed') /\ \A n : Owed(handles', stateVersionForPreemption', n) = {}
    BY <1>2, <1>3, <1>4, <1>5
  <2> QED BY <2>1, FitsRoom
<1>6. ASSUME ~preemptDone, UNCHANGED <<points, tx, transactionInProgress>>, transactionInProgress'
      PROVE  Room(points'[2], handles', tx'.initialStateVersionForPreemption)
  <2>1. Room(points[2], handles, tx.initialStateVersionForPreemption)
    BY <1>6 DEF CapacityInv, RoomInv
  <2>2. \A n \in Nodes :
          Occupied(points[2], n) \cup Owed(handles', tx.initialStateVersionForPreemption, n)
            \subseteq Occupied(points[2], n) \cup Owed(handles, tx.initialStateVersionForPreemption, n)
    BY <1>3, <1>6
  <2>3. Room(points[2], handles', tx.initialStateVersionForPreemption)
    BY <2>1, <2>2, RoomLess
  <2> QED BY <1>6, <2>3
<1>7. CASE UNCHANGED <<observed, handles, stateVersionForPreemption,
                       transactionInProgress, tx, points>>
  BY <1>1, <1>7 DEF CapacityInv, RoomInv
<1>8. CASE /\ scheduleDone /\ pc = "schedule" /\ observed' = nodePods
           /\ stateVersionForPreemption' = stateVersionForPreemption + 1
           /\ UNCHANGED <<handles, transactionInProgress, tx, points>>
  BY <1>5, <1>6, <1>8 DEF preemptDone
<1>9. CASE preemptDone
  <2>1. /\ pc = "preempt" /\ observed' = nodePods
        /\ UNCHANGED <<transactionInProgress, tx, points, stateVersionForPreemption>>
    BY <1>9 DEF preemptDone, Return, transaction
  <2>2. /\ \A n \in Nodes : Occupied(nodePods, n) \subseteq Occupied(observed, n)
        /\ \A j \in 1..Len(call.done) :
             call.done[j] \in Occupied(observed, undoOperations[call.base + j].node)
    BY <2>1 DEF CapacityInv, KeptInv
  <2>3. \A n \in Nodes :
          Owed(handles', stateVersionForPreemption, n)
            \subseteq Occupied(observed, n) \cup Owed(handles, stateVersionForPreemption, n)
    BY <1>1, <2>2, OwedStep
  <2>4. Room(nodePods, handles', stateVersionForPreemption)
    BY <1>1, <2>2, <2>3, RoomLess
  <2>5. ASSUME transactionInProgress
        PROVE  Room(points[2], handles', tx.initialStateVersionForPreemption)
    <3>1. tx.initialStateVersionForPreemption # stateVersionForPreemption
      BY <1>1, <2>5 DEF CapacityInv, VersionInv, PodInv, StructInv, TypeOK
    <3>2. \A n : Owed(handles', tx.initialStateVersionForPreemption, n)
                   \subseteq Owed(handles, tx.initialStateVersionForPreemption, n)
      BY <1>1, <3>1, OwedStep
    <3>3. Room(points[2], handles, tx.initialStateVersionForPreemption)
      BY <2>5 DEF CapacityInv, RoomInv
    <3> QED BY <3>2, <3>3, RoomLess
  <2> QED BY <2>1, <2>4, <2>5
<1>10. CASE unpreemptDone
  <2>1. /\ pc = "unpreempt" /\ observed' = nodePods /\ ~preemptDone
        /\ UNCHANGED <<transactionInProgress, tx, points, stateVersionForPreemption>>
    BY <1>10 DEF unpreemptDone, preemptDone, Return, transaction
  <2>2. \A n \in Nodes :
          Occupied(nodePods, n)
            \subseteq Occupied(observed, n) \cup Owed(handles, stateVersionForPreemption, n)
    BY <2>1 DEF CapacityInv, KeptInv
  <2>3. \A n \in Nodes :
          Occupied(nodePods, n) \cup Owed(handles', stateVersionForPreemption, n)
            \subseteq Occupied(observed, n) \cup Owed(handles, stateVersionForPreemption, n)
    BY <1>3, <2>1, <2>2
  <2>4. Room(nodePods, handles', stateVersionForPreemption)
    BY <1>1, <2>3, RoomLess
  <2> QED BY <1>6, <2>1, <2>4
<1>11. CASE TransactionBegin /\ pc = "idle" /\ ~transactionInProgress /\ transactionInProgress'
  <2>1. /\ tx'.initialStateVersionForPreemption = stateVersionForPreemption
        /\ stateVersionForPreemption' = stateVersionForPreemption + 1
        /\ points' = Append(points, nodePods) /\ UNCHANGED <<handles, observed>>
    <3>1. /\ tx' = [initialStateVersion |-> stateVersion,
                    initialStateVersionForPreemption |-> stateVersionForPreemption]
          /\ stateVersionForPreemption' = stateVersionForPreemption + 1
          /\ points' = Append(points, nodePods) /\ UNCHANGED <<handles, observed>>
      BY <1>11 DEF TransactionBegin, ReturnAtOnce, transaction
    <3> QED BY <3>1
  <2>2. observed = nodePods /\ points \in Seq(View) /\ Len(points) = 1 /\ nodePods \in View
    BY <1>1, <1>11 DEF PodInv, StructInv, TypeOK, ControlInv, RollbackInv, OwedInv
  <2>3. points'[2] = observed
    <3>1. Append(points, nodePods)[Len(points) + 1] = nodePods
      BY <2>2, AppendProperties
    <3> QED BY <2>1, <2>2, <3>1
  <2>4. Room(points'[2], handles', tx'.initialStateVersionForPreemption)
    BY <1>1, <2>1, <2>3
  <2> QED BY <1>5, <1>11, <2>1, <2>4 DEF preemptDone
<1>12. CASE TransactionKeep
  <2>1. /\ transactionInProgress' = FALSE /\ ~preemptDone /\ UNCHANGED <<observed, handles>>
        /\ stateVersionForPreemption' \in {stateVersionForPreemption, stateVersionForPreemption + 1}
    BY <1>12 DEF TransactionKeep, TransactionEnd, Idle, preemptDone
  <2> QED BY <1>1, <1>5, <2>1
<1>13. CASE restoreTransaction
  <2>1. /\ pc = "restore" /\ call.fn = "Transaction" /\ stateVersion = call.base
        /\ transactionInProgress' = FALSE /\ observed' = nodePods
        /\ stateVersionForPreemption' = tx.initialStateVersionForPreemption
    BY <1>13 DEF restoreTransaction, Restored, TransactionEnd, Return
  <2>2. nodePods = points[2] /\ transactionInProgress
    BY <1>1, <2>1, RestoredView DEF Promised, PodInv, StructInv, ControlInv
  <2>3. Room(nodePods, handles, tx.initialStateVersionForPreemption)
    BY <2>2 DEF CapacityInv, RoomInv
  <2>4. \A n \in Nodes :
          Occupied(nodePods, n) \cup Owed(handles', tx.initialStateVersionForPreemption, n)
            \subseteq Occupied(nodePods, n) \cup Owed(handles, tx.initialStateVersionForPreemption, n)
    BY <1>3, <2>1 DEF preemptDone
  <2> QED BY <2>1, <2>3, <2>4, RoomLess
<1>14. CASE restoreReset
  <2>1. /\ pc = "restore" /\ observed' = nodePods
        /\ stateVersionForPreemption' = stateVersionForPreemption + 1
        /\ UNCHANGED <<transactionInProgress, tx, points>>
    BY <1>14 DEF restoreReset, Restored, Return, transaction
  <2> QED BY <1>5, <1>6, <2>1 DEF preemptDone
<1> HIDE <1>5, <1>6
<1> QED BY <1>1, <1>7, <1>8, <1>9, <1>10, <1>11, <1>12, <1>13, <1>14, ObservedStep DEF CapacityInv

\* How the three mutations change the pods on a node.
LEMMA OccupiedAdd ==
  ASSUME NEW view \in View, NEW p \in Pods, NEW n \in nodes, nodes \subseteq Nodes, NEW m \in Nodes
  PROVE  /\ m = n => Occupied(AddPod(view, p, n), m) = Occupied(view, m) \cup {p}
         /\ m # n => Occupied(AddPod(view, p, n), m) = Occupied(view, m)
<1> DEFINE w == AddPod(view, p, n)
<1>1. \A q \in Pods : w[m][q] = IF m = n /\ q = p THEN view[m][q] + 1 ELSE view[m][q]
  BY AddValue
<1>2. \A q \in Pods : view[m][q] \in Nat
  BY DEF View
<1> HIDE DEF w
<1> QED BY <1>1, <1>2 DEF Occupied, w

\* Removing a pod adds none.
LEMMA OccupiedRemove ==
  ASSUME NEW view \in View, NEW p \in Pods, NEW n, CanRemove(view, p, n), nodes \subseteq Nodes,
         NEW m \in Nodes
  PROVE  Occupied(RemovePod(view, p, n), m) \subseteq Occupied(view, m)
<1> DEFINE w == RemovePod(view, p, n)
<1>1. \A q \in Pods : w[m][q] = IF m = n /\ q = p THEN view[m][q] - 1 ELSE view[m][q]
  BY RemoveValue
<1>2. \A q \in Pods : view[m][q] \in Nat
  BY DEF View
<1> HIDE DEF w
<1> QED BY <1>1, <1>2 DEF Occupied, w

\* A scheduling call that goes on keeps what the client saw and its own base.
LEMMA SchedulingGoesOn ==
  ASSUME PodInv, [Next]_vars, pc' \in {"schedule", "reserve"}
  PROVE  \/ pc \in {"schedule", "reserve"} /\ observed' = observed /\ call'.base = call.base
         \/ /\ pc = "idle" /\ call'.base = stateVersion
            /\ UNCHANGED <<nodePods, history, observed>>
<1>1. call \in Call
  BY DEF PodInv, StructInv, TypeOK
<1>2. CASE SchedulePods \/ SchedulePodsByTemplate
  <2>1. /\ pc = "idle" /\ UNCHANGED <<nodePods, history, observed>>
        /\ \E b, d, s : call' = [NoCall EXCEPT !.fn = "SchedulePods", !.base = stateVersion,
                                    !.todo = b, !.dryRun = d, !.stopOnFailure = s]
    <3>1. CASE SchedulePods
      BY <3>1 DEF SchedulePods, schedulePods, ReturnAtOnce, Enter, Idle
    <3>2. CASE SchedulePodsByTemplate
      BY <3>2 DEF SchedulePodsByTemplate, schedulePods, ReturnAtOnce, Enter, Idle
    <3> QED BY <1>2, <3>1, <3>2
  <2> QED BY <2>1 DEF NoCall
<1>3. CASE assume \/ scheduleNoProfile
  BY <1>1, <1>3 DEF assume, scheduleNoProfile, Scheduling, Call
<1>4. CASE scheduleFails \/ reserve \/ unreserveAndForget
  <2>1. /\ pc \in {"schedule", "reserve"} /\ observed' = observed
        /\ \E st, n : Record(st, n)
    BY <1>4 DEF scheduleFails, reserve, unreserveAndForget, Scheduling
  <2>2. call'.base = call.base
    BY <1>1, <2>1 DEF Record, Call
  <2> QED BY <2>1, <2>2
<1>5. CASE scheduleDone
  BY <1>5 DEF scheduleDone, Return
<1>6. CASE UNCHANGED vars
  BY <1>6 DEF vars
<1> QED BY <1>2, <1>3, <1>4, <1>5, <1>6, StepsTo, StepsFrom

\* Until it is rolled back, a SchedulePods call only adds pods.
LEMMA KeptWhileScheduling ==
  ASSUME CapacityInv, CarefulClient, StructInv', [Next]_vars, pc' \in {"schedule", "reserve"},
         NEW k \in 0..Len(history'), NEW n \in Nodes, call'.base =< k
  PROVE  Occupied(observed', n) \subseteq Occupied(ViewAt(k)', n)
<1>1. /\ PodInv /\ StructInv /\ nodePods \in View /\ nodes \subseteq Nodes
      /\ Len(history) \in Nat /\ stateVersion \in Nat /\ call.base \in Nat
      /\ call.base =< stateVersion /\ stateVersion =< Len(history)
      /\ ViewAt(Len(history)) = nodePods
  BY ViewNow DEF CapacityInv, PodInv, StructInv, TypeOK, ControlInv, Call
<1>2. CASE pc \in {"schedule", "reserve"} /\ observed' = observed /\ call'.base = call.base
  <2>1. CASE k \in 0..Len(history) /\ ViewAt(k)' = ViewAt(k)
    BY <1>2, <2>1 DEF CapacityInv, KeptInv
  <2>2. CASE assume /\ ViewAt(k)' = nodePods'
    <3>1. Occupied(observed, n) \subseteq Occupied(nodePods, n)
      BY <1>1, <1>2 DEF CapacityInv, KeptInv
    <3>2. PICK m \in nodes : /\ nodePods' = AddPod(nodePods, Head(call.todo), m)
                             /\ Head(call.todo) \in Pods
      BY <1>1, <2>2, AssumeFacts
    <3>3. Occupied(nodePods, n) \subseteq Occupied(nodePods', n)
      BY <1>1, <3>2, OccupiedAdd
    <3> QED BY <1>2, <2>2, <3>1, <3>3
  <2>3. CASE removePodFromNode \/ addPodToNode
    BY <1>2, <2>3 DEF removePodFromNode, addPodToNode
  <2> QED BY <1>1, <2>1, <2>2, <2>3, ViewsStep DEF PodInv
<1>3. CASE pc = "idle" /\ call'.base = stateVersion /\ UNCHANGED <<nodePods, history, observed>>
  <2>1. observed = nodePods /\ Len(history) = stateVersion
    BY <1>1, <1>3 DEF PodInv, StructInv, LogInv, RollbackInv, OwedInv
  <2>2. k = Len(history')
    BY <1>1, <1>3, <2>1
  <2>3. ViewAt(k)' = nodePods'
    BY <2>2 DEF ViewAt
  <2> QED BY <1>3, <2>1, <2>3
<1> QED BY <1>1, <1>2, <1>3, SchedulingGoesOn

\* Unpreempt adds only pods that the handles of the current version are owed.
LEMMA KeptWhileUnpreempting ==
  ASSUME CapacityInv, CarefulClient, StructInv', [Next]_vars, pc' = "unpreempt", NEW m \in Nodes
  PROVE  /\ Occupied(observed', m) \subseteq Occupied(nodePods', m)
         /\ Occupied(nodePods', m) \subseteq
              Occupied(observed', m) \cup Owed(handles', stateVersionForPreemption', m)
<1>1. PodInv /\ nodePods \in View /\ nodes \subseteq Nodes
  BY DEF CapacityInv, PodInv, StructInv, TypeOK
<1>2. CASE UNCHANGED vars
  BY <1>2 DEF vars, CapacityInv, KeptInv
<1>3. CASE Unpreempt
  <2>1. pc = "idle" /\ UNCHANGED <<nodePods, observed>>
    BY <1>3 DEF Unpreempt, ReturnAtOnce, Enter, Idle
  <2>2. observed = nodePods
    BY <1>1, <2>1 DEF PodInv, RollbackInv, OwedInv
  <2> QED BY <2>1, <2>2
<1>4. CASE addPodToNode
  <2> DEFINE p == Last(call.todo)
             n == specNode[p]
             h == handles[call.handle]
             j == Len(call.todo)
  <2>1. /\ p \in Pods /\ n \in nodes /\ p = h.pods[j] /\ n = h.from[j] /\ j \in 1..Len(h.pods)
        /\ pc = "unpreempt" /\ nodePods' = AddPod(nodePods, p, n)
        /\ UNCHANGED <<handles, stateVersionForPreemption, observed>>
    BY <1>1, <1>4, PutBackFacts
  <2>2. p \in Owed(handles, stateVersionForPreemption, n)
    BY <1>1, <2>1, OwedNow
  <2>3. /\ Occupied(observed, m) \subseteq Occupied(nodePods, m)
        /\ Occupied(nodePods, m) \subseteq
             Occupied(observed, m) \cup Owed(handles, stateVersionForPreemption, m)
    BY <2>1 DEF CapacityInv, KeptInv
  <2> HIDE DEF p, n, h, j
  <2>4. /\ m = n => Occupied(nodePods', m) = Occupied(nodePods, m) \cup {p}
        /\ m # n => Occupied(nodePods', m) = Occupied(nodePods, m)
    BY <1>1, <2>1, OccupiedAdd
  <2>5. CASE m = n
    BY <2>1, <2>2, <2>3, <2>4, <2>5
  <2>6. CASE m # n
    BY <2>1, <2>3, <2>4, <2>6
  <2> QED BY <2>5, <2>6
<1>5. CASE unpreemptDone
  BY <1>5 DEF unpreemptDone, Return
<1> QED BY <1>2, <1>3, <1>4, <1>5, StepsTo, StepsFrom

\* PreemptPods only removes pods, and they were where its entries say.
LEMMA KeptWhilePreempting ==
  ASSUME CapacityInv, StructInv', [Next]_vars, pc' = "preempt"
  PROVE  /\ \A m \in Nodes : Occupied(nodePods', m) \subseteq Occupied(observed', m)
         /\ \A j \in 1..Len(call'.done) :
              call'.done[j] \in Occupied(observed', undoOperations'[call'.base + j].node)
<1>1. PodInv /\ StructInv /\ nodePods \in View /\ nodes \subseteq Nodes
  BY DEF CapacityInv, PodInv, StructInv, TypeOK
<1>2. CASE UNCHANGED vars
  BY <1>2 DEF vars, undoLog, CapacityInv, KeptInv
<1>3. CASE PreemptPods
  <2>1. /\ pc = "idle" /\ UNCHANGED <<nodePods, observed>>
        /\ \E b, s : call' = [NoCall EXCEPT !.fn = "PreemptPods", !.base = s, !.todo = b]
    BY <1>3 DEF PreemptPods, ReturnAtOnce, Enter, Idle
  <2>2. observed = nodePods
    BY <1>1, <2>1 DEF PodInv, RollbackInv, OwedInv
  <2>3. call'.done = <<>>
    BY <2>1 DEF NoCall
  <2> QED BY <2>1, <2>2, <2>3
<1>4. CASE removePodFromNode
  <2> DEFINE p == Head(call.todo)
             n == specNode[p]
             e == Operation("add", p, n)
  <2>1. /\ p \in Pods /\ pc = "preempt" /\ observed' = observed /\ call'.base = call.base
        /\ CanRemove(nodePods, p, n) /\ nodePods' = RemovePod(nodePods, p, n)
        /\ call'.done = Append(call.done, p) /\ registerOperation(e)
        /\ e \in UndoOperation /\ n \in nodes
    BY <1>1, <1>4, PreemptFacts
  <2>2. \A m \in Nodes : Occupied(nodePods, m) \subseteq Occupied(observed, m)
    BY <2>1 DEF CapacityInv, KeptInv
  <2>3. \A j \in 1..Len(call.done) :
          call.done[j] \in Occupied(observed, undoOperations[call.base + j].node)
    BY <2>1 DEF CapacityInv, KeptInv
  <2>4. /\ call.done \in Seq(Pods) /\ Len(call.done) \in Nat /\ call.base \in Nat
        /\ stateVersion = call.base + Len(call.done)
    BY <1>1, <2>1, LenProperties DEF StructInv, TypeOK, Call, ControlInv
  <2>5. e.node = n
    BY DEF Operation
  <2> HIDE DEF p, n, e
  <2>6. /\ undoOperations'[stateVersion + 1] = e
        /\ \A i \in 1..stateVersion : undoOperations'[i] = undoOperations[i]
    BY <1>1, <2>1, <2>5, RegisterFacts
  <2>7. p \in Occupied(observed, n)
    <3>1. p \in Occupied(nodePods, n) /\ n \in Nodes
      BY <1>1, <2>1 DEF Occupied, CanRemove
    <3> QED BY <2>2, <3>1
  <2>8. \A m \in Nodes : Occupied(nodePods', m) \subseteq Occupied(observed', m)
    BY <1>1, <2>1, <2>2, OccupiedRemove
  <2>9. ASSUME NEW j \in 1..Len(call'.done)
        PROVE  call'.done[j] \in Occupied(observed', undoOperations'[call'.base + j].node)
    <3>1. /\ Len(call'.done) = Len(call.done) + 1 /\ call'.done[Len(call.done) + 1] = p
          /\ \A i \in 1..Len(call.done) : call'.done[i] = call.done[i]
      BY <2>1, <2>4, AppendProperties
    <3>2. CASE j = Len(call.done) + 1
      <4>1. call'.base + j = stateVersion + 1
        BY <2>1, <2>4, <3>2
      <4> QED BY <2>1, <2>5, <2>6, <2>7, <3>1, <3>2, <4>1
    <3>3. CASE j \in 1..Len(call.done)
      <4>1. call.base + j \in 1..stateVersion
        BY <2>4, <3>3
      <4>2. undoOperations'[call'.base + j] = undoOperations[call.base + j]
        BY <2>1, <2>6, <4>1
      <4> QED BY <2>1, <2>3, <3>1, <3>3, <4>2
    <3> QED BY <2>4, <3>1, <3>2, <3>3
  <2> QED BY <2>8, <2>9
<1>5. CASE preemptDone
  BY <1>5 DEF preemptDone, Return
<1> QED BY <1>2, <1>3, <1>4, <1>5, StepsTo, StepsFrom

\* Every step preserves what the running call has kept.
LEMMA KeptNext ==
  ASSUME CapacityInv, CarefulClient, StructInv', [Next]_vars
  PROVE  KeptInv'
<1>1. ASSUME pc' = "canSchedule" PROVE observed' = nodePods'
  <2>1. CASE CanSchedulePod
    <3>1. pc = "idle" /\ UNCHANGED <<nodePods, observed>>
      BY <1>1, <2>1 DEF CanSchedulePod, ReturnAtOnce, Enter, Idle
    <3> QED BY <3>1 DEF CapacityInv, PodInv, RollbackInv, OwedInv
  <2>2. CASE UNCHANGED vars
    BY <1>1, <2>2 DEF vars, CapacityInv, KeptInv
  <2>3. CASE canScheduleDone
    BY <1>1, <2>3 DEF canScheduleDone, Return
  <2> QED BY <1>1, <2>1, <2>2, <2>3, StepsTo, StepsFrom
<1>2. ASSUME pc' \in {"schedule", "reserve"}, NEW k \in 0..Len(history'), NEW n \in Nodes,
             call'.base =< k
      PROVE  Occupied(observed', n) \subseteq Occupied(ViewAt(k)', n)
  BY <1>2, KeptWhileScheduling
<1>3. ASSUME pc' = "unpreempt", NEW n \in Nodes
      PROVE  /\ Occupied(observed', n) \subseteq Occupied(nodePods', n)
             /\ Occupied(nodePods', n) \subseteq
                  Occupied(observed', n) \cup Owed(handles', stateVersionForPreemption', n)
  BY <1>3, KeptWhileUnpreempting
<1>4. ASSUME pc' = "preempt"
      PROVE  /\ \A n \in Nodes : Occupied(nodePods', n) \subseteq Occupied(observed', n)
             /\ \A j \in 1..Len(call'.done) :
                  call'.done[j] \in Occupied(observed', undoOperations'[call'.base + j].node)
  BY <1>4, KeptWhilePreempting
<1> QED BY <1>1, <1>2, <1>3, <1>4 DEF KeptInv

\* A pod is assumed only where the filters see room.
LEMMA FitsNext ==
  ASSUME CapacityInv, CarefulClient, StructInv', KeptInv', [Next]_vars,
         Room(observed', handles', stateVersionForPreemption'), NEW k \in 0..Len(history')
  PROVE  Fits(ViewAt(k)')
<1>1. /\ PodInv /\ StructInv /\ nodePods \in View /\ nodes \subseteq Nodes /\ Fits(nodePods)
  BY ViewNow DEF CapacityInv, PodInv, StructInv, TypeOK, RoomInv
<1>2. CASE assume
  <2>1. PICK n \in nodes : /\ n \in Feasible(Head(call.todo)) /\ Head(call.todo) \in Pods
                           /\ nodePods' = AddPod(nodePods, Head(call.todo), n)
    BY <1>1, <1>2, AssumeFacts
  <2>2. Unique(nodePods)
    BY <1>1, ViewNow DEF PodInv, UniqueInv
  <2>3. Cardinality(Occupied(nodePods, n)) < Capacity[n] /\ n \in Nodes
    <3>1. Load(n) < Capacity[n]
      BY <2>1 DEF Feasible
    <3> QED BY <1>1, <2>2, <3>1, LoadIsOccupied
  <2>4. ASSUME NEW m \in Nodes PROVE Cardinality(Occupied(nodePods', m)) =< Capacity[m]
    <3> DEFINE O == Occupied(nodePods, m)
    <3>1. /\ m = n => Occupied(nodePods', m) = O \cup {Head(call.todo)}
          /\ m # n => Occupied(nodePods', m) = O
      BY <1>1, <2>1, OccupiedAdd
    <3>2. IsFiniteSet(O) /\ Cardinality(O) \in Nat /\ Cardinality(O) =< Capacity[m]
      <4>1. O \subseteq Pods
        BY DEF Occupied
      <4> QED BY <1>1, <4>1, ConstantsAssumption, FS_Subset, FS_CardinalityType DEF Fits
    <3>3. Capacity[m] \in Nat
      BY ConstantsAssumption
    <3> HIDE DEF O
    <3>4. CASE m = n
      <4>1. Cardinality(O \cup {Head(call.todo)}) \in {Cardinality(O), Cardinality(O) + 1}
        BY <3>2, FS_AddElement
      <4>2. Cardinality(O) < Capacity[m]
        BY <2>3, <3>4 DEF O
      <4>3. Cardinality(Occupied(nodePods', m)) \in {Cardinality(O), Cardinality(O) + 1}
        <5> DEFINE U == O \cup {Head(call.todo)}
        <5>1. Occupied(nodePods', m) = U
          BY <3>1, <3>4
        <5>2. Cardinality(U) \in {Cardinality(O), Cardinality(O) + 1}
          BY <4>1
        <5> HIDE DEF U
        <5> QED BY <5>1, <5>2
      <4> QED BY <3>2, <3>3, <4>2, <4>3
    <3>5. CASE m # n
      BY <3>1, <3>2, <3>5
    <3> QED BY <3>4, <3>5
  <2> QED BY <1>1, <1>2, <2>4, ViewsStep DEF Fits, PodInv, CapacityInv, RoomInv
<1>3. CASE removePodFromNode /\ ViewAt(k)' = nodePods' /\ history' # history
  <2> DEFINE p == Head(call.todo)
             n == specNode[p]
  <2>1. p \in Pods /\ CanRemove(nodePods, p, n) /\ nodePods' = RemovePod(nodePods, p, n)
    BY <1>1, <1>3, PreemptFacts
  <2>2. ASSUME NEW m \in Nodes PROVE Cardinality(Occupied(nodePods', m)) =< Capacity[m]
    <3>1. Occupied(nodePods', m) \subseteq Occupied(nodePods, m)
      BY <1>1, <2>1, OccupiedRemove
    <3>2. Cardinality(Occupied(nodePods, m)) =< Capacity[m] /\ Capacity[m] \in Nat
      BY <1>1, ConstantsAssumption DEF Fits
    <3>3. Occupied(nodePods, m) \subseteq Pods
      BY DEF Occupied
    <3> QED BY <3>1, <3>2, <3>3, FewerFit
  <2> QED BY <1>3, <2>2 DEF Fits
<1>4. CASE addPodToNode /\ ViewAt(k)' = nodePods'
  <2>1. pc' = "unpreempt"
    BY <1>1, <1>4, PutBackFacts
  <2>2. ASSUME NEW m \in Nodes PROVE Cardinality(Occupied(nodePods', m)) =< Capacity[m]
    <3> DEFINE T == Occupied(observed', m) \cup Owed(handles', stateVersionForPreemption', m)
    <3>1. Occupied(nodePods', m) \subseteq T
      BY <2>1 DEF KeptInv
    <3>2. Cardinality(T) =< Capacity[m] /\ Capacity[m] \in Nat
      BY ConstantsAssumption DEF Room
    <3>3. T \subseteq Pods
      BY DEF Occupied, Owed
    <3> HIDE DEF T
    <3> QED BY <3>1, <3>2, <3>3, FewerFit
  <2> QED BY <1>4, <2>2 DEF Fits
<1>5. CASE k \in 0..Len(history) /\ ViewAt(k)' = ViewAt(k)
  BY <1>5 DEF CapacityInv, RoomInv
<1> QED BY <1>1, <1>2, <1>3, <1>4, <1>5, ViewsStep DEF PodInv

\* A snapshot that starts within capacity has room, and owes nothing.
LEMMA CapacityInit ==
  ASSUME StartsWithinCapacity, Init
  PROVE  CapacityInv
<1>1. PodInv
  BY PodInit
<1>2. /\ pc = "idle" /\ history = <<>> /\ handles = <<>> /\ observed = nodePods
      /\ transactionInProgress = FALSE
      /\ nodePods = [n \in Nodes |-> [p \in Pods |-> IF InitialNode[p] = n THEN 1 ELSE 0]]
  BY DEF Init
<1>3. Len(history) = 0 /\ Len(handles) = 0
  BY <1>2
<1>4. ViewAt(0) = nodePods
  BY <1>3 DEF ViewAt
<1>5. Fits(nodePods)
  <2>1. ASSUME NEW n \in Nodes PROVE Occupied(nodePods, n) = {p \in Pods : InitialNode[p] = n}
    BY <1>2 DEF Occupied
  <2> QED BY <2>1 DEF Fits, StartsWithinCapacity
<1>6. Room(observed, handles, stateVersionForPreemption)
  <2>1. \A n \in Nodes : Owed(handles, stateVersionForPreemption, n) = {}
    BY <1>3 DEF Owed
  <2> QED BY <1>2, <1>5, <2>1, FitsRoom
<1>7. VersionInv /\ RoomInv
  BY <1>2, <1>3, <1>4, <1>5, <1>6 DEF VersionInv, RoomInv
<1>8. KeptInv
  BY <1>2 DEF KeptInv
<1> QED BY <1>1, <1>7, <1>8 DEF CapacityInv

\* Every step preserves the invariant of room.
LEMMA CapacityNext ==
  ASSUME CarefulClient, CapacityInv, [Next]_vars
  PROVE  CapacityInv'
<1>1. PodInv /\ VersionInv /\ KeptInv
  BY DEF CapacityInv
<1>2. PodInv' /\ StructInv'
  <2>1. PodInv'
    BY <1>1, PodNext
  <2> QED BY <2>1 DEF PodInv
<1>3. VersionInv'
  BY <1>1, <1>2, VersionNext
<1>4. KeptInv'
  BY <1>2, KeptNext
<1>5. /\ Room(observed', handles', stateVersionForPreemption')
      /\ transactionInProgress' =>
           Room(points'[2], handles', tx'.initialStateVersionForPreemption)
  BY <1>2, RoomNext
<1>6. \A k \in 0..Len(history') : Fits(ViewAt(k)')
  BY <1>2, <1>4, <1>5, FitsNext
<1>7. RoomInv'
  BY <1>5, <1>6 DEF RoomInv
<1> QED BY <1>2, <1>3, <1>4, <1>7 DEF CapacityInv

\* There is room in every reachable state for all that can be put back.
THEOREM CapacityInvHolds ==
  ASSUME CarefulClient, StartsWithinCapacity
  PROVE  Spec => []CapacityInv
<1>1. Init => CapacityInv
  BY CapacityInit
<1>2. CapacityInv /\ [Next]_vars => CapacityInv'
  BY CapacityNext
<1> QED BY <1>1, <1>2, PTL DEF Spec

\* A node never holds more pods than the filters let in, if none did at the start:
\* in particular Unpreempt never puts pods back into room that has been given to
\* others, because every call that gives room away ends the handles' version.
THEOREM NodesStayWithinCapacity ==
  ASSUME CarefulClient, StartsWithinCapacity
  PROVE  Spec => []NoOvercommit
<1>1. CapacityInv => NoOvercommit
  <2> SUFFICES ASSUME CapacityInv, NEW n \in Nodes PROVE Load(n) =< Capacity[n]
    BY DEF NoOvercommit
  <2>1. PodInv /\ StructInv /\ nodePods \in View
    BY DEF CapacityInv, PodInv, StructInv, TypeOK
  <2>2. Unique(nodePods)
    BY <2>1, ViewNow DEF PodInv, UniqueInv
  <2>3. Fits(nodePods)
    BY <2>1, ViewNow DEF CapacityInv, RoomInv
  <2> QED BY <2>1, <2>2, <2>3, LoadIsOccupied DEF Fits
<1> QED BY <1>1, CapacityInvHolds, PTL

--------------------------------------------------------------------------------
(* The store the client sees                                               *)

\* The points of the store.
StorePoints == [i \in DOMAIN points |-> NodeOf(points[i])]

\* In a view without copies a pod is assigned to the node that holds it.
LEMMA NodeOfFacts ==
  ASSUME NEW view \in View
  PROVE  /\ NodeOf(view) \in [Pods -> Nodes \cup {NoNode}]
         /\ \A p \in Pods : NodeOf(view)[p] # NoNode => view[NodeOf(view)[p]][p] > 0
         /\ Unique(view) => \A p \in Pods, n \in Nodes : view[n][p] > 0 <=> NodeOf(view)[p] = n
<1> DEFINE At(p) == \E n \in Nodes : view[n][p] > 0
           c(p) == CHOOSE n \in Nodes : view[n][p] > 0
<1>1. \A p \in Pods : At(p) => c(p) \in Nodes /\ view[c(p)][p] > 0
  OBVIOUS
<1>2. \A p \in Pods : NodeOf(view)[p] = IF At(p) THEN c(p) ELSE NoNode
  BY DEF NodeOf
<1>3. DOMAIN NodeOf(view) = Pods /\ NodeOf(view) = [p \in Pods |-> NodeOf(view)[p]]
  BY DEF NodeOf
<1> HIDE DEF c
<1>4. \A p \in Pods : NodeOf(view)[p] \in Nodes \cup {NoNode}
  BY <1>1, <1>2
<1>5. NodeOf(view) \in [Pods -> Nodes \cup {NoNode}]
  BY <1>3, <1>4
<1>6. ASSUME Unique(view), NEW p \in Pods, NEW n \in Nodes
      PROVE  view[n][p] > 0 <=> NodeOf(view)[p] = n
  BY <1>1, <1>2, <1>6, ConstantsAssumption DEF Unique
<1>7. \A p \in Pods : NodeOf(view)[p] # NoNode => view[NodeOf(view)[p]][p] > 0
  BY <1>1, <1>2
<1> QED BY <1>5, <1>6, <1>7

\* The view after the first mutations that stay has no copies.
LEMMA UniqueViews ==
  ASSUME PodInv, NEW k \in 0..stateVersion
  PROVE  Unique(ViewAt(k))
<1>1. k \in 0..Len(history)
  BY ViewNow DEF PodInv
<1> QED BY <1>1 DEF PodInv, UniqueInv

\* The store counts as the snapshot does.
LEMMA SameCount == \A S : Store!Cardinality(S) = Cardinality(S)
BY DEF Store!Cardinality, Cardinality

\* Pods are added to what the client saw: the store's Place.
LEMMA PlaceStep ==
  ASSUME CapacityInv, observed' = nodePods, points' = points,
         \A n \in Nodes : Occupied(observed, n) \subseteq Occupied(nodePods, n)
  PROVE  Store!Place
<1>1. PodInv /\ StructInv /\ nodePods \in View /\ observed \in View
  BY DEF CapacityInv, PodInv, StructInv, TypeOK
<1>2. Unique(nodePods)
  BY <1>1, ViewNow DEF PodInv, UniqueInv
<1>3. Fits(nodePods)
  BY <1>1, ViewNow DEF CapacityInv, RoomInv
<1>4. NodeOf(nodePods) \in [Pods -> Nodes \cup {NoNode}]
  BY <1>1, NodeOfFacts
<1>5. ASSUME NEW p \in Pods, NodeOf(observed)[p] # NoNode
      PROVE  NodeOf(nodePods)[p] = NodeOf(observed)[p]
  <2>1. NodeOf(observed)[p] \in Nodes /\ observed[NodeOf(observed)[p]][p] > 0
    BY <1>1, <1>5, NodeOfFacts
  <2>2. nodePods[NodeOf(observed)[p]][p] > 0
    BY <2>1 DEF Occupied
  <2> QED BY <1>1, <1>2, <2>1, <2>2, NodeOfFacts
<1>6. ASSUME NEW n \in Nodes
      PROVE  Cardinality({p \in Pods : NodeOf(nodePods)[p] = n}) =< Capacity[n]
  <2>1. {p \in Pods : NodeOf(nodePods)[p] = n} = Occupied(nodePods, n)
    BY <1>1, <1>2, NodeOfFacts DEF Occupied
  <2> QED BY <1>3, <2>1 DEF Fits
<1>7. NodeOf(observed)' = NodeOf(nodePods)
  BY DEF NodeOf
<1> QED BY <1>4, <1>5, <1>6, <1>7, SameCount DEF Store!Place, Store!Assignment

\* Pods are removed from what the client saw: the store's Remove.
LEMMA RemoveStep ==
  ASSUME CapacityInv, observed' = nodePods, points' = points, Unique(observed),
         \A n \in Nodes : Occupied(nodePods, n) \subseteq Occupied(observed, n)
  PROVE  Store!Remove
<1>1. nodePods \in View /\ observed \in View
  BY DEF CapacityInv, PodInv, StructInv, TypeOK
<1>2. NodeOf(nodePods) \in [Pods -> Nodes \cup {NoNode}]
  BY <1>1, NodeOfFacts
<1>3. ASSUME NEW p \in Pods PROVE NodeOf(nodePods)[p] \in {NodeOf(observed)[p], NoNode}
  <2> SUFFICES ASSUME NodeOf(nodePods)[p] # NoNode
               PROVE  NodeOf(nodePods)[p] = NodeOf(observed)[p]
    OBVIOUS
  <2>1. NodeOf(nodePods)[p] \in Nodes /\ nodePods[NodeOf(nodePods)[p]][p] > 0
    BY <1>1, NodeOfFacts
  <2>2. observed[NodeOf(nodePods)[p]][p] > 0
    BY <2>1 DEF Occupied
  <2> QED BY <1>1, <2>1, <2>2, NodeOfFacts
<1>4. NodeOf(observed)' = NodeOf(nodePods)
  BY DEF NodeOf
<1> QED BY <1>2, <1>3, <1>4 DEF Store!Remove, Store!Assignment

\* The transaction's start is the second point, and the creation the first.
LEMMA PointsFacts ==
  ASSUME StructInv
  PROVE  /\ DOMAIN points = 1..Len(points) /\ 1 \in DOMAIN points
         /\ Len(points) = (IF transactionInProgress THEN 2 ELSE 1)
         /\ Len(StorePoints) = Len(points) /\ DOMAIN StorePoints = DOMAIN points
         /\ \A i \in DOMAIN points : StorePoints[i] = NodeOf(points[i])
<1>1. points \in Seq(View) /\ Len(points) = (IF transactionInProgress THEN 2 ELSE 1)
  BY DEF StructInv, TypeOK, ControlInv
<1>2. DOMAIN points = 1..Len(points) /\ Len(points) \in Nat
  BY <1>1, LenProperties
<1>3. StorePoints = [i \in 1..Len(points) |-> NodeOf(points[i])]
  BY <1>2 DEF StorePoints
<1> QED BY <1>1, <1>2, <1>3

\* A new snapshot is a new store.
LEMMA StoreInit == Init => Store!Init
<1> SUFFICES ASSUME Init PROVE Store!Init
  OBVIOUS
<1>1. observed = nodePods /\ points = <<nodePods>> /\ nodePods \in View
  BY StructInit DEF Init, StructInv, TypeOK
<1>2. NodeOf(observed) \in [Pods -> Nodes \cup {NoNode}]
  BY <1>1, NodeOfFacts
<1>3. [i \in DOMAIN points |-> NodeOf(points[i])] = <<NodeOf(observed)>>
  BY <1>1
<1> QED BY <1>2, <1>3 DEF Store!Init, Store!Assignment

\* Ending a transaction drops its point.
LEMMA PointsEnd ==
  ASSUME StructInv, points' = <<points[1]>>
  PROVE  StorePoints' = <<StorePoints[1]>>
<1>1. StorePoints[1] = NodeOf(points[1])
  BY PointsFacts
<1>2. [i \in DOMAIN <<points[1]>> |-> NodeOf(<<points[1]>>[i])] = <<NodeOf(points[1])>>
  OBVIOUS
<1>3. StorePoints' = [i \in DOMAIN points' |-> NodeOf(points'[i])]
  BY DEF StorePoints, NodeOf
<1> QED BY <1>1, <1>2, <1>3

\* Every step of the snapshot is a step of the store, or none.
LEMMA StoreStep ==
  ASSUME CapacityInv, [Next]_vars
  PROVE  Store!Next \/ UNCHANGED <<observed, points>>
<1>1. /\ PodInv /\ StructInv /\ RollbackInv /\ nodePods \in View /\ observed \in View
      /\ points \in Seq(View) /\ stateVersion \in Nat
  BY DEF CapacityInv, PodInv, StructInv, TypeOK
<1>2. CASE scheduleDone /\ pc = "schedule" /\ observed' = nodePods /\ points' = points
  <2>1. /\ Len(history) \in 0..Len(history) /\ ViewAt(Len(history)) = nodePods
        /\ call.base =< Len(history)
    <3>1. call.base =< stateVersion /\ call.base \in Nat
      BY <1>1 DEF StructInv, ControlInv, TypeOK, Call
    <3> QED BY <1>1, <3>1, ViewNow
  <2>2. \A n \in Nodes : Occupied(observed, n) \subseteq Occupied(nodePods, n)
    BY <1>2, <2>1 DEF CapacityInv, KeptInv
  <2>3. Store!Place
    BY <1>2, <2>2, PlaceStep
  <2> QED BY <2>3 DEF Store!Next
<1>3. CASE unpreemptDone
  <2>1. pc = "unpreempt" /\ observed' = nodePods /\ points' = points
    BY <1>3 DEF unpreemptDone, Return
  <2>2. \A n \in Nodes : Occupied(observed, n) \subseteq Occupied(nodePods, n)
    BY <2>1 DEF CapacityInv, KeptInv
  <2>3. Store!Place
    BY <2>1, <2>2, PlaceStep
  <2> QED BY <2>3 DEF Store!Next
<1>4. CASE preemptDone
  <2>1. pc = "preempt" /\ observed' = nodePods /\ points' = points
    BY <1>4 DEF preemptDone, Return
  <2>2. \A n \in Nodes : Occupied(nodePods, n) \subseteq Occupied(observed, n)
    BY <2>1 DEF CapacityInv, KeptInv
  <2>3. Unique(observed)
    <3>1. call.base \in 0..stateVersion /\ ViewAt(call.base) = observed
      BY <1>1, <2>1 DEF StructInv, TypeOK, ControlInv, Call, RollbackInv, OwedInv
    <3> QED BY <1>1, <3>1, UniqueViews
  <2>4. Store!Remove
    BY <2>1, <2>2, <2>3, RemoveStep
  <2> QED BY <2>4 DEF Store!Next
<1>5. CASE TransactionBegin /\ pc = "idle" /\ ~transactionInProgress /\ transactionInProgress'
  <2>1. points' = Append(points, nodePods) /\ observed' = observed
    BY <1>5 DEF TransactionBegin, ReturnAtOnce, transaction
  <2>2. observed = nodePods /\ Len(points) = 1 /\ Len(StorePoints) = 1
    BY <1>1, <1>5, PointsFacts DEF RollbackInv, OwedInv
  <2>3. points = <<points[1]>> /\ points' = <<points[1], observed>>
    <3>1. points = <<points[1]>>
      BY <1>1, <2>2
    <3>2. ASSUME NEW a, NEW b PROVE Append(<<a>>, b) = <<a, b>>
      <4>1. <<a>> \in Seq({a, b}) /\ Len(<<a>>) = 1 /\ <<a>>[1] = a
        OBVIOUS
      <4>2. /\ Append(<<a>>, b) \in Seq({a, b}) /\ Len(Append(<<a>>, b)) = 2
            /\ Append(<<a>>, b)[1] = a /\ Append(<<a>>, b)[2] = b
        BY <4>1, AppendProperties
      <4> DEFINE s == Append(<<a>>, b)
      <4> HIDE DEF s
      <4>3. s \in Seq({a, b}) /\ Len(s) = 2 /\ s[1] = a /\ s[2] = b
        BY <4>2 DEF s
      <4>4. s = <<a, b>>
        BY <4>3
      <4> QED BY <4>4 DEF s
    <3> QED BY <2>1, <2>2, <3>1, <3>2, Zenon
  <2>4. StorePoints = <<NodeOf(points[1])>>
    BY <2>3 DEF StorePoints
  <2>5. StorePoints' = <<NodeOf(points[1]), NodeOf(observed)>>
    <3>1. StorePoints' = [i \in DOMAIN points' |-> NodeOf(points'[i])]
      BY DEF StorePoints, NodeOf
    <3>2. [i \in DOMAIN <<points[1], observed>> |-> NodeOf(<<points[1], observed>>[i])]
            = <<NodeOf(points[1]), NodeOf(observed)>>
      OBVIOUS
    <3> QED BY <2>3, <3>1, <3>2
  <2>6. StorePoints' = Append(StorePoints, NodeOf(observed))
    BY <2>4, <2>5
  <2>7. NodeOf(observed)' = NodeOf(observed)
    BY <2>1 DEF NodeOf
  <2>8. Store!Begin
    BY <2>2, <2>6, <2>7 DEF Store!Begin, Store!InTransaction, StorePoints
  <2> QED BY <2>8 DEF Store!Next
<1>6. CASE TransactionKeep
  <2>1. transactionInProgress /\ points' = <<points[1]>> /\ observed' = observed
    BY <1>6 DEF TransactionKeep, TransactionEnd
  <2>2. Len(StorePoints) = 2 /\ StorePoints' = <<StorePoints[1]>>
    BY <1>1, <2>1, PointsFacts, PointsEnd
  <2>3. NodeOf(observed)' = NodeOf(observed)
    BY <2>1 DEF NodeOf
  <2>4. Store!Keep
    BY <2>2, <2>3 DEF Store!Keep, Store!InTransaction, StorePoints
  <2> QED BY <2>4 DEF Store!Next
<1>7. CASE restoreTransaction
  <2>1. /\ pc = "restore" /\ stateVersion = call.base /\ call.fn = "Transaction"
        /\ points' = <<points[1]>> /\ observed' = nodePods
    BY <1>7 DEF restoreTransaction, TransactionEnd, Restored, Return
  <2>2. transactionInProgress /\ nodePods = points[2]
    BY <1>1, <2>1, RestoredView DEF Promised, StructInv, ControlInv
  <2>3. /\ Len(StorePoints) = 2 /\ StorePoints' = <<StorePoints[1]>>
        /\ StorePoints[2] = NodeOf(points[2])
    BY <1>1, <2>1, <2>2, PointsFacts, PointsEnd
  <2>4. NodeOf(observed)' = NodeOf(nodePods)
    BY <2>1 DEF NodeOf
  <2>5. NodeOf(observed)' = StorePoints[2]
    BY <2>2, <2>3, <2>4
  <2>6. Store!Revert
    BY <2>3, <2>5 DEF Store!Revert, Store!InTransaction, StorePoints
  <2> QED BY <2>6 DEF Store!Next
<1>8. CASE restoreReset
  <2>1. /\ pc = "restore" /\ stateVersion = call.base /\ call.fn = "ResetMutations"
        /\ points' = points /\ observed' = nodePods
    BY <1>8 DEF restoreReset, Restored, Return
  <2>2. ~transactionInProgress /\ nodePods = points[1]
    BY <1>1, <2>1, RestoredView DEF Promised, StructInv, ControlInv
  <2>3. Len(StorePoints) = 1 /\ StorePoints[1] = NodeOf(points[1])
    BY <1>1, <2>2, PointsFacts
  <2>4. NodeOf(observed)' = NodeOf(nodePods)
    BY <2>1 DEF NodeOf
  <2>5. NodeOf(observed)' = StorePoints[1]
    BY <2>2, <2>3, <2>4
  <2>6. StorePoints' = StorePoints
    BY <2>1 DEF StorePoints, NodeOf
  <2>7. Store!Reset
    BY <2>3, <2>5, <2>6 DEF Store!Reset, Store!InTransaction, StorePoints
  <2> QED BY <2>7 DEF Store!Next
<1> QED BY <1>1, <1>2, <1>3, <1>4, <1>5, <1>6, <1>7, <1>8, ObservedStep DEF CapacityInv

\* The snapshot implements the store: to the client every call is one atomic
\* change of the assignment of pods to nodes, dry runs and failed calls are none,
\* and reverting a transaction or resetting goes back exactly.
THEOREM SnapshotImplementsStore ==
  ASSUME CarefulClient, StartsWithinCapacity
  PROVE  Spec => ImplementsStore
<1>1. Init => Store!Init
  BY StoreInit
<1>2. CapacityInv /\ [Next]_vars => [Store!Next]_(Store!store)
  <2> SUFFICES ASSUME CapacityInv, [Next]_vars, UNCHANGED <<observed, points>>
               PROVE  UNCHANGED Store!store
    BY StoreStep
  <2> QED BY DEF Store!store, NodeOf
<1> QED BY <1>1, <1>2, CapacityInvHolds, PTL DEF Spec, ImplementsStore, Store!Spec

--------------------------------------------------------------------------------
(* The snapshot of a cluster state                                         *)

\* While SyncSnapshot runs, all mutations are being taken back, or have been.
SyncingInv ==
  syncing => \/ Idle /\ stateVersion = 0 /\ ~transactionInProgress
             \/ pc = "restore" /\ call.fn = "ResetMutations"

\* Below all mutations the snapshot is what the cache held at the last sync, and
\* on the nodes that have not changed since, what it holds now.
StateInv ==
  /\ StateTypeOK /\ StructInv /\ RollbackInv
  /\ SyncingInv
  /\ points[1] = synced
  /\ IncrementalExact

\* The calls of the snapshot leave the view at its creation alone.
LEMMA FirstPointStays ==
  ASSUME StructInv, [Next]_vars
  PROVE  points'[1] = points[1]
<1>1. CASE UNCHANGED points
  BY <1>1
<1>2. CASE TransactionBegin
  <2>1. points' = points \/ points' = Append(points, nodePods)
    BY <1>2 DEF TransactionBegin, ReturnAtOnce
  <2>2. points \in Seq(View) /\ nodePods \in View /\ 1 \in 1..Len(points)
    BY DEF StructInv, TypeOK, ControlInv
  <2> QED BY <2>1, <2>2, AppendProperties
<1>3. CASE TransactionKeep \/ restoreTransaction
  <2>1. points' = <<points[1]>>
    BY <1>3 DEF TransactionKeep, restoreTransaction, TransactionEnd
  <2> QED BY <2>1
<1> QED BY <1>1, <1>2, <1>3, TransactionStep

\* Without mutations and calls the snapshot is the view at its creation.
LEMMA UnmutatedView ==
  ASSUME StructInv, RollbackInv, Idle, stateVersion = 0
  PROVE  /\ nodePods = points[1] /\ history = <<>> /\ undoOperations = <<>>
         /\ call.fn = "none" /\ call.base = 0
<1>1. /\ Len(history) = 0 /\ Len(undoOperations) = 0 /\ history \in Seq(View)
      /\ undoOperations \in Seq(UndoOperation) /\ call.fn = "none"
      /\ call.base \in Nat /\ call.base =< 0
  BY DEF StructInv, TypeOK, ControlInv, LogInv, Idle, Call
<1>2. history = <<>> /\ undoOperations = <<>> /\ call.base = 0
  BY <1>1, EmptySeq
<1>3. ViewAt(0) = points[1] /\ ViewAt(0) = nodePods
  BY <1>1 DEF RollbackInv, OwedInv, ViewAt
<1> QED BY <1>1, <1>2, <1>3

\* A new cluster state has copied the whole cache.
LEMMA StateInitial == StateInit => StateInv
<1> SUFFICES ASSUME StateInit PROVE StateInv
  OBVIOUS
<1>1. Init /\ StructInv /\ RollbackInv /\ TypeOK
  BY StructInit, RollbackInit DEF StateInit, StructInv
<1>2. /\ cacheNodes = SnapshotNodes /\ cachePods = InitialNode /\ dirty = {}
      /\ syncing = FALSE /\ events = 0 /\ synced = nodePods
  BY DEF StateInit
<1>3. points = <<nodePods>> /\ nodes = SnapshotNodes
  BY <1>1 DEF Init
<1>4. StateTypeOK
  BY <1>1, <1>2, ConstantsAssumption DEF StateTypeOK, TypeOK
<1>5. IncrementalExact
  <2>1. ASSUME NEW n \in cacheNodes PROVE nodePods[n] = cachePodsOn(n)
    BY <1>1, <1>2, ConstantsAssumption DEF Init, cachePodsOn
  <2> QED BY <1>2, <1>3, <2>1 DEF IncrementalExact
<1>6. SyncingInv /\ points[1] = synced
  BY <1>2, <1>3 DEF SyncingInv
<1> QED BY <1>1, <1>4, <1>5, <1>6 DEF StateInv

\* Steps of the snapshot itself.
LEMMA StateCallStep ==
  ASSUME StateInv, NamesProtected, [Next]_vars, UNCHANGED <<cache, synced>>, SyncingInv',
         syncing' \in BOOLEAN
  PROVE  StateInv'
<1>1. StructInv'
  BY StructNext DEF StateInv
<1>2. RollbackInv'
  BY <1>1, RollbackNext DEF StateInv
<1>3. /\ nodes' = nodes /\ points'[1] = points[1]
      /\ UNCHANGED <<cacheNodes, cachePods, dirty, events, synced>>
  BY StepKinds, FirstPointStays DEF StateInv, cache
<1>4. StateTypeOK'
  BY <1>1, <1>3 DEF StateInv, StateTypeOK, StructInv
<1>5. IncrementalExact'
  BY <1>3 DEF StateInv, IncrementalExact, cachePodsOn
<1>6. points'[1] = synced'
  BY <1>3 DEF StateInv
<1> QED BY <1>1, <1>2, <1>4, <1>5, <1>6 DEF StateInv

\* An event of the cluster changes the cache on the nodes it touches only.
LEMMA StateEventStep ==
  ASSUME StateInv, NEW touched \in SUBSET Nodes, Event(touched),
         cacheNodes' \subseteq Nodes, cacheNodes' \subseteq cacheNodes \cup touched,
         cachePods' \in [Pods -> Nodes \cup {NoNode}],
         \A n \in Nodes \ touched : \A p \in Pods : cachePods'[p] = n <=> cachePods[p] = n
  PROVE  StateInv'
<1>1. /\ UNCHANGED vars /\ UNCHANGED <<syncing, synced>>
      /\ dirty' = dirty \cup touched /\ events' = events + 1
  BY DEF Event
<1>2. UNCHANGED <<nodes, nodePods, specNode, reserved, placement, undoOperations, stateVersion,
                  stateVersionForPreemption, transactionInProgress, tx, handles, pc, call, reply,
                  history, observed, points>>
  BY <1>1 DEF vars, undoLog, transaction
<1>3. StructInv'
  BY <1>1, StructNext, SMTT(30) DEF StateInv
<1>4. RollbackInv'
  BY <1>2 DEF StateInv, RollbackInv, ChainInv, NamesInv, OwedInv, ViewAt, RevertInPlace,
     AddPod, RemovePod, CanRemove
<1>5. StateTypeOK'
  BY <1>1, <1>3 DEF StateInv, StateTypeOK, StructInv
<1>6. IncrementalExact'
  <2>1. ASSUME NEW n \in cacheNodes' \ dirty'
        PROVE  n \in nodes' /\ points'[1][n] = cachePodsOn(n)'
    <3>1. n \in cacheNodes \ dirty /\ n \in Nodes \ touched
      BY <1>1
    <3>2. points[1][n] = cachePodsOn(n) /\ n \in nodes
      BY <3>1 DEF StateInv, IncrementalExact
    <3>3. cachePodsOn(n)' = cachePodsOn(n)
      BY <3>1 DEF cachePodsOn
    <3> QED BY <1>2, <3>2, <3>3
  <2> QED BY <2>1 DEF IncrementalExact
<1>7. SyncingInv' /\ points'[1] = synced'
  BY <1>1, <1>2 DEF StateInv, SyncingInv, Idle
<1> QED BY <1>3, <1>4, <1>5, <1>6, <1>7 DEF StateInv

\* An event marks the nodes it changes and does not touch the snapshot.
LEMMA StateEvents ==
  ASSUME StateInv, AddNode \/ RemoveNode \/ AddCachePod \/ RemoveCachePod
  PROVE  StateInv'
<1>1. cacheNodes \subseteq Nodes /\ cachePods \in [Pods -> Nodes \cup {NoNode}]
  BY DEF StateInv, StateTypeOK
<1>2. CASE AddNode
  <2>1. PICK n \in Nodes : /\ cacheNodes' = cacheNodes \cup {n} /\ UNCHANGED cachePods
                           /\ Event({n})
    BY <1>2 DEF AddNode
  <2> QED BY <1>1, <2>1, StateEventStep
<1>3. CASE RemoveNode
  <2>1. PICK n \in Nodes : /\ cacheNodes' = cacheNodes \ {n} /\ UNCHANGED cachePods
                           /\ Event({n})
    BY <1>1, <1>3 DEF RemoveNode
  <2> QED BY <1>1, <2>1, StateEventStep
<1>4. CASE AddCachePod
  <2>1. PICK p \in Pods, n \in Nodes :
          /\ cachePods[p] = NoNode /\ cachePods' = [cachePods EXCEPT ![p] = n]
          /\ UNCHANGED cacheNodes /\ Event({n})
    BY <1>4 DEF AddCachePod
  <2>2. cachePods' \in [Pods -> Nodes \cup {NoNode}]
    BY <1>1, <2>1
  <2>3. \A m \in Nodes \ {n} : \A q \in Pods : cachePods'[q] = m <=> cachePods[q] = m
    BY <1>1, <2>1, ConstantsAssumption
  <2> QED BY <1>1, <2>1, <2>2, <2>3, StateEventStep
<1>5. CASE RemoveCachePod
  <2>1. PICK p \in Pods :
          /\ cachePods[p] # NoNode /\ cachePods' = [cachePods EXCEPT ![p] = NoNode]
          /\ UNCHANGED cacheNodes /\ Event({cachePods[p]})
    BY <1>5 DEF RemoveCachePod
  <2>2. cachePods' \in [Pods -> Nodes \cup {NoNode}] /\ cachePods[p] \in Nodes
    BY <1>1, <2>1
  <2>3. \A m \in Nodes \ {cachePods[p]} : \A q \in Pods : cachePods'[q] = m <=> cachePods[q] = m
    BY <1>1, <2>1, ConstantsAssumption
  <2> QED BY <1>1, <2>1, <2>2, <2>3, StateEventStep
<1> QED BY <1>2, <1>3, <1>4, <1>5

\* UpdateSnapshot copies the changed nodes, and has copied the whole cache.
LEMMA StateUpdate ==
  ASSUME StateInv, UpdateSnapshot
  PROVE  StateInv'
<1>1. /\ TypeOK /\ StructInv /\ RollbackInv /\ Idle /\ syncing /\ stateVersion = 0
      /\ ~transactionInProgress /\ cacheNodes \subseteq Nodes
      /\ cachePods \in [Pods -> Nodes \cup {NoNode}]
  BY DEF UpdateSnapshot, StateInv, SyncingInv, StateTypeOK, Idle
<1>2. /\ nodePods = points[1] /\ history = <<>> /\ undoOperations = <<>>
      /\ call.fn = "none" /\ call.base = 0
  BY <1>1, UnmutatedView
<1>3. /\ nodes' = cacheNodes /\ placement' = cacheNodes /\ observed' = nodePods'
      /\ points' = <<nodePods'>> /\ synced' = CacheView /\ dirty' = {} /\ syncing' = FALSE
      /\ reply' \in {"ok", "error"}
      /\ UNCHANGED <<reserved, undoOperations, stateVersion, stateVersionForPreemption,
                     transactionInProgress, tx, handles, pc, call, history, cacheNodes,
                     cachePods, events>>
  BY DEF UpdateSnapshot, NodeInfoList, undoLog, transaction
<1>4. CacheView \in View
  BY DEF CacheView, View, cachePodsOn, NoPods
<1>5. nodePods' = CacheView
  <2>1. nodePods' = [n \in Nodes |-> IF Refreshed(n) \/ n \notin cacheNodes
                                     THEN CacheView[n] ELSE nodePods[n]]
    BY DEF UpdateSnapshot
  <2>2. ASSUME NEW n \in Nodes, ~Refreshed(n), n \in cacheNodes
        PROVE  nodePods[n] = CacheView[n]
    <3>1. points[1][n] = cachePodsOn(n)
      BY <2>2 DEF Refreshed, StateInv, IncrementalExact
    <3>2. CacheView[n] = cachePodsOn(n)
      BY <2>2 DEF CacheView
    <3> QED BY <1>2, <3>1, <3>2
  <2>3. CacheView = [n \in Nodes |-> CacheView[n]]
    BY <1>4 DEF View
  <2> QED BY <2>1, <2>2, <2>3
<1>6. TypeOK'
  <2>1. specNode' \in [Pods -> Nodes \cup {NoNode}]
    <3>1. PICK old : specNode' = [p \in Pods |-> IF cachePods[p] = NoNode \/ p \in old
                                                 THEN specNode[p] ELSE cachePods[p]]
      BY DEF UpdateSnapshot
    <3>2. specNode \in [Pods -> Nodes \cup {NoNode}]
      BY <1>1 DEF TypeOK
    <3> QED BY <1>1, <3>1, <3>2
  <2>2. points' \in Seq(View)
    BY <1>3, <1>4, <1>5
  <2>3. call' \in Call /\ undoOperations' \in Seq(UndoOperation) /\ handles' \in Seq(Handle)
    BY <1>1, <1>3 DEF TypeOK
  <2> QED BY <1>1, <1>3, <1>4, <1>5, <2>1, <2>2, <2>3 DEF TypeOK
<1>7. ControlInv'
  <2>1. Len(points') = 1
    BY <1>3
  <2> QED BY <1>1, <1>2, <1>3, <2>1 DEF ControlInv, Idle
<1>8. Len(history) = 0 /\ Len(undoOperations) = 0 /\ 1..0 = {}
  BY <1>2
<1>9. LogInv'
  BY <1>1, <1>3, <1>8 DEF LogInv, Idle
<1>10. ViewAt(0)' = nodePods'
  BY <1>3, <1>8 DEF ViewAt
<1>11. RollbackInv'
  <2>1. ChainInv' /\ NamesInv'
    BY <1>1, <1>3, <1>8 DEF ChainInv, NamesInv, Idle
  <2>2. OwedInv'
    BY <1>1, <1>2, <1>3, <1>10 DEF OwedInv
  <2> QED BY <1>1, <1>3, <2>1, <2>2 DEF RollbackInv, Idle
<1>12. StateTypeOK'
  BY <1>3, <1>4, <1>6 DEF StateInv, StateTypeOK
<1>13. IncrementalExact'
  <2>1. ASSUME NEW n \in cacheNodes PROVE CacheView[n] = cachePodsOn(n)'
    BY <1>1, <1>3, <2>1 DEF CacheView, cachePodsOn
  <2> QED BY <1>3, <1>5, <2>1 DEF IncrementalExact
<1>14. SyncingInv' /\ points'[1] = synced'
  BY <1>3, <1>5 DEF SyncingInv
<1> QED BY <1>6, <1>7, <1>9, <1>11, <1>12, <1>13, <1>14 DEF StateInv, StructInv

\* An UpdateSnapshot that fails leaves everything to the next one.
LEMMA StateUpdateFails ==
  ASSUME StateInv, UpdateSnapshotFails
  PROVE  StateInv'
<1>1. /\ syncing' = FALSE /\ reply' = "error"
      /\ UNCHANGED <<nodes, nodePods, specNode, reserved, placement, undoOperations,
                     stateVersion, stateVersionForPreemption, transactionInProgress, tx,
                     handles, pc, call, history, observed, points, cacheNodes, cachePods,
                     dirty, events, synced>>
  BY DEF UpdateSnapshotFails, undoLog, transaction, cache
<1>2. TypeOK' /\ ControlInv' /\ LogInv'
  BY <1>1 DEF StateInv, StructInv, TypeOK, ControlInv, LogInv
<1>3. RollbackInv'
  BY <1>1 DEF StateInv, RollbackInv, ChainInv, NamesInv, OwedInv, ViewAt, RevertInPlace,
     AddPod, RemovePod, CanRemove
<1>4. StateTypeOK'
  BY <1>1, <1>2 DEF StateInv, StateTypeOK
<1>5. IncrementalExact' /\ SyncingInv' /\ points'[1] = synced'
  BY <1>1 DEF StateInv, IncrementalExact, cachePodsOn, SyncingInv
<1> QED BY <1>2, <1>3, <1>4, <1>5 DEF StateInv, StructInv

\* Every step preserves the invariant of cache and snapshot.
LEMMA StateStep ==
  ASSUME NamesProtected, StateInv, [StateNext]_stateVars
  PROVE  StateInv'
<1>1. syncing \in BOOLEAN /\ StructInv
  BY DEF StateInv, StateTypeOK
<1>2. CASE ~syncing /\ Client /\ UNCHANGED <<cache, syncing, synced>>
  BY <1>1, <1>2, StateCallStep DEF Next, SyncingInv
<1>3. CASE Step /\ UNCHANGED <<cache, syncing, synced>>
  <2>1. SyncingInv'
    <3> SUFFICES ASSUME syncing PROVE SyncingInv'
      BY <1>3 DEF SyncingInv
    <3>1. pc = "restore" /\ call.fn = "ResetMutations"
      BY <1>3 DEF StateInv, SyncingInv, Idle, Step, scheduleNoProfile, scheduleFails, assume,
         reserve, unreserveAndForget, scheduleDone, canScheduleDone, removePodFromNode,
         preemptDone, addPodToNode, unpreemptDone, undo, restoreCall, restoreTransaction,
         restoreReset, Scheduling, Restored
    <3>2. undo \/ restoreReset
      BY <1>3, <3>1 DEF Step, scheduleNoProfile, scheduleFails, assume,
         reserve, unreserveAndForget, scheduleDone, canScheduleDone, removePodFromNode,
         preemptDone, addPodToNode, unpreemptDone, restoreCall, restoreTransaction,
         Scheduling, Restored
    <3>3. CASE undo
      BY <3>1, <3>3 DEF undo, SyncingInv
    <3>4. CASE restoreReset
      <4>1. /\ pc' = "idle" /\ stateVersion' = call.base
            /\ transactionInProgress' = transactionInProgress
        BY <3>4 DEF restoreReset, Restored, Return, undoLog, transaction
      <4>2. call.base = 0 /\ ~transactionInProgress
        BY <1>1, <3>1 DEF StructInv, ControlInv
      <4> QED BY <4>1, <4>2 DEF SyncingInv, Idle
    <3> QED BY <3>2, <3>3, <3>4
  <2> QED BY <1>1, <1>3, <2>1, StateCallStep DEF Next
<1>4. CASE SyncSnapshot
  <2>1. /\ ResetMutations /\ syncing' = ~transactionInProgress /\ UNCHANGED <<cache, synced>>
    BY <1>4 DEF SyncSnapshot
  <2>2. SyncingInv'
    BY <2>1 DEF ResetMutations, ReturnAtOnce, Enter, NoCall, SyncingInv, Idle, undoLog, transaction
  <2>3. syncing' \in BOOLEAN
    BY <2>1
  <2> QED BY <2>1, <2>2, <2>3, StateCallStep DEF Next, Client
<1>5. CASE UNCHANGED stateVars
  <2>1. UNCHANGED <<vars, cache, syncing, synced>>
    BY <1>5 DEF stateVars
  <2>2. SyncingInv'
    BY <2>1 DEF StateInv, SyncingInv, Idle, vars, undoLog, transaction
  <2> QED BY <1>1, <2>1, <2>2, StateCallStep
<1> QED BY <1>2, <1>3, <1>4, <1>5, StateEvents, StateUpdate, StateUpdateFails DEF StateNext

\* The invariant of cache and snapshot holds in every reachable state.
THEOREM StateInvHolds ==
  ASSUME NamesProtected
  PROVE  StateSpec => []StateInv
<1>1. StateInit => StateInv
  BY StateInitial
<1>2. StateInv /\ [StateNext]_stateVars => StateInv'
  BY StateStep
<1> QED BY <1>1, <1>2, PTL DEF StateSpec

\* Cache, snapshot and undo log keep their types through every sync.
THEOREM StateTypeCorrect ==
  ASSUME NamesProtected
  PROVE  StateSpec => []StateTypeOK
<1>1. StateInv => StateTypeOK
  BY DEF StateInv
<1> QED BY <1>1, StateInvHolds, PTL

\* Whenever no mutation is in effect the snapshot is what the cache held at the
\* last SyncSnapshot, although that copied only the nodes that had changed.
THEOREM SyncIsExact ==
  ASSUME NamesProtected
  PROVE  StateSpec => []SyncExact
<1>1. StateInv => SyncExact
  <2> SUFFICES ASSUME StateInv, undoOperations = <<>>, Idle PROVE nodePods = synced
    BY DEF SyncExact
  <2>1. stateVersion = 0
    BY DEF StateInv, StructInv, LogInv
  <2> QED BY <2>1, UnmutatedView DEF StateInv
<1> QED BY <1>1, StateInvHolds, PTL

\* A node that has not changed in the cache since the last sync is in the snapshot
\* as it is in the cache: UpdateSnapshot may skip it.
THEOREM UnchangedNodesAreExact ==
  ASSUME NamesProtected
  PROVE  StateSpec => []IncrementalExact
<1>1. StateInv => IncrementalExact
  BY DEF StateInv
<1> QED BY <1>1, StateInvHolds, PTL

\* Rollbacks stay exact when the snapshot is refreshed in place between them.
THEOREM RollbackIsExactAcrossSyncs ==
  ASSUME NamesProtected
  PROVE  StateSpec => []RollbackExact
<1>1. StateInv => RollbackExact
  BY RestoredView DEF StateInv, RollbackExact
<1> QED BY <1>1, StateInvHolds, PTL
================================================================================
