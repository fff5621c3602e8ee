---------------------------- MODULE ClusterSnapshot ----------------------------
(***************************************************************************)
(* The in-memory cluster snapshot of pkg/upstreamsync/snapshot: a mutable  *)
(* view of which pods run on which nodes, an undo log that takes back      *)
(* every mutation, transactions, dry runs and preemption handles.          *)
(*                                                                         *)
(* A ClusterSnapshot is used by one caller at a time, so a call is a       *)
(* sequence of steps of one control state (pc) and the client may start a  *)
(* call only when none is running.  Inside a transaction the client is the *)
(* transaction's function, which makes the same calls.                     *)
(*                                                                         *)
(* Pods are pod OBJECTS: the library keeps pointers to them and writes     *)
(* their Spec.NodeName, which is the variable specNode.  The client is     *)
(* taken to leave that field to the library.                               *)
(***************************************************************************)
EXTENDS Integers, FiniteSets, SequencesExt, Functions

CONSTANTS
  Nodes,                 \* node names
  NoNode,                \* the empty node name
  Pods,                  \* pod objects
  SnapshotNodes,         \* nodes the snapshot is created with
  InitialNode,           \* [Pods -> SnapshotNodes \cup {NoNode}]: where pods run at first
  Capacity,              \* [Nodes -> Nat]: pods a node's filters let in
  NoProfilePods,         \* pods naming a scheduler that has no profile
  FaultyPods,            \* pods a PreFilter or Reserve plugin may turn down or a plugin may fail on
  TemplatePods,          \* pods that only SchedulePodsByTemplate creates
  NodeNameFilter,        \* the profile runs the NodeName filter plugin
  ReusesPreemptedPods,   \* the client passes a pod object it preempted to SchedulePods
  ReusesUndoneHandles,   \* the client keeps using handles whose preemption was rolled back
  MaxBatch,              \* bound: pods in one call
  MaxOps,                \* bound: operations in the undo log
  MaxHandles,            \* bound: preemption handles the client holds
  MaxVersion             \* bound: stateVersionForPreemption when a call starts

ASSUME ConstantsAssumption ==
  /\ SnapshotNodes \subseteq Nodes
  /\ NoNode \notin Nodes
  /\ IsFiniteSet(Pods)
  /\ InitialNode \in [Pods -> SnapshotNodes \cup {NoNode}]
  /\ Capacity \in [Nodes -> Nat]
  /\ TemplatePods \subseteq Pods
  /\ \A p \in TemplatePods : InitialNode[p] = NoNode
  /\ {NodeNameFilter, ReusesPreemptedPods, ReusesUndoneHandles} \subseteq BOOLEAN
  /\ {MaxBatch, MaxOps, MaxHandles, MaxVersion} \subseteq Nat

VARIABLES
  nodes,                      \* nodes of the scheduler snapshot
  nodePods,                   \* pods in each NodeInfo: nodePods[n][p] copies of p on n
  specNode,                   \* pod.Spec.NodeName of the client's pod objects
  reserved,                   \* nodes on which the Reserve plugins hold something for each pod
  placement,                  \* nodes visible to the plugins (AssumePlacement)
  undoOperations,             \* undoLog.undoOperations, most recent last
  stateVersion,               \* undoLog.stateVersion
  stateVersionForPreemption,
  transactionInProgress,
  tx,                         \* the locals of the running Transaction
  handles,                    \* the Unpreemption handles given to the client
  pc,                         \* control point of the running call, "idle" if none
  call,                       \* the running call's arguments and locals
  reply,                      \* how the last call returned
  \* History variables: read by properties and by client assumptions only.
  history,                    \* the views before each mutation that is in effect
  observed,                   \* the view the client saw when the last call returned
  points                      \* views to come back to: creation, then transaction start

undoLog == <<undoOperations, stateVersion>>
transaction == <<transactionInProgress, tx>>
vars == <<nodes, nodePods, specNode, reserved, placement, undoLog,
          stateVersionForPreemption, transaction, handles, pc, call, reply,
          history, observed, points>>

View == [Nodes -> [Pods -> Nat]]
Idle == pc = "idle"
NoTx == [initialStateVersion |-> 0, initialStateVersionForPreemption |-> 0]
NoCall == [fn |-> "none", base |-> 0, todo |-> <<>>, done |-> <<>>,
           dryRun |-> FALSE, stopOnFailure |-> FALSE, host |-> NoNode,
           results |-> <<>>, handle |-> 0, failed |-> FALSE]

\* One call's pods: a non-empty list without repetition.
Batches(S) == {s \in BoundedSeq(S, MaxBatch) : s # <<>> /\ IsInjective(s)}

Running(p) == \E n \in nodes : nodePods[n][p] > 0

--------------------------------------------------------------------------------
(* The scheduler snapshot's pod bookkeeping.  An operation on an unknown   *)
(* node, or the removal of a pod that is not on the node, is an error and  *)
(* changes nothing.                                                        *)

AddPod(view, p, n) ==
  IF n \in nodes THEN [view EXCEPT ![n][p] = @ + 1] ELSE view

\* Mutant: whether the pod is on the node is not looked at.
CanRemoveUnchecked(view, p, n) == n \in nodes

CanRemove(view, p, n) == n \in nodes /\ view[n][p] > 0

RemovePod(view, p, n) ==
  IF CanRemove(view, p, n) THEN [view EXCEPT ![n][p] = @ - 1] ELSE view

\* The revert functions the undo log holds: "forget" undoes a scheduled pod,
\* "remove" an unpreempted one, both on the node they were put on; "add" undoes
\* a preemption and reads the node from the pod object when it RUNS (its node
\* field only remembers where the pod was).
Operation(op, p, n) == [op |-> op, pod |-> p, node |-> n]

Revert(view, e) ==
  IF e.op = "add" THEN AddPod(view, e.pod, specNode[e.pod])
                  ELSE RemovePod(view, e.pod, e.node)

registerOperation(e) ==
  /\ undoOperations' = Append(undoOperations, e)
  /\ stateVersion' = stateVersion + 1

\* The Reserve plugins' bookkeeping: they remember that they hold something for a pod on
\* a node, and giving back what is not held does nothing.
Reserve(r, p, n) == [r EXCEPT ![p] = @ \cup {n}]
Unreserve(r, p, n) == [r EXCEPT ![p] = @ \ {n}]

\* What findNodesThatFitPod looks for in the assumed placement, the filter plugins
\* being: a node has room, and it is the one the pod asks for if the profile
\* filters by node name.
Load(n) == SumFunction(nodePods[n])

Feasible(p) ==
  {n \in placement : /\ Load(n) < Capacity[n]
                     /\ NodeNameFilter => specNode[p] \in {n, NoNode}}

--------------------------------------------------------------------------------
Init ==
  /\ nodes = SnapshotNodes
  /\ nodePods = [n \in Nodes |-> [p \in Pods |-> IF InitialNode[p] = n THEN 1 ELSE 0]]
  /\ specNode = InitialNode
  /\ reserved = [p \in Pods |-> {}]
  /\ placement = SnapshotNodes
  /\ undoOperations = <<>>
  /\ stateVersion = 0
  /\ stateVersionForPreemption = 0
  /\ transactionInProgress = FALSE
  /\ tx = NoTx
  /\ handles = <<>>
  /\ pc = "idle"
  /\ call = NoCall
  /\ reply = "none"
  /\ history = <<>>
  /\ observed = nodePods
  /\ points = <<nodePods>>

\* A call that returns to the client at once.
ReturnAtOnce(r) ==
  /\ Idle
  /\ reply' = r
  /\ UNCHANGED <<nodes, nodePods, specNode, reserved, placement, undoLog,
                 stateVersionForPreemption, transaction, handles, pc, call,
                 history, observed, points>>

\* A call that starts running.
Enter(label, c) ==
  /\ Idle
  /\ pc' = label
  /\ call' = c

\* A running call returns.
Return(r) ==
  /\ pc' = "idle"
  /\ call' = NoCall
  /\ reply' = r
  /\ observed' = nodePods

--------------------------------------------------------------------------------
(* SchedulePods and SchedulePodsByTemplate                                 *)

schedulePods(batch, nodesInPlacement, dryRun, stopOnFailure) ==
  \/ /\ nodesInPlacement = {}
     /\ ReturnAtOnce("ok")
  \/ /\ ~(nodesInPlacement \subseteq nodes)
     /\ ReturnAtOnce("error")
  \/ /\ nodesInPlacement # {}
     /\ nodesInPlacement \subseteq nodes
     /\ Enter("schedule", [NoCall EXCEPT !.fn = "SchedulePods", !.base = stateVersion,
                             !.todo = batch, !.dryRun = dryRun,
                             !.stopOnFailure = stopOnFailure])
     /\ placement' = nodesInPlacement
     /\ UNCHANGED <<nodes, nodePods, specNode, reserved, undoLog,
                    stateVersionForPreemption, transaction, handles, reply,
                    history, observed, points>>

\* Pods handed to SchedulePods are not in the snapshot yet; a client that does
\* not reuse preempted pods leaves alone those a rollback would put back.
Schedulable ==
  {p \in Pods : /\ ~Running(p)
                /\ \/ ReusesPreemptedPods
                   \/ \A i \in DOMAIN undoOperations :
                        undoOperations[i].op = "add" => undoOperations[i].pod # p}

SchedulePods ==
  /\ stateVersionForPreemption < MaxVersion
  /\ \E batch \in Batches(Schedulable \ {p \in TemplatePods : specNode[p] = NoNode}),
        nodesInPlacement \in SUBSET Nodes, dryRun, stopOnFailure \in BOOLEAN :
       /\ stateVersion + Len(batch) =< MaxOps
       /\ schedulePods(batch, nodesInPlacement, dryRun, stopOnFailure)

\* The pods of a template call are created by it, so no one has seen them yet.
SchedulePodsByTemplate ==
  /\ stateVersionForPreemption < MaxVersion
  /\ \E batch \in Batches({p \in TemplatePods : specNode[p] = NoNode}),
        nodesInPlacement \in SUBSET nodes, dryRun \in BOOLEAN :
       /\ stateVersion + Len(batch) =< MaxOps
       /\ schedulePods(batch, nodesInPlacement, dryRun, TRUE)

\* Mutant: StopOnFailure is ignored.
RecordAndGoOn(status, n) ==
  call' = [call EXCEPT
    !.todo = Tail(@), !.host = NoNode,
    !.results = Append(@, [pod |-> Head(call.todo), status |-> status, node |-> n])]

\* The pod's attempt is over with the given status: its result is recorded, and
\* a failure ends the loop if the caller asked for that.
Record(status, n) ==
  LET p == Head(call.todo)
  IN  call' = [call EXCEPT
        !.todo = IF status # "Success" /\ call.stopOnFailure THEN <<>> ELSE Tail(@),
        !.host = NoNode,
        !.results = Append(@, [pod |-> p, status |-> status, node |-> n])]

Scheduling(label) == pc = label /\ call.fn = "SchedulePods" /\ call.todo # <<>>

\* Mutant: the placement stays assumed on the error path.
scheduleNoProfileKeepsPlacement ==
  /\ Scheduling("schedule")
  /\ Head(call.todo) \in NoProfilePods
  /\ pc' = "restore"
  /\ call' = [call EXCEPT !.failed = TRUE]
  /\ UNCHANGED <<nodes, nodePods, specNode, reserved, placement, undoLog,
                 stateVersionForPreemption, transaction, handles, reply,
                 history, observed, points>>

\* FrameworkForPod fails: the only error that ends the call.  The deferred
\* ForgetPlacement runs before the deferred rollback.
scheduleNoProfile ==
  /\ Scheduling("schedule")
  /\ Head(call.todo) \in NoProfilePods
  /\ placement' = nodes
  /\ pc' = "restore"
  /\ call' = [call EXCEPT !.failed = TRUE]
  /\ UNCHANGED <<nodes, nodePods, specNode, reserved, undoLog,
                 stateVersionForPreemption, transaction, handles, reply,
                 history, observed, points>>

\* No node of the placement fits, or a PreFilter plugin turns the pod down
\* (FitError); or a PreFilter or Filter plugin returns an error, which SchedulePod
\* turns into the result's Status like the others.
scheduleFails ==
  /\ Scheduling("schedule")
  /\ Head(call.todo) \notin NoProfilePods
  /\ \/ /\ Feasible(Head(call.todo)) = {} \/ Head(call.todo) \in FaultyPods
        /\ Record("Unschedulable", NoNode)
     \/ Head(call.todo) \in FaultyPods /\ Record("Error", NoNode)
  /\ UNCHANGED <<nodes, nodePods, specNode, reserved, placement, undoLog,
                 stateVersionForPreemption, transaction, handles, pc, reply,
                 history, observed, points>>

\* A feasible node is found (which one depends on the filter goroutines and on
\* the scores) and the pod is assumed on it.
assume ==
  /\ Scheduling("schedule")
  /\ Head(call.todo) \notin NoProfilePods
  /\ \E n \in Feasible(Head(call.todo)) :
       /\ nodePods' = AddPod(nodePods, Head(call.todo), n)
       /\ call' = [call EXCEPT !.host = n]
  /\ history' = Append(history, nodePods)
  /\ pc' = "reserve"
  /\ UNCHANGED <<nodes, specNode, reserved, placement, undoLog,
                 stateVersionForPreemption, transaction, handles, reply,
                 observed, points>>

\* Reserve succeeds: the node is written to the client's pod and the revert
\* function is registered.
reserve ==
  /\ Scheduling("reserve")
  /\ LET p == Head(call.todo)
     IN  /\ specNode' = [specNode EXCEPT ![p] = call.host]
         /\ reserved' = Reserve(reserved, p, call.host)
         /\ registerOperation(Operation("forget", p, call.host))
  /\ Record("Success", call.host)
  /\ pc' = "schedule"
  /\ UNCHANGED <<nodes, nodePods, placement, stateVersionForPreemption,
                 transaction, handles, reply, history, observed, points>>

\* Some plugins may have reserved before the one that rejects the pod or fails.
ReservedInPart == {reserved, Reserve(reserved, Head(call.todo), call.host)}

\* Mutant: the pod is tried again after a rejected Reserve.
unreserveAndRetry ==
  /\ Scheduling("reserve")
  /\ Head(call.todo) \in FaultyPods
  /\ \E r \in ReservedInPart : reserved' = Unreserve(r, Head(call.todo), call.host)
  /\ nodePods' = RemovePod(nodePods, Head(call.todo), call.host)
  /\ history' = Front(history)
  /\ call' = [call EXCEPT !.host = NoNode]
  /\ pc' = "schedule"
  /\ UNCHANGED <<nodes, specNode, placement, undoLog, stateVersionForPreemption,
                 transaction, handles, reply, observed, points>>

\* Mutant: what some plugins reserved before another one failed is kept.
forgetOnly ==
  /\ Scheduling("reserve")
  /\ Head(call.todo) \in FaultyPods
  /\ reserved' \in ReservedInPart
  /\ nodePods' = RemovePod(nodePods, Head(call.todo), call.host)
  /\ history' = Front(history)
  /\ \E status \in {"Unschedulable", "Error"} : Record(status, NoNode)
  /\ pc' = "schedule"
  /\ UNCHANGED <<nodes, specNode, placement, undoLog, stateVersionForPreemption,
                 transaction, handles, reply, observed, points>>

\* Reserve rejects the pod or fails: Unreserve runs for all plugins, those that had
\* not reserved included, and the pod is forgotten.
unreserveAndForget ==
  /\ Scheduling("reserve")
  /\ Head(call.todo) \in FaultyPods
  /\ \E r \in ReservedInPart : reserved' = Unreserve(r, Head(call.todo), call.host)
  /\ nodePods' = RemovePod(nodePods, Head(call.todo), call.host)
  /\ history' = Front(history)
  /\ \E status \in {"Unschedulable", "Error"} : Record(status, NoNode)
  /\ pc' = "schedule"
  /\ UNCHANGED <<nodes, specNode, placement, undoLog, stateVersionForPreemption,
                 transaction, handles, reply, observed, points>>

\* Mutant: a schedule that stays does not invalidate the handles.
scheduleDoneKeepsHandles ==
  /\ pc = "schedule" /\ call.fn = "SchedulePods" /\ call.todo = <<>>
  /\ placement' = nodes
  /\ IF call.dryRun THEN pc' = "restore" /\ UNCHANGED <<call, reply, observed>>
                    ELSE Return("ok")
  /\ UNCHANGED <<nodes, nodePods, specNode, reserved, undoLog, transaction,
                 stateVersionForPreemption, handles, history, points>>

\* Mutant: a dry run is rolled back only if one of its pods was not scheduled.
scheduleDoneKeepsDryRun ==
  /\ pc = "schedule" /\ call.fn = "SchedulePods" /\ call.todo = <<>>
  /\ placement' = nodes
  /\ IF call.dryRun /\ stateVersion # call.base + Len(call.results)
       THEN /\ pc' = "restore"
            /\ UNCHANGED <<call, reply, observed, stateVersionForPreemption>>
       ELSE /\ Return("ok")
            /\ stateVersionForPreemption' = stateVersionForPreemption + 1
  /\ UNCHANGED <<nodes, nodePods, specNode, reserved, undoLog, transaction,
                 handles, history, points>>

\* The loop is over: a dry run is rolled back, anything else that changed the
\* snapshot makes the preemption handles unusable.
scheduleDone ==
  /\ pc = "schedule" /\ call.fn = "SchedulePods" /\ call.todo = <<>>
  /\ placement' = nodes
  /\ \/ /\ call.dryRun
        /\ pc' = "restore"
        /\ UNCHANGED <<call, reply, observed, stateVersionForPreemption>>
     \/ /\ ~call.dryRun
        /\ Return("ok")
        /\ stateVersionForPreemption' =
             stateVersionForPreemption + (IF stateVersion # call.base THEN 1 ELSE 0)
  /\ UNCHANGED <<nodes, nodePods, specNode, reserved, undoLog, transaction,
                 handles, history, points>>

--------------------------------------------------------------------------------
(* CanSchedulePod changes nothing but the assumed placement.               *)

CanSchedulePod ==
  \E p \in Pods, nodesInPlacement \in SUBSET Nodes :
    \/ /\ nodesInPlacement = {}
       /\ ReturnAtOnce("ok")
    \/ /\ nodesInPlacement # {}
       /\ p \in NoProfilePods \/ ~(nodesInPlacement \subseteq nodes)
       /\ ReturnAtOnce("error")
    \/ /\ nodesInPlacement # {} /\ p \notin NoProfilePods
       /\ nodesInPlacement \subseteq nodes
       /\ Enter("canSchedule", [NoCall EXCEPT !.fn = "CanSchedulePod", !.todo = <<p>>])
       /\ placement' = nodesInPlacement
       /\ UNCHANGED <<nodes, nodePods, specNode, reserved, undoLog,
                      stateVersionForPreemption, transaction, handles, reply,
                      history, observed, points>>

canScheduleDone ==
  /\ pc = "canSchedule"
  /\ \/ Return("ok")
     \/ Head(call.todo) \in FaultyPods /\ Return("error")
  /\ placement' = nodes
  /\ UNCHANGED <<nodes, nodePods, specNode, reserved, undoLog,
                 stateVersionForPreemption, transaction, handles, history, points>>

--------------------------------------------------------------------------------
(* PreemptPods                                                             *)

PreemptPods ==
  \E batch \in Batches(Pods) :
    \/ /\ \E i \in DOMAIN batch : specNode[batch[i]] = NoNode
       /\ ReturnAtOnce("error")
    \/ /\ \A i \in DOMAIN batch : specNode[batch[i]] # NoNode
       /\ stateVersion + Len(batch) =< MaxOps
       /\ Len(handles) < MaxHandles
       /\ Enter("preempt", [NoCall EXCEPT !.fn = "PreemptPods",
                              !.base = stateVersion, !.todo = batch])
       /\ UNCHANGED <<nodes, nodePods, specNode, reserved, placement, undoLog,
                      stateVersionForPreemption, transaction, handles, reply,
                      history, observed, points>>

removePodFromNode ==
  /\ pc = "preempt" /\ call.todo # <<>>
  /\ LET p == Head(call.todo)
         n == specNode[p]
     IN  \/ /\ CanRemove(nodePods, p, n)
            /\ nodePods' = RemovePod(nodePods, p, n)
            /\ registerOperation(Operation("add", p, n))
            /\ history' = Append(history, nodePods)
            /\ call' = [call EXCEPT !.todo = Tail(@), !.done = Append(@, p)]
            /\ UNCHANGED pc
         \/ /\ ~CanRemove(nodePods, p, n)
            /\ pc' = "restore"
            /\ call' = [call EXCEPT !.failed = TRUE]
            /\ UNCHANGED <<nodePods, undoLog, history>>
  /\ UNCHANGED <<nodes, specNode, reserved, placement, stateVersionForPreemption,
                 transaction, handles, reply, observed, points>>

\* The handle.  from, base and undone are history: where the pods were, the
\* undo log below them, and whether their preemption has been rolled back.
Unpreemption ==
  [pods |-> call.done, reverted |-> FALSE,
   validPreemptionVersion |-> stateVersionForPreemption,
   from |-> [i \in DOMAIN call.done |-> undoOperations[call.base + i].node],
   base |-> call.base, undone |-> FALSE]

preemptDone ==
  /\ pc = "preempt" /\ call.todo = <<>>
  /\ handles' = Append(handles, Unpreemption)
  /\ Return("ok")
  /\ UNCHANGED <<nodes, nodePods, specNode, reserved, placement, undoLog,
                 stateVersionForPreemption, transaction, history, points>>

--------------------------------------------------------------------------------
(* Unpreempt                                                               *)

\* Mutant: a handle can be used again.
AcceptedAgain(h) == stateVersionForPreemption = h.validPreemptionVersion

\* The handle passes Unpreempt's checks.
Accepted(h) == stateVersionForPreemption = h.validPreemptionVersion /\ ~h.reverted

Unpreempt ==
  \E i \in DOMAIN handles :
    \/ ~Accepted(handles[i]) /\ ReturnAtOnce("error")
    \/ /\ Accepted(handles[i])
       /\ ReusesUndoneHandles \/ ~handles[i].undone
       /\ stateVersion + Len(handles[i].pods) =< MaxOps
       /\ Enter("unpreempt", [NoCall EXCEPT !.fn = "Unpreempt", !.base = stateVersion,
                                !.todo = handles[i].pods, !.handle = i])
       /\ UNCHANGED <<nodes, nodePods, specNode, reserved, placement, undoLog,
                      stateVersionForPreemption, transaction, handles, reply,
                      history, observed, points>>

\* Mutant: putting a pod back is not registered in the undo log.
addPodToNodeUnlogged ==
  /\ pc = "unpreempt" /\ call.todo # <<>>
  /\ nodePods' = AddPod(nodePods, Last(call.todo), specNode[Last(call.todo)])
  /\ call' = [call EXCEPT !.todo = Front(@)]
  /\ UNCHANGED <<nodes, specNode, reserved, placement, undoLog, history,
                 stateVersionForPreemption, transaction, handles, pc, reply,
                 observed, points>>

\* The pods go back from the last to the first, each to the node its object
\* names now; one that fails does not stop the others.
addPodToNode ==
  /\ pc = "unpreempt" /\ call.todo # <<>>
  /\ LET p == Last(call.todo)
         n == specNode[p]
         known == n \in nodes
     IN  /\ nodePods' = AddPod(nodePods, p, n)
         /\ call' = [call EXCEPT !.todo = Front(@), !.failed = @ \/ ~known]
         /\ IF known THEN /\ registerOperation(Operation("remove", p, n))
                          /\ history' = Append(history, nodePods)
                     ELSE UNCHANGED <<undoLog, history>>
  /\ UNCHANGED <<nodes, specNode, reserved, placement, stateVersionForPreemption,
                 transaction, handles, pc, reply, observed, points>>

\* Mutant: the handle is consumed only if something failed.
unpreemptDoneKeepsHandle ==
  /\ pc = "unpreempt" /\ call.todo = <<>>
  /\ handles' = [handles EXCEPT ![call.handle].reverted = call.failed]
  /\ Return(IF call.failed THEN "error" ELSE "ok")
  /\ UNCHANGED <<nodes, nodePods, specNode, reserved, placement, undoLog,
                 stateVersionForPreemption, transaction, history, points>>

unpreemptDone ==
  /\ pc = "unpreempt" /\ call.todo = <<>>
  /\ handles' = [handles EXCEPT ![call.handle].reverted = TRUE]
  /\ Return(IF call.failed THEN "error" ELSE "ok")
  /\ UNCHANGED <<nodes, nodePods, specNode, reserved, placement, undoLog,
                 stateVersionForPreemption, transaction, history, points>>

--------------------------------------------------------------------------------
(* Transaction and ResetMutations                                          *)

TransactionBegin ==
  \/ transactionInProgress /\ ReturnAtOnce("error")
  \/ /\ Idle
     /\ ~transactionInProgress
     /\ stateVersionForPreemption < MaxVersion
     /\ transactionInProgress' = TRUE
     /\ tx' = [initialStateVersion |-> stateVersion,
               initialStateVersionForPreemption |-> stateVersionForPreemption]
     /\ stateVersionForPreemption' = stateVersionForPreemption + 1
     /\ points' = Append(points, nodePods)
     /\ UNCHANGED <<nodes, nodePods, specNode, reserved, placement, undoLog,
                    handles, pc, call, reply, history, observed>>

\* The transaction is over: the deferred function clears the flag.
TransactionEnd ==
  /\ transactionInProgress' = FALSE
  /\ tx' = NoTx
  /\ points' = <<points[1]>>

\* transactionFn returns Commit, or panics: then only the deferred function runs.
TransactionKeep ==
  /\ Idle
  /\ transactionInProgress
  /\ TransactionEnd
  /\ \/ /\ stateVersionForPreemption' = stateVersionForPreemption + 1
        /\ reply' = "ok"
     \/ /\ reply' = "panic"
        /\ UNCHANGED stateVersionForPreemption
  /\ UNCHANGED <<nodes, nodePods, specNode, reserved, placement, undoLog,
                 handles, pc, call, history, observed>>

\* Mutant: everything is rolled back, not only the transaction.
TransactionRevertAll ==
  /\ transactionInProgress
  /\ \E failed \in BOOLEAN :
       Enter("restore", [NoCall EXCEPT !.fn = "Transaction", !.failed = failed])
  /\ UNCHANGED <<nodes, nodePods, specNode, reserved, placement, undoLog,
                 stateVersionForPreemption, transaction, handles, reply,
                 history, observed, points>>

\* transactionFn returns Revert, or an error.
TransactionRevert ==
  /\ transactionInProgress
  /\ \E failed \in BOOLEAN :
       Enter("restore", [NoCall EXCEPT !.fn = "Transaction",
                           !.base = tx.initialStateVersion, !.failed = failed])
  /\ UNCHANGED <<nodes, nodePods, specNode, reserved, placement, undoLog,
                 stateVersionForPreemption, transaction, handles, reply,
                 history, observed, points>>

ResetMutations ==
  \/ transactionInProgress /\ ReturnAtOnce("error")
  \/ ~transactionInProgress /\ stateVersion = 0 /\ ReturnAtOnce("ok")
  \/ /\ ~transactionInProgress
     /\ stateVersion > 0
     /\ stateVersionForPreemption < MaxVersion
     /\ Enter("restore", [NoCall EXCEPT !.fn = "ResetMutations"])
     /\ UNCHANGED <<nodes, nodePods, specNode, reserved, placement, undoLog,
                    stateVersionForPreemption, transaction, handles, reply,
                    history, observed, points>>

--------------------------------------------------------------------------------
(* restoreState: pop and run revert functions down to the recorded version *)

undo ==
  /\ pc = "restore" /\ stateVersion # call.base
  /\ undoOperations # <<>>
  /\ LET e == Last(undoOperations)
     IN  /\ nodePods' = Revert(nodePods, e)
         /\ reserved' = IF e.op = "forget" THEN Unreserve(reserved, e.pod, e.node)
                                           ELSE reserved
  /\ undoOperations' = Front(undoOperations)
  /\ stateVersion' = stateVersion - 1
  /\ history' = Front(history)
  /\ UNCHANGED <<nodes, specNode, placement, stateVersionForPreemption, transaction,
                 handles, pc, call, reply, observed, points>>

Restored(fn) == pc = "restore" /\ stateVersion = call.base /\ call.fn = fn

\* The handles whose preemptions the restore has taken back (history).
MarkUndone ==
  handles' = [i \in DOMAIN handles |->
               [handles[i] EXCEPT !.undone = @ \/ handles[i].base >= call.base]]

\* A dry run or a call that failed has been taken back.
restoreCall ==
  /\ Restored("SchedulePods") \/ Restored("PreemptPods")
  /\ Return(IF call.failed THEN "error" ELSE "ok")
  /\ UNCHANGED <<nodes, nodePods, specNode, reserved, placement, undoLog,
                 stateVersionForPreemption, transaction, handles, history, points>>

restoreTransaction ==
  /\ Restored("Transaction")
  /\ stateVersionForPreemption' = tx.initialStateVersionForPreemption
  /\ TransactionEnd
  /\ MarkUndone
  /\ Return(IF call.failed THEN "error" ELSE "ok")
  /\ UNCHANGED <<nodes, nodePods, specNode, reserved, placement, undoLog, history>>

restoreReset ==
  /\ Restored("ResetMutations")
  /\ stateVersionForPreemption' = stateVersionForPreemption + 1
  /\ MarkUndone
  /\ Return("ok")
  /\ UNCHANGED <<nodes, nodePods, specNode, reserved, placement, undoLog,
                 transaction, history, points>>

--------------------------------------------------------------------------------
\* What the client may do between two calls.
Client ==
  \/ SchedulePods \/ SchedulePodsByTemplate \/ CanSchedulePod
  \/ PreemptPods \/ Unpreempt
  \/ TransactionBegin \/ TransactionKeep \/ TransactionRevert
  \/ ResetMutations

\* What the library does once it has been called.
Step ==
  \/ scheduleNoProfile \/ scheduleFails \/ assume \/ reserve
  \/ unreserveAndForget \/ scheduleDone
  \/ canScheduleDone
  \/ removePodFromNode \/ preemptDone
  \/ addPodToNode \/ unpreemptDone
  \/ undo \/ restoreCall \/ restoreTransaction \/ restoreReset

Next == Client \/ Step

\* A call that runs keeps running: it is straight-line Go code with no waiting.
\* Nothing obliges the client to make another call.
Spec == Init /\ [][Next]_vars /\ WF_vars(Step)

--------------------------------------------------------------------------------
(* Properties                                                              *)

UndoOperation == [op : {"forget", "remove", "add"}, pod : Pods, node : Nodes]
Result == [pod : Pods, status : {"Success", "Unschedulable", "Error"},
           node : Nodes \cup {NoNode}]
Call == [fn : {"none", "SchedulePods", "CanSchedulePod", "PreemptPods", "Unpreempt",
               "Transaction", "ResetMutations"},
         base : Nat, todo : Seq(Pods), done : Seq(Pods), dryRun : BOOLEAN,
         stopOnFailure : BOOLEAN, host : Nodes \cup {NoNode}, results : Seq(Result),
         handle : Nat, failed : BOOLEAN]
Handle == [pods : Seq(Pods), reverted : BOOLEAN, validPreemptionVersion : Nat,
           from : Seq(Nodes), base : Nat, undone : BOOLEAN]
Label == {"idle", "schedule", "reserve", "canSchedule", "preempt", "unpreempt",
          "restore"}

\* Every variable keeps the type its declaration in snapshot.go and types.go gives it.
TypeOK ==
  /\ nodes \subseteq Nodes
  /\ nodePods \in View
  /\ specNode \in [Pods -> Nodes \cup {NoNode}]
  /\ reserved \in [Pods -> SUBSET Nodes]
  /\ placement \subseteq nodes
  /\ undoOperations \in Seq(UndoOperation)
  /\ stateVersion \in Nat
  /\ stateVersionForPreemption \in Nat
  /\ transactionInProgress \in BOOLEAN
  /\ tx \in [initialStateVersion : Nat, initialStateVersionForPreemption : Nat]
  /\ handles \in Seq(Handle)
  /\ pc \in Label
  /\ call \in Call
  /\ reply \in {"none", "ok", "error", "panic"}
  /\ history \in Seq(View)
  /\ observed \in View
  /\ points \in Seq(View)

\* The view a rollback owes its caller: what the client saw before the dry run
\* or the failed call, at the start of the transaction, or at the creation.
Promised ==
  CASE call.fn = "Transaction" -> points[2]
    [] call.fn = "ResetMutations" -> points[1]
    [] OTHER -> observed

\* restoreState brings back exactly the pods on each node that were there when
\* its state version was recorded: for dry runs, failed SchedulePods and
\* PreemptPods calls, reverted transactions and ResetMutations, nested in any way.
RollbackExact ==
  pc = "restore" /\ stateVersion = call.base => nodePods = Promised

\* No sequence of scheduling, preempting, putting back and rolling back leaves
\* two copies of a pod in the snapshot.
NoDuplicatePods ==
  \A p \in Pods : \A n, m \in Nodes :
    /\ nodePods[n][p] =< 1
    /\ n # m => nodePods[n][p] = 0 \/ nodePods[m][p] = 0

\* A node never holds more pods than the filters let in: in particular Unpreempt
\* never puts pods back into room that has been given to others meanwhile.
NoOvercommit == \A n \in Nodes : Load(n) =< Capacity[n]

\* stateVersionForPreemption does its job: as long as Unpreempt would accept a
\* handle, its pods are not running and their objects still name the nodes they
\* were taken from, so they go back to where they were.
AcceptedHandleSound ==
  Idle => \A i \in DOMAIN handles :
    LET h == handles[i]
    IN  Accepted(h) /\ ~h.undone =>
          \A j \in DOMAIN h.pods :
            ~Running(h.pods[j]) /\ specNode[h.pods[j]] = h.from[j]

\* What the Reserve plugins hold follows the pods: between the steps of an attempt, for
\* each pod that the simulation and not the creation put on a node, and only for
\* those, there is a reservation on that node, and preempting the pod keeps it.
\* Failing Reserve plugins, rejected attempts and rollbacks leave none behind and take
\* none away that is still needed.
ReservationsMatchPods ==
  pc # "reserve" =>
    \A p \in Pods, n \in Nodes :
      n \in reserved[p] <=>
        /\ points[1][n][p] = 0
        /\ \/ nodePods[n][p] > 0
           \/ \E i \in DOMAIN undoOperations : undoOperations[i] = Operation("add", p, n)

\* Every way out of a call gives the assumed placement back: between calls and
\* during every rollback the plugins see all nodes.
PlacementReleased == pc \in {"idle", "restore"} => placement = nodes

\* SchedulePods reports what it did: when the loop is over a pod runs on the
\* reported node, and its object says so, exactly if its result is a success,
\* and with StopOnFailure nothing is attempted after a failure.
ResultsFaithful ==
  pc = "schedule" /\ call.todo = <<>> =>
    \A i \in DOMAIN call.results :
      LET r == call.results[i]
      IN  /\ r.status = "Success" <=> Running(r.pod)
          /\ r.status = "Success" => nodePods[r.node][r.pod] = 1 /\ specNode[r.pod] = r.node
          /\ call.stopOnFailure /\ i < Len(call.results) => r.status = "Success"

\* An unexpected execution error (a plugin's Error status) ends the call, as the
\* comments on SchedulePods and StopOnFailure say: nothing is attempted after it.
ErrorsEndCall ==
  \A i \in DOMAIN call.results :
    call.results[i].status = "Error" => i = Len(call.results)

\* A dry run, and a SchedulePods or PreemptPods call that fails, leave the
\* snapshot as the client last saw it, on every path out of the call.
InvisibleCalls ==
  [][/\ pc # "idle" /\ pc' = "idle"
     /\ call.dryRun \/ (reply' = "error" /\ call.fn \in {"SchedulePods", "PreemptPods"})
     => observed' = observed]_vars

\* A handle is tied to the state it was taken from: once its preemption has been
\* rolled back, Unpreempt refuses it.
UndoneHandleRejected ==
  Idle => \A i \in DOMAIN handles : handles[i].undone => ~Accepted(handles[i])

\* The inductive invariant behind RollbackExact: control, log and rollback.

\* Control: what is known of the running call and of the transaction around it.
ControlInv ==
  /\ pc = "idle" => call.fn = "none"
  /\ pc \in {"schedule", "reserve"} => call.fn = "SchedulePods"
  /\ pc = "reserve" => call.todo # <<>> /\ call.host \in nodes
  /\ pc = "preempt" => call.fn = "PreemptPods" /\ stateVersion = call.base + Len(call.done)
  /\ call.fn = "Transaction" => transactionInProgress /\ call.base = tx.initialStateVersion
  /\ call.fn = "ResetMutations" => ~transactionInProgress /\ call.base = 0
  /\ pc = "restore" =>
       call.fn \in {"SchedulePods", "PreemptPods", "Transaction", "ResetMutations"}
  /\ call.base =< stateVersion
  /\ transactionInProgress =>
       /\ tx.initialStateVersion =< stateVersion
       /\ call.fn \in {"SchedulePods", "PreemptPods"} => tx.initialStateVersion =< call.base
  /\ Len(points) = IF transactionInProgress THEN 2 ELSE 1

\* Log: one entry per state version, each on a node of the snapshot, and one
\* recorded view per mutation, the pending one of a pod being reserved included.
LogInv ==
  /\ stateVersion = Len(undoOperations)
  /\ Len(history) = IF pc = "reserve" THEN stateVersion + 1 ELSE stateVersion
  /\ \A i \in 1..stateVersion : undoOperations[i].node \in nodes

\* The view after the first k mutations that are in effect.
ViewAt(k) == IF k = Len(history) THEN nodePods ELSE history[k + 1]

\* What an entry's revert function does if it finds the pod's node unchanged.
RevertInPlace(view, e) ==
  IF e.op = "add" THEN AddPod(view, e.pod, e.node) ELSE RemovePod(view, e.pod, e.node)

\* Rollback: every entry takes the view after its mutation to the view before
\* it; the objects of preempted pods still name their nodes, now and after the
\* pods of the running call are scheduled; and the views owed to the callers
\* are the ones at the state versions they recorded.
ChainInv ==
  \A i \in 1..stateVersion : RevertInPlace(ViewAt(i), undoOperations[i]) = history[i]
NamesInv ==
  /\ \A i \in 1..stateVersion :
       undoOperations[i].op = "add" => specNode[undoOperations[i].pod] = undoOperations[i].node
  /\ pc = "reserve" => \A i \in 1..stateVersion :
       undoOperations[i].op = "add" /\ undoOperations[i].pod = Head(call.todo)
         => undoOperations[i].node = call.host
  /\ pc \in {"schedule", "reserve"} /\ ~ReusesPreemptedPods =>
       \A i \in 1..stateVersion, j \in 1..Len(call.todo) :
         undoOperations[i].op = "add" => undoOperations[i].pod # call.todo[j]
OwedInv ==
  /\ pc = "idle" => observed = nodePods
  /\ ViewAt(0) = points[1]
  /\ transactionInProgress => ViewAt(tx.initialStateVersion) = points[2]
  /\ call.fn \in {"SchedulePods", "PreemptPods"} => ViewAt(call.base) = observed
RollbackInv ==
  /\ ChainInv /\ NamesInv /\ OwedInv
  /\ pc = "reserve" =>
       RemovePod(nodePods, Head(call.todo), call.host) = history[stateVersion + 1]

\* Every state has the control, log and rollback structure that makes undoing
\* exact; RollbackExact follows from it.
InductiveInv == ControlInv /\ LogInv /\ RollbackInv

\* Every call returns: no loop over pods or undo operations runs for ever.
CallsReturn == pc # "idle" ~> pc = "idle"

\* The client sees a plain store: calls are atomic, dry runs and failed calls
\* change nothing, and reverting or resetting goes back exactly.
NodeOf(view) ==
  [p \in Pods |-> IF \E n \in Nodes : view[n][p] > 0
                  THEN CHOOSE n \in Nodes : view[n][p] > 0 ELSE NoNode]
Store == INSTANCE SnapshotStore
           WITH at <- NodeOf(observed),
                points <- [i \in DOMAIN points |-> NodeOf(points[i])]
ImplementsStore == Store!Spec
================================================================================
