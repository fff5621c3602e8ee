# Verification of scheduler-library

scheduler-library simulates Kubernetes scheduling in memory: a client takes a
snapshot of a cluster, schedules and preempts pods in it, tries things out in dry
runs and transactions, and goes back. This directory holds TLA+ models of the parts
where that can go wrong, the TLC configurations that check them on small instances,
and TLAPS proofs of the results that matter most.

## The system

| Component | State it keeps | Operations | Interacts with |
|---|---|---|---|
| `ClusterSnapshot` (`upstreamsync/snapshot`) | the scheduler snapshot (pods per node), undo log and its version, `transactionInProgress`, `stateVersionForPreemption` | `SchedulePods`, `SchedulePodsByTemplate`, `CanSchedulePod`, `PreemptPods`, `Unpreempt`, `Transaction`, `ResetMutations`, `MakePlacement` | the client, whose pod objects it keeps and writes; `Scheduler`; `MutatingSnapshot` |
| `Scheduler` (`upstreamsync/scheduler.go`) | one attempt's cycle number, start index and limit | `SchedulePod` (filter, score, assume, reserve), `FindAllNodesThatFitPod` | plugins and extenders; the shared snapshot and its assumed placement |
| `findNodesThatPassFilters` (same file) | counter, slots, error channel and context of one search | one call, many goroutines | client-go's `ParallelizeUntil`; filter plugins |
| `prioritizeNodes` (same file) | score map, mutex, wait group of one call | one call, a goroutine per extender | score plugins and extenders |
| `MutatingSnapshot` | pods added and removed through it | `AddPod`, `RemovePod`, `RestoreState` | `ClusterSnapshot`'s helpers |
| `ClusterState` (`pkg/state`) | scheduler cache and the snapshot | `SyncSnapshot` | resets, then updates the snapshot in place |
| `ProfileMap`, `pkg/framework` | plugins per scheduler name | construction, `FrameworkForPod` | no-op recorder, nominator, activator, API cacher |
| `SchedulingSimulator`, `ReadonlyClient` | informer factory, client | `NewSchedulingSimulator`, `NewClusterState`, `NewClusterSnapshot` | client-go's informers and contexts; API server, read only |

What is hard here:

- **Undoing.** Dry runs, failed calls, transactions and `ResetMutations` all pop the
  same stack of revert functions. They must nest, and a revert function must find the
  state it was written for, although it holds pointers to objects others write.
- **Handles.** `Unpreempt` must refuse a handle as soon as the state it was taken from
  is gone. One version number decides that, and it is moved forwards by some calls and
  backwards by another.
- **Partial failure.** Any pod of a batch may fail at PreFilter, Filter, assume or
  Reserve, and the placement, the reservations and the log must be right afterwards.
- **Concurrency.** Filters run in parallel and share a counter that may overshoot and
  is then taken back, while errors, enough nodes or the caller cancel the search.
  Extenders score in parallel into one map. Simulators and states share informers and
  the contexts these were started in.
- **Going through the pipeline twice.** The shortcut for a nominated node and the
  ordinary search write to the same diagnosis, and either may fail half-way.
- **Incremental sync.** `SyncSnapshot` copies only what has changed in the cache and
  relies on every mutation having been taken back exactly.

`ClusterSnapshot` itself "is not safe for concurrent use", so its calls are not
interleaved with each other; nothing is persisted, so there is no crash recovery.

## Modules

| Module | Contents |
|---|---|
| `ClusterSnapshot` | the snapshot, one action per call and per step of a call; properties; inductive invariant |
| `SnapshotStore` | the abstract specification: an assignment of pods to nodes, changed atomically, with ways back |
| `ClusterState` | extends `ClusterSnapshot` with the scheduler cache, its events and `SyncSnapshot` |
| `MutatingSnapshot` | the wrapper's two maps and `RestoreState`; inductive invariant |
| `FilterContract` | what callers of the filter search rely on |
| `ParallelFilter` | one `findNodesThatPassFilters` call and its workers; shown to meet the contract; inductive invariant |
| `NodeSelection` | one scheduling attempt from PreFilter to the selected node, with the contract in place of the search |
| `Prioritize` | one `prioritizeNodes` call and the extenders' goroutines |
| `SchedulingSimulator` | concurrent start-up calls on one informer factory |
| `MC...` | instances for TLC |
| `ClusterSnapshotProofs` | types, rollback |
| `SnapshotSafetyProofs` | the other properties of the snapshot, its refinement of the store, and `ClusterState` |
| `ParallelFilterProofs`, `NodeSelectionProofs`, `PrioritizeProofs` | theorems about the scheduler's parts |
| `MutatingSnapshotProofs`, `SchedulingSimulatorProofs` | theorems about the wrapper and about start-up |
| `SetSums` | lemmas on sums over finite sets |

Definitions preceded by "Mutant:" are deliberate errors, one for each checked
property; replacing the definition they imitate makes that property fail.

### ClusterSnapshot

The state is what the code keeps: `nodePods` (the NodeInfos), `specNode` (the
`Spec.NodeName` of the client's pod objects, which the library reads and writes),
`undoOperations` and `stateVersion`, `stateVersionForPreemption`,
`transactionInProgress` and `tx` (the locals of `Transaction`), `handles`, `placement`
(what `AssumePlacement` makes visible) and `reserved` (for each pod, the nodes on which
Reserve plugins hold something for it). `pc` and `call` are the running call. `history`, `observed` and `points`,
and the handle fields `from`, `base` and `undone`, are history variables: properties
read them, and so does the assumption below that a client drops undone handles.

A call starts with the client's action of its name and runs in steps:

- `SchedulePods`, `SchedulePodsByTemplate`: per pod `scheduleNoProfile`,
  `scheduleFails`, or `assume` and then `reserve` or `unreserveAndForget`; at the end
  `scheduleDone`, which for a dry run leads to the restore loop.
- `PreemptPods`: `removePodFromNode` per pod, then `preemptDone`; a failure leads to
  the restore loop. `Unpreempt`: `addPodToNode` per pod, last first, then
  `unpreemptDone`.
- `Transaction`: `TransactionBegin`; the client's calls; `TransactionKeep` (Commit, or
  a panic of the function) or `TransactionRevert` and the restore loop.
- The restore loop is `undo` per operation and ends in `restoreCall`,
  `restoreTransaction` or `restoreReset`. Each undo entry records the revert function
  as data: "forget" and "remove" act on the node they captured, "add" reads `specNode`
  when it runs, exactly as the closures do.

Plugins are abstract: a node fits if it has room (and, with `NodeNameFilter`, if it is
the one the pod names); which fitting node is chosen is free; pods in `FaultyPods` may
be turned down or fail at any extension point; pods in `NoProfilePods` name no profile.
Reserve plugins remember for which pod and node they hold something; if one fails, others
may have reserved before it, and `Unreserve` runs for all of them, so it is taken to be
idempotent, as the framework asks of it.
Three constants describe the client: `ReusesPreemptedPods` (it passes a pod object it
preempted to `SchedulePods`), `ReusesUndoneHandles` (it goes on using handles whose
preemption was rolled back), and the nodes outside `SnapshotNodes`, which it may name
in a placement. A pod handed to `SchedulePods` is not in the snapshot yet. The client never
writes or clears `Spec.NodeName` itself: `specNode` changes where the library writes it.

### ParallelFilter

A piece is a position of the search, `nodeOf` its node. A worker fetches a chunk
(`fetch`), looks at the context before each piece (`piece`), runs the filters
(`filter`), and then goes through `count`, `store` or `enough`, `uncount`, or through
`send`, `cancel`. Each atomic operation and each unprotected write is a step of its
own, and every worker's steps interleave. `input` is chosen freely: a verdict for every
node, `findAll`, whether there are filter plugins, and whether scoring or extenders
make more than one candidate worth finding. The caller's context may end at any time,
and filters may then fail.

A search ends in one of the outcomes `FilterContract` lists: nodes that pass, at most as
many as asked for, and each other node with a rejection, unless there were enough nodes,
an error, or a caller that gave up. `MeetsContract` says so of the goroutines, and
`NodeSelection` uses the contract alone.

### ClusterState

`cacheNodes`, `cachePods` and `dirty` are the scheduler cache (external): what it holds
and which NodeInfos have a newer generation than the snapshot. Events change it at any
time, also between the two calls of `SyncSnapshot`. `SyncSnapshot` is `ResetMutations` with
its restore loop and then `UpdateSnapshot`, which replaces the NodeInfos that are dirty or
gone and the list of nodes. It may also return an error: before it has copied anything
(`UpdateSnapshotFails`), or after it has copied everything and found its lists out of step.
The pods of the snapshot may be new objects afterwards, while the closures of a handle keep
the old ones; a pod has one `specNode` here, so for pods of handles it is a free choice
whether the old object's name or the cache's stands. Everything else is `ClusterSnapshot`'s,
whose `nodes` now change; here `Unpreempt` meets nodes that have left, and puts back some
pods of a handle and not others.

### MutatingSnapshot

`at` is where each pod is; `addedPods` and `removedPods` hold for each key the node the
closure acts on. `RestoreState` runs in steps, one per closure, because a closure calls
`RemovePod` or `AddPod`, which change the map being iterated. With `MovesPods` false the
client adds a pod it removed only on the node it was on.

### NodeSelection

The control points follow the code: `schedulePod`'s check of an empty placement, PreFilter
(`RunPreFilterPlugins`), the nominated node (`evaluateNominatedNode`, with `shortcut` true
while it is tried), `selectCandidates`, the search (`findNodesThatPassFilters`, or
`takeNodes` without filter plugins), the extender chain (`skipExtender`, `callExtender`,
`extenderFails`, `extendersDone`) and `select`. `nodeToStatus`, `absentStatus` and
`extenderName` are the diagnosis, which both passes share. `input` is chosen freely: the
filters' verdicts, which extenders are interested, the nominated node
(inside or outside the placement, or unknown), `findAll`, the placement, the limit and
whether there are filter plugins. An extender's answer is chosen anew at each call: a list
taken from the nodes it was given and, independently of it, the two maps of failed nodes. Of
`nextStartNodeIndex` only the division is kept, since
which nodes a limited search meets first is free in the contract.

### Prioritize

The caller starts a goroutine per interested extender (`spawn`), waits, adds up and takes
a best node. A goroutine asks its extender, which may fail, takes the mutex, and per node
looks up the entry and adds to it in two steps. Scores and weights are numbers small
enough for TLC and chosen so that every set of extenders gives another total.

### SchedulingSimulator

Each call goes through `begin`, `InitMetricsOnce`, `register` or `NewProfileMap`, `start`,
`wait` and `return`. `registered` and `startedBy` are client-go's factory: it starts an
informer once, in the context of the call that does so, and `Live` says whether that
context still lasts. A call's context may end at any time, and a map of profiles may fail to
build after some of its plugins have asked for informers.

## Runs

| Run | Checks | Shows |
|---|---|---|
| `core` | 9 invariants, `InvisibleCalls`, `CallsReturn`, `ImplementsStore` | the snapshot is right for clients that neither reuse preempted pod objects nor undone handles |
| `sync` | `StateTypeOK`, `SyncExact`, `IncrementalExact`, `RollbackExact` | after a sync the snapshot is the cache's content; rollbacks stay exact across syncs, for a client that reuses preempted pod objects (with the NodeName filter) and undone handles, and if only some pods of a handle come back |
| `restore` | `TrackingInv`, `RestoreExact` | the maps are the difference to the first state and `RestoreState` takes it back |
| `filter` | `ResultSound`, `SearchComplete`, `MeetsContract`, `FilterInv`, `LimitStays`, `SlotsWrittenOnce`, `SearchReturns` | the search is sound, complete, and ends, whoever cancels it |
| `select` | `TypeOK`, `SelectedFits`, `SelectedNotRejected`, `FindAllAccounts`, `FitErrorJustified`, `FilteringNeverPanics`, `AttemptReturns` | a selected node fits, and no filter plugin or failed extender has marked it rejected; a search for all nodes loses none without a trace; "unschedulable" means that all nodes were looked at, extenders apart |
| `prioritize` | `TypeOK`, `TotalsExact`, `NobodyLeftBehind`, `PrioritizeReturns` | no score is lost or counted twice, whoever fails |
| `start_up` | `TypeOK`, `ReadyMeansSynced`, `MetricsFirst`, `CallsReturn` | what is handed out has been synced; a call that fails half-way does not block the others (one whose context ends can: finding 5) |
| `stale_handle` | `UndoneHandleRejected` fails | finding 1 |
| `reused_pod` | `RollbackExact` fails | finding 2 |
| `plugin_errors` | `ErrorsEndCall` fails | finding 3 |
| `no_nodes_left` | `SchedulePodReturns` fails | finding 4 |
| `reuse` | `StaysLive` fails | finding 5 |

Bounds. Two nodes with room for one and two pods and up to four pods (running, pending
and faulty, without a profile, created from a template) give full and free nodes, a
failure before and after a success in a batch of two, and preempted room given to
another pod. `MaxOps` = 3 undo operations hold a committed mutation below a transaction
and a call of two pods inside it; `MaxVersion` = 2 lets the preemption version go up,
back and up again; one or two handles at a time. `core` has about 215,000 states. Three
nodes and two workers (`filter`) are enough for a worker to overshoot while another has
counted and a third node is still to be filtered; chunks of more than one node are left to
the proof. `sync` has two nodes with a pod on each, two events, which can remove a node and
bring it back or move a pod, batches of two, and `MaxVersion` = 3, so that a sync comes between
preemption and rollback and `Unpreempt` meets one node that is there and one that has left:
854,000 states. `restore` has all four kinds of pods, and removes and adds them in
any order. `select` has a placement of two of three nodes, limits below and at its size, and
two extenders, so that a node may pass one and not the other, in the first pass and in the
second: 1.2 million states. Three extenders (`prioritize`) let one wait for the mutex while
another fails. Two simulators and two states with three informers (`start_up`) are enough
for a call to wait for informers another one started or left behind.

Deadlock is checked in the runs of `ClusterSnapshot`, `ClusterState` and
`MutatingSnapshot`: a client can always make another call. The other modules model calls
that end, so there it is not.

Fairness. `Step` is weakly fair in `ClusterSnapshot`: a call is sequential code that
waits for nothing. The client owes no further call. `NodeSelection` is one goroutine too:
plugins and extenders return. In `ParallelFilter` the calling
goroutine and each worker are weakly fair: the Go scheduler runs every runnable
goroutine and filter plugins return. The caller's cancellation is not fair. The same holds
for `Prioritize`. In `SchedulingSimulator` a call that has begun and a running informer's
first list are fair (the API server answers); nobody has to call or to cancel.

## Findings

1. **A rolled-back handle is accepted again** (`snapshot.go:146`). Reverting a
   transaction puts `stateVersionForPreemption` back, so the next transaction has the
   number of the reverted one; `Unpreempt` accepts a handle from it and the pod, which
   the rollback has already put back, is in the snapshot twice. `types.go:85` ties a
   handle to the state it was taken from.
2. **A rollback puts a pod on the wrong node** (`helpers.go:66`). The revert function
   of a preemption reads `pod.Spec.NodeName` when it runs. If the client preempts a pod
   and schedules the same object elsewhere, `snapshot.go:278` has changed it. The
   NodeName filter of the default profile prevents it (`sync`) as long as the client does
   not clear `Spec.NodeName` in between; a profile without it does not (`reused_pod`).
3. **Plugin errors do not end the call** (`scheduler.go:142`), against
   `snapshot.go:209` and `types.go:35`: they become a result's status.
4. **An attempt divides by zero** (`scheduler.go:553`). PreFilter plugins may allow only
   names that are not in the placement. `nodes` is then empty, and for a profile without
   filter plugins the loop evaluates `% numAllNodes`. `scheduler.go:282` promises a FitError.
   With filter plugins it cannot happen (`FilteringNeverPanics`).
5. **Reused simulators freeze** (`simulator.go:153`). The plugins' informers run in the
   context of the first `NewClusterState` or `NewClusterSnapshot` call. When it ends they
   stop, and nobody starts them again: states made later read caches that do not change any
   more, or wait for ever if they were not synced yet. `simulator.go:79` says that the
   simulator owns the informers and is "created once and reused".

Six more statements of comments do not hold. They are defined in the modules and not kept
as runs; checking each as said makes TLC show the counterexample.

6. `FirstFit`, in `Filter.cfg`: `SchedulePodsByTemplate` does not fill nodes in order
   (`snapshot.go:218`); with a limit of one, the first worker to count wins.
7. `FindAllExplains`, in `Filter.cfg`: a cancelled `FindAllNodesThatFitPod` looks complete
   (`scheduler.go:343`): nodes not examined are neither returned nor explained and there is
   no error.
8. `NoRepeatedNodes`, in `Filter.cfg` with `NumNodesToFind = 4`: a large limit without filter
   plugins repeats nodes (`scheduler.go:78`). No caller in the library passes one with
   `findAll` off.
9. `RestoreExact`, in `Restore.cfg` with `MovesPods = TRUE`: the maps are keyed by pod, so a
   pod removed from one node and added to another cancels out and stays there
   (`mutable_snapshot.go:45`). Nothing in the library calls `RestoreState`.
10. `FitErrorExplains`, in `Select.cfg`: extenders are asked after the search has stopped at
    its limit, which is one in `SchedulePods` (`snapshot.go:267`). If an extender rejects the
    node found, the pod is unschedulable although nodes nobody looked at may fit, and the
    FitError has no reason for them (`scheduler.go:282`). At present no option of
    `NewProfileMap` configures extenders.
11. `FindAllExplains`, in `Select.cfg`: `FindAllNodesThatFitPod` promises "the
    diagnosis explaining why the remaining ones were rejected" (`scheduler.go:343`), but takes an extender's list and its
    maps of failed nodes independently (`scheduler.go:650-663`). A node the list leaves out
    and no map mentions has no status of its own; only the extenders as a whole are named.
    `FindAllAccounts` states what is left of the promise.

## Proofs

Every safety property of the passing runs, invariant or action property, and the refinement
to `SnapshotStore` are theorems; liveness is left to TLC. The named assumptions of the
modules say what kind of thing each constant is. The pods of a snapshot, the nodes of an
attempt and of a scoring call, workers and extenders are finitely many, because their numbers
are compared or added up; nodes of a snapshot, calls and informers may be infinitely many, and
no bound (`MaxOps`, `MaxVersion`, limits, chunk sizes) has a particular value. What a theorem
assumes of the client stands in its `ASSUME`:

| Assumption | Meaning | Why it is needed |
|---|---|---|
| `NamesProtected` | `NodeNameFilter \/ ~ReusesPreemptedPods`, for a client that leaves `Spec.NodeName` to the library | finding 2; a client that clears the field before rescheduling meets it with the filter too |
| `CarefulClient` | `~ReusesPreemptedPods /\ ~ReusesUndoneHandles` | findings 1 and 2 |
| `StartsWithinCapacity` | no node is overcommitted when the snapshot is created | otherwise `NoOvercommit` fails in the first state |
| `MovesPods = FALSE` | a removed pod comes back to its node | finding 9 |

### The snapshot

**ClusterSnapshotProofs.** `RollbackExact` speaks of the moment a restore loop ends and
is far from inductive. `InductiveInv` strengthens it in three parts. `ControlInv`: the
version a running call or transaction recorded is never above the current one, and a
call's is never below its transaction's, so the loop meets it exactly. `LogInv`: one
entry per version, on a known node, and one recorded view per mutation. `RollbackInv`:
every entry takes the view after its mutation to the view before it (`ChainInv`),
preempted pod objects still name their nodes (`NamesInv`), and the views owed to callers
are those at the versions they recorded (`OwedInv`). `TypeOK`, `ControlInv` and `LogInv`
together (`StructInv`) hold for every client; the rollback part needs `NamesProtected`.

| Theorem | Statement |
|---|---|
| `StructureHolds`, `TypeCorrect` | `Spec => []StructInv`, `Spec => []TypeOK` |
| `InductiveInvHolds`, `RollbackIsExact` | under `NamesProtected`: `Spec => []InductiveInv`, `Spec => []RollbackExact` |
| `CallsInvisible` | under `NamesProtected`: `Spec => InvisibleCalls` |

**SnapshotSafetyProofs** goes on from there, in six parts.

*Placements* are released by every client. `PlaceInv` lists the control points at which all
nodes are visible.

*Pods and handles.* That no pod is in the snapshot twice and that a handle is safe to use
depend on each other: a pod comes back through a handle or through a rollback, and must
then be absent. `PodInv` says so of every view a rollback can still bring back, not only of
the current one:

- `UniqueInv`: no view has a pod twice; `NamedInv`: the object of a pod in a view names a
  node, so that the client's check keeps it out of `SchedulePods`;
- `ScheduleInv`, `PreemptInv`, `UnpreemptInv`: what a call has done so far, and that the
  pods it has still to deal with are where it expects them;
- `LinkInv`: the preemption of a live handle is still in the log, entry by entry, below
  everything the running call would take back, and all of it on one side of the start of
  the transaction. A handle is live unless it is undone or the running rollback will pop
  its entries;
- `AbsentInv`: since its preemption, a pod of an outstanding handle is in no view, those
  that `Unpreempt` has just put back excepted; `DisjointInv`: no pod is in two outstanding
  handles.

*Reservations.* `Unreserve` gives back whatever is held for a pod on a node, so a failed
attempt, or a rollback, would take away an earlier attempt's reservation if there were one for
the same pod and node. `HoldInv` shows that there is none: reservations are the "forget"
entries of the log (`ReservedInv`); at *every* state version such an entry exists exactly for
the pods that are on the node and were not at the creation, or were preempted from there since
(`HeldInv`); and no "forget" of a pod lies above a preemption of it (`OrderInv`). With
`UniqueInv` and `ChainInv`, an entry that is popped is then the only one of its kind, and an
attempt that fails had nothing below it. `ReservationsMatchPods` is `HeldInv` at the current
version.

*Room.* `Unpreempt` runs no filter, so `NoOvercommit` rests on the version number alone.
`CapacityInv` adds `VersionInv` (a handle is not newer than the snapshot and, in a
transaction, was taken before it or in it), `RoomInv` (every view fits; what the client saw
last has room for its pods *and* for all those that the handles of the current version may
put back; and the same for the view and the version at the start of the transaction, which a
rollback restores) and `KeptInv` (a call only adds to what the client saw, or only takes
away). A call that gives room away ends the version, so nothing is owed any more. `Load`, a
sum over the pods, is the number of pods because no pod is there twice.

*The store.* `StoreStep` maps every step to a step of `SnapshotStore` or to none: the
assignment changes when a call that stays returns (`Place`,
`Remove`), and the start and the end of a transaction and a reset save and restore points. With `CapacityInv` this gives `ImplementsStore`,
safety and the abstract initial states included.

*Syncs.* `ClusterState` changes the snapshot's nodes in place, so the invariants are shown
again for its steps. `StateInv` joins `StructInv` and `RollbackInv` with `SyncingInv` (during
a sync all mutations are being taken back, or have been), with the first view being what the
last sync copied, and with `IncrementalExact`. `UpdateSnapshot` happens with an empty log,
so what it replaces is owed to nobody.

| Theorem | Statement |
|---|---|
| `PlacementIsReleased` | `Spec => []PlacementReleased` |
| `PodInvHolds` | under `CarefulClient`: `Spec => []PodInv` |
| `NoPodTwice`, `AcceptedHandlesAreSound`, `ResultsAreFaithful` | under `CarefulClient`: `[]NoDuplicatePods`, `[]AcceptedHandleSound`, `[]ResultsFaithful` |
| `ReservationsFollowPods` | under `CarefulClient`: `Spec => []ReservationsMatchPods` |
| `CapacityInvHolds`, `NodesStayWithinCapacity` | under `CarefulClient` and `StartsWithinCapacity`: `[]CapacityInv`, `[]NoOvercommit` |
| `SnapshotImplementsStore` | under the same: `Spec => ImplementsStore` |
| `StateInvHolds`, `StateTypeCorrect` | under `NamesProtected`: `StateSpec => []StateInv`, `[]StateTypeOK` |
| `SyncIsExact`, `UnchangedNodesAreExact`, `RollbackIsExactAcrossSyncs` | under `NamesProtected`: `StateSpec => []SyncExact`, `[]IncrementalExact`, `[]RollbackExact` |

### The scheduler

**ParallelFilterProofs.** `FilterInv` says that the counter is the slots granted plus the
workers that overshot, that overshooting happens only when all slots are granted, that a
granted slot is written or belongs to exactly one worker (`CountInv`); that a fetched
piece belongs to one worker, once (`PieceInv`); and that a piece is skipped only with an
excuse, an error, a cancelled caller or enough nodes (`SkipInv`). It is proved for any
number of nodes and workers, any chunk size, start index and limit. The contract needs one
fact more, that only rejected nodes have a rejection (`RejectInv`), and that a slice without
repetitions has as many nodes as entries.

| Theorem | Statement |
|---|---|
| `FilterInvHolds` | `Spec => []FilterInv` |
| `FilterResultSound`, `FilterSearchComplete` | `Spec => []ResultSound`, `Spec => []SearchComplete` |
| `SearchMeetsContract` | `Spec => []MeetsContract` |
| `CounterStaysAtLimit`, `SlotsAreWrittenOnce` | `Spec => LimitStays`, `Spec => SlotsWrittenOnce` |

**NodeSelectionProofs.** The properties speak of the result; `SelectionInv` says what is
known at each control point on the way to it: nothing has been found before a search, the
shortcut looks at the nominated node alone and never for `findAll`, any other search at the
candidates (`ControlInv`); a rejection comes from a filter plugin or from an extender's
answer, and what a search found has passed the filters (`DiagnosisInv`); a search that nobody interrupted has a
rejection for each node it lost (`AccountInv`). The last part uses the contract's numbers: as
many nodes as were asked for, among finitely many, are all of them.

| Theorem | Statement |
|---|---|
| `SelectionInvHolds`, `TypeCorrect` | `Spec => []SelectionInv`, `Spec => []TypeOK` |
| `SelectedNodeFits`, `SelectedNodeNotRejected` | `[]SelectedFits`, `[]SelectedNotRejected` |
| `FindAllAccountsForNodes`, `FitErrorIsJustified`, `FilteringDoesNotPanic` | `[]FindAllAccounts`, `[]FitErrorJustified`, `[]FilteringNeverPanics` |

**PrioritizeProofs.** `PrioritizeInv`: the wait group is the number of goroutines that run,
the mutex belongs to the one at the map (`GoroutinesInv`); an entry of the map is the sum of
the scores of the extenders that have added theirs, and the holder of the mutex knows the
entry it is about to write (`MapInv`); the caller has its own part and nothing else
(`CallerInv`). `TypeCorrect` includes that the wait group is exact.

| Theorem | Statement |
|---|---|
| `PrioritizeInvHolds`, `TypeCorrect` | `Spec => []PrioritizeInv`, `Spec => []TypeOK` |
| `TotalsAreExact`, `NoGoroutineLeft` | `[]TotalsExact`, `[]NobodyLeftBehind` |

**SetSums** has the facts about sums over finite sets that the totals and the load of a node
need: the empty sum, one element more or less, and a sum of ones as a cardinality. Folds
are defined by recursion on sets, and an induction rule would take the claim as a parameter;
`SubsetInduction` takes the family of subsets the claim holds for instead, and is proved from
the well-foundedness of strict inclusion on finite sets.

### The rest

**MutatingSnapshotProofs.** `RestoreExact` speaks of the last step of a loop. `TrackingInv`
says what makes it true: per pod, the maps are the difference between the snapshot and its
first state (`MutationsTracked`), and a loop's remaining keys are those of its map
(`LoopInv`).

**SchedulingSimulatorProofs.** `OnceInv` follows `sync.Once`: one call at a time runs
`InitMetrics`, and whoever is past it has seen it done. `ReadyInv` says from which step on the
informers a call needs are registered, started, waited for and synced.

| Theorem | Statement |
|---|---|
| `Tracking`, `Restoring` | under `MovesPods = FALSE`: `Spec => []TrackingInv`, `Spec => RestoreExact` |
| `TypeCorrect`, `MetricsInitialisedFirst`, `ReadyIsSynced` | `Spec => []TypeOK`, `[]MetricsFirst`, `[]ReadyMeansSynced` |

### Only model-checked

The liveness properties `CallsReturn` (of the snapshot and of start-up), `SearchReturns`,
`AttemptReturns` and `PrioritizeReturns`: liveness under fairness is out of the prover's
reach. The safety half of each is proved: the restore loop meets its version (`ControlInv`),
and the wait group counts the goroutines that still run (`GoroutinesInv`). The violations
are counterexamples and need no proof.

## Not modelled

- Stateless parts: the no-op recorder, nominator, activator and API cacher of
  `pkg/framework`, `ReadonlyClient` (a filter on HTTP methods), test helpers.
- `buildExtenders`: no option sets the extenders, so it returns at once. The models allow
  extenders, because the pipeline handles them.
- Pod contents, resources and diagnosis texts: a node has room for a number of pods, a
  status is a code.
- `OpportunisticBatching`'s store of results: the node hint it gives is one of the values of
  `nominated`.
- The pod signatures, metrics values and traces.
- 64-bit wrap-around of the version counters.
- A client that calls into the snapshot from another goroutine, which the code forbids.

## Plan

Done: the snapshot and its abstraction; its composition with the cache; the wrapper and
`RestoreState`; the filter search with its contract; node selection on top of the contract;
scoring; start-up; theorems for every safety property and for the refinement. Left:

1. A variant that decreases with every step of a running call, as an action property, so
   that only the scheduler's fairness is left to TLC in `CallsReturn` and `SearchReturns`.
2. What holds for clients that are not careful: which parts of `PodInv` survive without
   `~ReusesUndoneHandles`.
