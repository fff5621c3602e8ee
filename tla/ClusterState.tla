------------------------------ MODULE ClusterState ------------------------------
(***************************************************************************)
(* pkg/state: the scheduler cache, which other goroutines feed with the    *)
(* cluster's events, and the snapshot, which SyncSnapshot brings up to     *)
(* date in place: it takes back all mutations and then copies the nodes    *)
(* that have changed in the cache since the last time, and only those.     *)
(***************************************************************************)
EXTENDS ClusterSnapshot

CONSTANT MaxEvents       \* bound: events of the cluster

VARIABLES
  cacheNodes,   \* nodes the cache knows
  cachePods,    \* the node of each pod in the cache, NoNode if it is not there
  dirty,        \* nodes changed in the cache since the last UpdateSnapshot
  syncing,      \* SyncSnapshot has called ResetMutations and UpdateSnapshot is next
  events,       \* how many events there were (bound)
  synced        \* history: what the cache held at the last UpdateSnapshot

cache == <<cacheNodes, cachePods, dirty, events>>
stateVars == <<vars, cache, syncing, synced>>

\* A NodeInfo of the cache: the pods on the node, which it need not know yet.
cachePodsOn(n) == [p \in Pods |-> IF cachePods[p] = n THEN 1 ELSE 0]
NoPods == [p \in Pods |-> 0]

\* What a snapshot of the whole cache would hold.
CacheView == [n \in Nodes |-> IF n \in cacheNodes THEN cachePodsOn(n) ELSE NoPods]

\* The cache and a snapshot of it.  (NewClusterState starts with both empty.)
StateInit ==
  /\ Init
  /\ cacheNodes = SnapshotNodes
  /\ cachePods = InitialNode
  /\ dirty = {}
  /\ syncing = FALSE
  /\ events = 0
  /\ synced = nodePods

--------------------------------------------------------------------------------
(* The cluster's events                                                    *)

\* Every event stamps the NodeInfos it touches with a new generation.
Event(touched) ==
  /\ events < MaxEvents
  /\ events' = events + 1
  /\ dirty' = dirty \cup touched
  /\ UNCHANGED <<vars, syncing, synced>>

AddNode ==
  \E n \in Nodes \ cacheNodes :
    /\ cacheNodes' = cacheNodes \cup {n}
    /\ UNCHANGED cachePods
    /\ Event({n})

\* The pods of a removed node stay in the cache until they are removed too.
RemoveNode ==
  \E n \in cacheNodes :
    /\ cacheNodes' = cacheNodes \ {n}
    /\ UNCHANGED cachePods
    /\ Event({n})

AddCachePod ==
  \E p \in Pods \ TemplatePods, n \in Nodes :
    /\ cachePods[p] = NoNode
    /\ cachePods' = [cachePods EXCEPT ![p] = n]
    /\ UNCHANGED cacheNodes
    /\ Event({n})

RemoveCachePod ==
  \E p \in Pods :
    /\ cachePods[p] # NoNode
    /\ cachePods' = [cachePods EXCEPT ![p] = NoNode]
    /\ UNCHANGED cacheNodes
    /\ Event({cachePods[p]})

--------------------------------------------------------------------------------
(* SyncSnapshot                                                            *)

\* Mutant: the mutations are not taken back first.
SyncSnapshotKeepsMutations ==
  /\ ~syncing
  /\ Idle /\ ~transactionInProgress
  /\ syncing' = TRUE
  /\ UNCHANGED <<vars, cache, synced>>

\* ResetMutations is called, and an error of it ends the call.
SyncSnapshot ==
  /\ ~syncing
  /\ ResetMutations
  /\ syncing' = ~transactionInProgress
  /\ UNCHANGED <<cache, synced>>

\* Mutant: only nodes new to the snapshot are copied.
RefreshedNew(n) == n \notin nodes

\* A node's NodeInfo is copied if its generation is newer than the snapshot.
Refreshed(n) == n \in dirty

\* Mutant: the list the plugins iterate over is not rebuilt.
NodeInfoListKept == placement

\* The list of nodes is rebuilt when nodes have come or gone.
NodeInfoList == cacheNodes

\* Pods whose objects the client's handles hold on to.
HeldByHandles == UNION {Range(handles[i].pods) : i \in DOMAIN handles}

\* From then on the client works with the pod objects it finds in the snapshot, except
\* where a handle holds an older object of the pod, which keeps its node name.  The
\* cache may still report that its lists were out of step, after it has repaired them.
UpdateSnapshot ==
  /\ syncing /\ Idle
  /\ nodes' = cacheNodes
  /\ nodePods' = [n \in Nodes |-> IF Refreshed(n) \/ n \notin cacheNodes
                                  THEN CacheView[n] ELSE nodePods[n]]
  /\ \E old \in SUBSET HeldByHandles :
       specNode' = [p \in Pods |-> IF cachePods[p] = NoNode \/ p \in old
                                   THEN specNode[p] ELSE cachePods[p]]
  /\ placement' = NodeInfoList
  /\ dirty' = {}
  /\ syncing' = FALSE
  /\ reply' \in {"ok", "error"}
  /\ observed' = nodePods'
  /\ points' = <<nodePods'>>
  /\ synced' = CacheView
  /\ UNCHANGED <<reserved, undoLog, stateVersionForPreemption, transaction, handles,
                 pc, call, history, cacheNodes, cachePods, events>>

\* An error before anything was copied: the mutations are gone, the changes of the cache
\* are left to the next call.
UpdateSnapshotFails ==
  /\ syncing /\ Idle
  /\ syncing' = FALSE
  /\ reply' = "error"
  /\ UNCHANGED <<nodes, nodePods, specNode, reserved, placement, undoLog,
                 stateVersionForPreemption, transaction, handles, pc, call,
                 history, observed, points, cache, synced>>

--------------------------------------------------------------------------------
StateNext ==
  \/ ~syncing /\ Client /\ UNCHANGED <<cache, syncing, synced>>
  \/ Step /\ UNCHANGED <<cache, syncing, synced>>
  \/ SyncSnapshot \/ UpdateSnapshot \/ UpdateSnapshotFails
  \/ AddNode \/ RemoveNode \/ AddCachePod \/ RemoveCachePod

StateSpec == StateInit /\ [][StateNext]_stateVars

--------------------------------------------------------------------------------
(* Properties                                                              *)

\* The cache's own variables keep their types.
StateTypeOK ==
  /\ TypeOK
  /\ cacheNodes \subseteq Nodes
  /\ cachePods \in [Pods -> Nodes \cup {NoNode}]
  /\ dirty \subseteq Nodes
  /\ syncing \in BOOLEAN
  /\ events \in Nat
  /\ synced \in View

\* SyncSnapshot makes the snapshot the cache's content, although it copies changed
\* nodes only: below the mutations made since, the snapshot is what the cache held
\* then, whatever was scheduled, preempted, rolled back and refreshed before.
SyncExact == undoOperations = <<>> /\ Idle => nodePods = synced

\* What lets SyncSnapshot copy so little: a node that has not changed in the cache
\* is, once mutations are taken back, in the snapshot as it is in the cache.
IncrementalExact ==
  \A n \in cacheNodes \ dirty : n \in nodes /\ points[1][n] = cachePodsOn(n)
================================================================================
