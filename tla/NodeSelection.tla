----------------------------- MODULE NodeSelection -----------------------------
(***************************************************************************)
(* Which node a scheduling attempt selects: schedulePod and                *)
(* FindAllNodesThatFitPod of pkg/upstreamsync/scheduler.go with the        *)
(* pipeline below them: PreFilter, the shortcut for a nominated node, the  *)
(* filter search, the extenders, and the choice among what is left.        *)
(* One behavior is one attempt.                                            *)
(***************************************************************************)
EXTENDS FilterContract

CONSTANTS
  Nodes,             \* nodes of the snapshot
  Placement,         \* nodes of the assumed placement, unless it is empty
  NoNode,            \* the empty node name
  UnknownNode,       \* the name of a node that is not in the snapshot
  Limits,            \* values of sched.numNodesToFind
  HasScoring,        \* the profile has score plugins
  NumExtenders,      \* the profile's filter extenders
  IgnorableExtenders \* those that may fail without failing the attempt

ASSUME NodeSelectionAssumption ==
  /\ IsFiniteSet(Nodes) /\ Placement \subseteq Nodes
  /\ {NoNode, UnknownNode} \cap Nodes = {} /\ NoNode # UnknownNode
  /\ Limits \subseteq Nat \ {0} /\ NumExtenders \in Nat
  /\ IgnorableExtenders \subseteq 1..NumExtenders
  /\ HasScoring \in BOOLEAN

VARIABLES
  input,         \* the pod, the profile and the call
  pc,            \* control point
  preRes,        \* nodes the PreFilter plugins allow
  shortcut,      \* the nominated node is being evaluated
  nodes,         \* nodes the search looks at
  feasibleNodes,
  extender,      \* the extender to call next
  nodeToStatus,  \* diagnosis: the rejection recorded for each node, or "none"
  absentStatus,  \* diagnosis: the status of nodes without one of their own
  extenderName,  \* diagnosis: the extenders are among the unschedulable plugins
  result,        \* what the call returned
  \* History variables.
  found,         \* what the filter search of this pass returned
  interrupted,   \* the caller gave up during the filter search of this pass
  blamed         \* nodes that an extender's answer calls failed

diagnosis == <<nodeToStatus, absentStatus, extenderName>>
vars == <<input, pc, preRes, shortcut, nodes, feasibleNodes, extender, diagnosis,
          result, found, interrupted, blamed>>

AllNodes == Nodes \cup {UnknownNode}

\* The filter plugins' verdicts; the extenders interested in the pod; nominated:
\* NominatedNodeName, or else the node hint.
Inputs == [verdict : [Placement -> {"Success", "Unschedulable", "Error"}],
           interested : SUBSET (1..NumExtenders),
           nominated : Nodes \cup {UnknownNode, NoNode},
           findAll : BOOLEAN, placement : {Placement, {}},
           limit : Limits, hasFilterPlugins : BOOLEAN]

numNodesToFind ==
  IF input.findAll THEN Cardinality(nodes)
  ELSE IF NumExtenders > 0 \/ HasScoring THEN input.limit ELSE 1

\* CanSchedulePod, which asks for all nodes, returns at once if the placement is empty.
Init ==
  /\ input \in Inputs
  /\ input.findAll => input.placement # {}
  /\ input.hasFilterPlugins \/ \A n \in Placement : input.verdict[n] = "Success"
  /\ pc = "schedulePod"
  /\ preRes = AllNodes
  /\ shortcut = FALSE
  /\ nodes = {} /\ feasibleNodes = {} /\ found = {}
  /\ extender = 1
  /\ nodeToStatus = [n \in Nodes |-> "none"]
  /\ absentStatus = "none"
  /\ extenderName = FALSE
  /\ result = [kind |-> "none", nodes |-> {}]
  /\ interrupted = FALSE /\ blamed = {}

Return(kind, ns) == pc' = "done" /\ result' = [kind |-> kind, nodes |-> ns]

--------------------------------------------------------------------------------
(* findNodesThatFitPod                                                     *)

\* Mutant: an empty placement is not noticed.
schedulePodAnyway ==
  /\ pc = "schedulePod"
  /\ pc' = "preFilter"
  /\ UNCHANGED <<input, preRes, shortcut, nodes, feasibleNodes, extender, diagnosis,
                 result, found, interrupted, blamed>>

schedulePod ==
  /\ pc = "schedulePod"
  /\ \/ input.placement = {} /\ Return("ErrNoNodesAvailable", {})
     \/ input.placement # {} /\ pc' = "preFilter" /\ UNCHANGED result
  /\ UNCHANGED <<input, preRes, shortcut, nodes, feasibleNodes, extender, diagnosis,
                 found, interrupted, blamed>>

\* Mutant: the shortcut is taken although all nodes are asked for.
TriesNominatedAlways == input.nominated # NoNode

TriesNominated == ~input.findAll /\ input.nominated # NoNode

\* The PreFilter plugins fail, reject the pod on all nodes, or allow some nodes.
\* The names they allow need not be names of nodes; allowing none is a rejection.
RunPreFilterPlugins ==
  /\ pc = "preFilter"
  /\ \/ Return("error", {}) /\ UNCHANGED <<preRes, absentStatus>>
     \/ /\ absentStatus' = "Unschedulable"
        /\ Return(IF input.findAll THEN "nodes" ELSE "FitError", {})
        /\ UNCHANGED preRes
     \/ /\ preRes' \in {AllNodes} \cup (SUBSET (Placement \cup {UnknownNode}) \ {{}})
        /\ pc' = IF TriesNominated THEN "nominated" ELSE "candidates"
        /\ UNCHANGED <<absentStatus, result>>
  /\ UNCHANGED <<input, shortcut, nodes, feasibleNodes, extender, nodeToStatus,
                 extenderName, found, interrupted, blamed>>

\* The nominated node is tried alone.  The PreFilter plugins' choice of nodes does
\* not matter here; a node outside the placement, or unknown, is not tried.
evaluateNominatedNode ==
  /\ pc = "nominated"
  /\ IF input.nominated \in input.placement
       THEN shortcut' = TRUE /\ nodes' = {input.nominated} /\ pc' = "search"
       ELSE pc' = "candidates" /\ UNCHANGED <<shortcut, nodes>>
  /\ UNCHANGED <<input, preRes, feasibleNodes, extender, diagnosis, result, found,
                 interrupted, blamed>>

\* Mutant: the PreFilter plugins' choice is not applied.
CandidatesAll == input.placement

\* Mutant: names of nodes outside the placement are kept.
CandidatesUnchecked == preRes

\* Names that are not of the placement are left out.
Candidates == input.placement \cap preRes

selectCandidates ==
  /\ pc = "candidates"
  /\ shortcut' = FALSE
  /\ nodes' = Candidates
  /\ absentStatus' = IF preRes = AllNodes THEN absentStatus
                     ELSE "UnschedulableAndUnresolvable"
  /\ feasibleNodes' = {} /\ found' = {}
  /\ extender' = 1
  /\ interrupted' = FALSE
  /\ pc' = "search"
  /\ UNCHANGED <<input, preRes, nodeToStatus, extenderName, result, blamed>>

\* Mutant: the shortcut is tried again.
FailAgain ==
  IF shortcut THEN pc' = "nominated" /\ UNCHANGED result ELSE Return("error", {})

\* An error of the shortcut is logged and the ordinary search follows.
Fail ==
  IF shortcut THEN pc' = "candidates" /\ UNCHANGED result ELSE Return("error", {})

\* After a search that is not the shortcut's, and before its error is looked at,
\* nextStartNodeIndex advances modulo the number of nodes of the placement.
Advance(error) ==
  IF ~shortcut /\ input.placement = {} THEN Return("panic", {})
  ELSE IF error THEN Fail
  ELSE pc' = "extenders" /\ UNCHANGED result

\* The filter plugins run on the nodes.  (nodes[...%numAllNodes] is evaluated once
\* per node, so zero nodes do no harm.)
findNodesThatPassFilters ==
  /\ pc = "search" /\ input.hasFilterPlugins
  /\ \E o \in Outcomes(nodes, input.verdict, numNodesToFind) :
       /\ feasibleNodes' = o.found /\ found' = o.found
       /\ nodeToStatus' = [n \in Nodes |-> IF n \in o.rejected THEN "Unschedulable"
                                           ELSE nodeToStatus[n]]
       /\ interrupted' = o.interrupted
       /\ Advance(o.error)
  /\ UNCHANGED <<input, preRes, shortcut, nodes, extender, absentStatus, extenderName,
                 blamed>>

\* Without filter plugins numNodesToFind nodes are taken round the list of nodes;
\* taking one of no node divides by zero.  A limit above the number of nodes takes
\* nodes again; feasibleNodes is a set here and leaves the repetitions out.
takeNodes ==
  /\ pc = "search" /\ ~input.hasFilterPlugins
  /\ \/ /\ nodes = {} /\ numNodesToFind > 0
        /\ Return("panic", {})
        /\ UNCHANGED <<feasibleNodes, found>>
     \/ /\ \E ns \in SUBSET nodes :
             /\ Cardinality(ns) = numNodesToFind \/ (ns = nodes /\ nodes # {})
             /\ Cardinality(ns) =< numNodesToFind
             /\ feasibleNodes' = ns /\ found' = ns
        /\ Advance(FALSE)
  /\ UNCHANGED <<input, preRes, shortcut, nodes, extender, diagnosis, interrupted, blamed>>

--------------------------------------------------------------------------------
(* findNodesThatPassExtenders                                              *)

Calls == pc = "extenders" /\ extender =< NumExtenders /\ feasibleNodes # {}

\* The extender is not interested in the pod.
skipExtender ==
  /\ Calls /\ extender \notin input.interested
  /\ extender' = extender + 1
  /\ UNCHANGED <<input, pc, preRes, shortcut, nodes, feasibleNodes, diagnosis, result,
                 found, interrupted, blamed>>

\* The extender's answer is a list and two maps, and the code does not relate them:
\* a node it leaves out of the list need not be in a map, one in a map may stay in
\* the list, and nothing makes a second pass get the same answer.  Taken from the
\* extender's interface is only that the list has no nodes it was not given.  In both
\* maps, "unresolvable" wins over "failed".
callExtender ==
  /\ Calls /\ extender \in input.interested
  /\ feasibleNodes' \in SUBSET feasibleNodes
  /\ \E failed, unresolvable \in SUBSET Nodes :
       /\ nodeToStatus' = [n \in Nodes |->
            IF n \in unresolvable THEN "UnschedulableAndUnresolvable"
            ELSE IF n \in failed THEN "Unschedulable"
            ELSE nodeToStatus[n]]
       /\ blamed' = blamed \cup failed \cup unresolvable
  /\ extender' = extender + 1
  /\ UNCHANGED <<input, pc, preRes, shortcut, nodes, absentStatus, extenderName, result,
                 found, interrupted>>

\* Mutant: the nodes a failing extender was asked about are called unschedulable.
extenderFailsNodes ==
  /\ Calls /\ extender \in input.interested
  /\ IF extender \in IgnorableExtenders
       THEN /\ extender' = extender + 1 /\ UNCHANGED <<pc, result>>
            /\ nodeToStatus' = [n \in Nodes |-> IF n \in feasibleNodes
                                 THEN "Unschedulable" ELSE nodeToStatus[n]]
       ELSE Fail /\ UNCHANGED <<extender, nodeToStatus>>
  /\ UNCHANGED <<input, preRes, shortcut, nodes, feasibleNodes, absentStatus, extenderName,
                 found, interrupted, blamed>>

\* Nothing of a failing extender's answer is used.
extenderFails ==
  /\ Calls /\ extender \in input.interested
  /\ IF extender \in IgnorableExtenders
       THEN extender' = extender + 1 /\ UNCHANGED <<pc, result>>
       ELSE Fail /\ UNCHANGED extender
  /\ UNCHANGED <<input, preRes, shortcut, nodes, feasibleNodes, diagnosis, found,
                 interrupted, blamed>>

\* Mutant: a nominated node that is rejected ends the attempt.
AfterExtendersSelect == "select"

\* A nominated node that is rejected is no reason to give up.
AfterExtenders == IF shortcut /\ feasibleNodes = {} THEN "candidates" ELSE "select"

extendersDone ==
  /\ pc = "extenders"
  /\ extender > NumExtenders \/ feasibleNodes = {}
  /\ pc' = AfterExtenders
  /\ extenderName' = (~shortcut /\ feasibleNodes # found)
  /\ UNCHANGED <<input, preRes, shortcut, nodes, feasibleNodes, extender, nodeToStatus,
                 absentStatus, result, found, interrupted, blamed>>

--------------------------------------------------------------------------------
\* Back in schedulePod, or in the caller of FindAllNodesThatFitPod.  Among several
\* nodes prioritizeNodes decides, or fails.
select ==
  /\ pc = "select"
  /\ \/ input.findAll /\ Return("nodes", feasibleNodes)
     \/ ~input.findAll /\ feasibleNodes = {} /\ Return("FitError", {})
     \/ ~input.findAll /\ \E n \in feasibleNodes : Return("host", {n})
     \/ ~input.findAll /\ Cardinality(feasibleNodes) > 1 /\ Return("error", {})
  /\ UNCHANGED <<input, preRes, shortcut, nodes, feasibleNodes, extender, diagnosis,
                 found, interrupted, blamed>>

Next ==
  \/ schedulePod \/ RunPreFilterPlugins \/ evaluateNominatedNode \/ selectCandidates
  \/ findNodesThatPassFilters \/ takeNodes
  \/ skipExtender \/ callExtender \/ extenderFails \/ extendersDone \/ select

\* One goroutine runs all of it, and plugins and extenders return.
Spec == Init /\ [][Next]_vars /\ WF_vars(Next)

--------------------------------------------------------------------------------
(* Properties                                                              *)

Status == {"none", "Unschedulable", "UnschedulableAndUnresolvable"}

\* Every variable keeps its type, and the search never leaves the placement.
TypeOK ==
  /\ input \in Inputs
  /\ preRes \subseteq AllNodes
  /\ feasibleNodes \subseteq found /\ found \subseteq nodes /\ nodes \subseteq input.placement
  /\ extender \in 1..(NumExtenders + 1)
  /\ nodeToStatus \in [Nodes -> Status] /\ absentStatus \in Status
  /\ shortcut \in BOOLEAN /\ extenderName \in BOOLEAN
  /\ interrupted \in BOOLEAN /\ blamed \subseteq Nodes
  /\ result.nodes \subseteq input.placement

\* The diagnosis has a rejection of the node's own.
Rejected(n) == nodeToStatus[n] # "none"

\* A selected node is one the PreFilter plugins allow, or the nominated one, and no
\* filter plugin rejects it: whatever was left over from a failed shortcut.
SelectedFits ==
  \A n \in result.nodes :
    /\ n \in preRes \/ (shortcut /\ n = input.nominated)
    /\ input.hasFilterPlugins => input.verdict[n] = "Success"

\* A selected node has no rejection left from the filter plugins or from an extender
\* that failed, although the shortcut and the search write to the same diagnosis: if
\* it has one, an extender called it failed in its answer and also returned it, in
\* this pass or in a later one.
SelectedNotRejected == \A n \in result.nodes : Rejected(n) => n \in blamed

\* FindAllNodesThatFitPod loses no node of the placement: one that is not returned has
\* a rejection of its own, was excluded by a PreFilter plugin, or passed the filter
\* plugins and was left out by an extender, and then the diagnosis has the extenders
\* among the unschedulable plugins.  The exception is a caller that gave up.
FindAllAccounts ==
  result.kind = "nodes" /\ ~interrupted =>
    \A n \in input.placement \ result.nodes :
      Rejected(n) \/ absentStatus # "none" \/ (n \in found /\ extenderName)

\* If a pod is called unschedulable without an extender's doing, no node of the
\* placement would have been right: all were looked at, in spite of the shortcut and
\* of the limit.
FitErrorJustified ==
  result.kind = "FitError" /\ preRes = AllNodes /\ absentStatus = "none"
  /\ ~interrupted /\ ~extenderName =>
    \A n \in input.placement : input.verdict[n] = "Unschedulable" /\ Rejected(n)

\* A profile with filter plugins never divides by a number of nodes that is zero,
\* whatever the placement and whatever nodes the PreFilter plugins leave.
FilteringNeverPanics == input.hasFilterPlugins => result.kind # "panic"

\* The attempt ends.
AttemptReturns == <>(pc = "done")

--------------------------------------------------------------------------------
(* What the comments on schedulePod and on FindAllNodesThatFitPod say and  *)
(* the code does not do: findings 4, 10 and 11 of the README.              *)

\* An attempt that fails does so with an error, for every profile.
SchedulePodReturns == result.kind # "panic"

\* A FitError gives the reason for every node that was not excluded beforehand.
FitErrorExplains ==
  result.kind = "FitError" /\ absentStatus = "none" /\ ~interrupted =>
    \A n \in input.placement : Rejected(n)

\* The diagnosis of FindAllNodesThatFitPod explains every node that is not returned.
FindAllExplains ==
  result.kind = "nodes" /\ absentStatus = "none" /\ ~interrupted =>
    \A n \in input.placement \ result.nodes : Rejected(n)
================================================================================
