------------------------------- MODULE Prioritize -------------------------------
(***************************************************************************)
(* prioritizeNodes of pkg/upstreamsync/scheduler.go and schedulePod's      *)
(* choice of a node: the score plugins, then one goroutine per extender    *)
(* that adds its scores to a map all of them share.  One behavior is one   *)
(* call.                                                                   *)
(***************************************************************************)
EXTENDS Integers, FiniteSets, Functions

CONSTANTS
  Nodes,            \* the feasible nodes
  Extenders,        \* extenders a profile may have
  None,             \* no entry, nobody, no node
  PluginScore,      \* [Nodes -> Nat]: what the score plugins give
  ExtenderScore,    \* [Extenders -> [Nodes -> Nat]]
  Weight,           \* [Extenders -> Nat]
  Scale             \* MaxScore / MaxExtenderPriority

ASSUME PrioritizeAssumption ==
  /\ IsFiniteSet(Nodes) /\ Nodes # {} /\ IsFiniteSet(Extenders)
  /\ None \notin Nodes \cup Extenders \cup Int
  /\ PluginScore \in [Nodes -> Nat]
  /\ ExtenderScore \in [Extenders -> [Nodes -> Nat]]
  /\ Weight \in [Extenders -> Nat] /\ Scale \in Nat

VARIABLES
  hasScorePlugins,         \* the profile has score plugins
  extenders,               \* the profile's extenders
  pc,                      \* the calling goroutine
  loop,                    \* extenders the loop has not come to
  wg,                      \* the WaitGroup's counter
  mu,                      \* the goroutine that holds the mutex, or None
  epc,                     \* per extender: its goroutine's control point
  list,                    \* per extender: nodes whose score is still to be added
  read,                    \* per extender: the node and total it is working on
  allNodeExtendersScores,  \* per node: the TotalScore of its entry, or None
  nodesScores,             \* per node: the TotalScore of the result
  result,                  \* the selected node, "error", or None
  answered                 \* history: extenders whose Prioritize succeeded

profile == <<hasScorePlugins, extenders>>
caller == <<profile, pc, loop, nodesScores, result>>
goroutines == <<wg, mu, epc, list, read, allNodeExtendersScores, answered>>
vars == <<caller, goroutines>>

finalscore(e, n) == ExtenderScore[e][n] * Weight[e] * Scale

\* The total in a node's entry, if it has one.
Entry(n) == IF allNodeExtendersScores[n] = None THEN 0 ELSE allNodeExtendersScores[n]

Init ==
  /\ hasScorePlugins \in BOOLEAN
  /\ extenders \in SUBSET Extenders
  /\ pc = "score"
  /\ loop = extenders
  /\ wg = 0
  /\ mu = None
  /\ epc = [e \in Extenders |-> "idle"]
  /\ list = [e \in Extenders |-> {}]
  /\ read = [e \in Extenders |-> <<None, 0>>]
  /\ allNodeExtendersScores = [n \in Nodes |-> None]
  /\ nodesScores = [n \in Nodes |-> 0]
  /\ result = None
  /\ answered = {}

--------------------------------------------------------------------------------
(* The calling goroutine                                                   *)

\* Without extenders and score plugins every node scores one; otherwise PreScore
\* and Score plugins run, and an error of theirs is returned.
score ==
  /\ pc = "score"
  /\ \/ /\ extenders = {} /\ ~hasScorePlugins
        /\ nodesScores' = [n \in Nodes |-> 1]
        /\ pc' = "select" /\ UNCHANGED result
     \/ /\ extenders # {} \/ hasScorePlugins
        /\ \/ pc' = "done" /\ result' = "error" /\ UNCHANGED nodesScores
           \/ /\ nodesScores' = IF hasScorePlugins THEN PluginScore ELSE nodesScores
              /\ pc' = "spawn" /\ UNCHANGED result
  /\ UNCHANGED <<profile, loop, goroutines>>

\* The loop over the extenders: wg.Add(1) and a goroutine for one that is interested
\* in the pod.
spawn(e) ==
  /\ pc = "spawn" /\ e \in loop
  /\ loop' = loop \ {e}
  /\ \/ wg' = wg + 1 /\ epc' = [epc EXCEPT ![e] = "prioritize"]
     \/ UNCHANGED <<wg, epc>>
  /\ UNCHANGED <<profile, pc, mu, list, read, allNodeExtendersScores,
                 nodesScores, result, answered>>

\* Mutant: the caller does not wait.
waitNot ==
  /\ pc = "spawn" /\ loop = {}
  /\ pc' = "total"
  /\ UNCHANGED <<profile, loop, nodesScores, result, goroutines>>

wait ==
  /\ pc = "spawn" /\ loop = {} /\ wg = 0
  /\ pc' = "total"
  /\ UNCHANGED <<profile, loop, nodesScores, result, goroutines>>

total ==
  /\ pc = "total"
  /\ pc' = "select"
  /\ nodesScores' = [n \in Nodes |-> nodesScores[n] + Entry(n)]
  /\ UNCHANGED <<profile, loop, result, goroutines>>

\* The first of the sorted nodes: a random number decides between equals.
Best == {n \in Nodes : \A m \in Nodes : nodesScores[n] >= nodesScores[m]}

select ==
  /\ pc = "select"
  /\ pc' = "done"
  /\ result' \in Best
  /\ UNCHANGED <<profile, loop, nodesScores, goroutines>>

--------------------------------------------------------------------------------
(* An extender's goroutine                                                 *)

\* Mutant: wg.Done is not deferred, and an error leaves before it.
callExtenderNoDone(e) ==
  /\ epc[e] = "prioritize"
  /\ \/ epc' = [epc EXCEPT ![e] = "exited"] /\ UNCHANGED <<list, answered>>
     \/ /\ epc' = [epc EXCEPT ![e] = "lock"]
        /\ list' = [list EXCEPT ![e] = Nodes]
        /\ answered' = answered \cup {e}
  /\ UNCHANGED <<caller, wg, mu, read, allNodeExtendersScores>>

\* Prioritize fails, and the extender gives no scores, or returns a list.
callExtender(e) ==
  /\ epc[e] = "prioritize"
  /\ \/ epc' = [epc EXCEPT ![e] = "wgDone"] /\ UNCHANGED <<list, answered>>
     \/ /\ epc' = [epc EXCEPT ![e] = "lock"]
        /\ list' = [list EXCEPT ![e] = Nodes]
        /\ answered' = answered \cup {e}
  /\ UNCHANGED <<caller, wg, mu, read, allNodeExtendersScores>>

\* Mutant: the mutex is not taken.
lockNot(e) ==
  /\ epc[e] = "lock"
  /\ epc' = [epc EXCEPT ![e] = "read"]
  /\ UNCHANGED <<caller, wg, mu, list, read, allNodeExtendersScores, answered>>

lock(e) ==
  /\ epc[e] = "lock" /\ mu = None
  /\ mu' = e
  /\ epc' = [epc EXCEPT ![e] = "read"]
  /\ UNCHANGED <<caller, wg, list, read, allNodeExtendersScores, answered>>

\* The entry of the list's next node is looked up, and created if it is nil; ...
lookUp(e) ==
  /\ epc[e] = "read"
  /\ \E n \in list[e] :
       /\ read' = [read EXCEPT ![e] = <<n, Entry(n)>>]
       /\ allNodeExtendersScores' = [allNodeExtendersScores EXCEPT ![n] = Entry(n)]
       /\ list' = [list EXCEPT ![e] = @ \ {n}]
  /\ epc' = [epc EXCEPT ![e] = "add"]
  /\ UNCHANGED <<caller, wg, mu, answered>>

\* ... then the score is added to its total.
addScore(e) ==
  /\ epc[e] = "add"
  /\ allNodeExtendersScores' = [allNodeExtendersScores EXCEPT
       ![read[e][1]] = read[e][2] + finalscore(e, read[e][1])]
  /\ epc' = [epc EXCEPT ![e] = "read"]
  /\ UNCHANGED <<caller, wg, mu, list, read, answered>>

\* The deferred functions, the last one first.
unlock(e) ==
  /\ epc[e] = "read" /\ list[e] = {}
  /\ mu' = None
  /\ epc' = [epc EXCEPT ![e] = "wgDone"]
  /\ UNCHANGED <<caller, wg, list, read, allNodeExtendersScores, answered>>

wgDone(e) ==
  /\ epc[e] = "wgDone"
  /\ wg' = wg - 1
  /\ epc' = [epc EXCEPT ![e] = "exited"]
  /\ UNCHANGED <<caller, mu, list, read, allNodeExtendersScores, answered>>

Extender(e) ==
  callExtender(e) \/ lock(e) \/ lookUp(e) \/ addScore(e) \/ unlock(e) \/ wgDone(e)

Caller == score \/ (\E e \in Extenders : spawn(e)) \/ wait \/ total \/ select

Next == Caller \/ \E e \in Extenders : Extender(e)

\* Goroutines are scheduled fairly and extenders answer or fail.
Spec == Init /\ [][Next]_vars /\ WF_vars(Caller) /\ \A e \in Extenders : WF_vars(Extender(e))

--------------------------------------------------------------------------------
(* Properties                                                              *)

\* Every variable keeps its type; the WaitGroup counts the goroutines that run.
TypeOK ==
  /\ hasScorePlugins \in BOOLEAN /\ extenders \subseteq Extenders
  /\ pc \in {"score", "spawn", "total", "select", "done"}
  /\ wg = Cardinality({e \in Extenders : epc[e] \notin {"idle", "exited"}})
  /\ mu \in Extenders \cup {None}
  /\ allNodeExtendersScores \in [Nodes -> Nat \cup {None}]
  /\ nodesScores \in [Nodes -> Nat]
  /\ result \in Nodes \cup {"error", None}
  /\ answered \subseteq extenders

\* A node's total when all scores that were given are added.
FullScore(n) ==
  IF extenders = {} /\ ~hasScorePlugins THEN 1
  ELSE (IF hasScorePlugins THEN PluginScore[n] ELSE 0)
       + SumFunctionOnSet([e \in Extenders |-> finalscore(e, n)], answered)

\* No score of an extender that answered is lost or counted twice, in whatever order
\* the goroutines come to the map and whichever of them fail.
TotalsExact == pc = "select" => \A n \in Nodes : nodesScores[n] = FullScore(n)

\* The map is not touched any more once the caller reads it: no goroutine outlives
\* the call.
NobodyLeftBehind ==
  pc \in {"total", "select", "done"} => \A e \in Extenders : epc[e] \in {"idle", "exited"}

\* prioritizeNodes returns, even if every extender fails.
PrioritizeReturns == <>(pc = "done")
================================================================================
