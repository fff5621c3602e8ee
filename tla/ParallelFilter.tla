----------------------------- MODULE ParallelFilter -----------------------------
(***************************************************************************)
(* findNodesThatPassFilters of pkg/upstreamsync/scheduler.go: one call,    *)
(* whose worker goroutines run the filter plugins on the nodes in parallel *)
(* and share an atomic counter, a slice of found nodes, an error channel   *)
(* and a context that cancels the rest of the search.                      *)
(*                                                                         *)
(* A piece is a position in the search: piece i is the node i places after *)
(* the start index, round the list of nodes.                               *)
(***************************************************************************)
EXTENDS Integers, Sequences, FiniteSets, FilterContract

CONSTANTS
  NumAllNodes,         \* len(nodes)
  NextStartNodeIndex,  \* sched.nextStartNodeIndex
  NumNodesToFind,      \* sched.numNodesToFind
  Workers,             \* the Parallelizer's goroutines
  ChunkSize,           \* pieces a goroutine fetches at once
  CallerMayCancel,     \* the caller's context may be cancelled during the call
  FiltersWatchContext, \* a filter plugin may fail when its context is cancelled
  None                 \* nil

ASSUME ParallelFilterAssumption ==
  /\ {NumAllNodes, NumNodesToFind, ChunkSize} \subseteq Nat \ {0}
  /\ NextStartNodeIndex \in Nat
  /\ IsFiniteSet(Workers) /\ Workers # {}
  /\ {CallerMayCancel, FiltersWatchContext} \subseteq BOOLEAN
  /\ None \notin Int

VARIABLES
  input,             \* the plugins' verdicts and the call's options
  pc,                \* "call", "until", "done": the calling goroutine
  toProcess,         \* first piece that no worker has fetched
  wpc, at, to,       \* per worker: control point, its pieces at..to - 1, the first current
  length,            \* per worker: the local of checkNode
  feasibleNodesLen,  \* the atomic counter
  feasibleNodes,     \* slot k holds the piece written to it, or None
  result,            \* pieces with a rejection recorded
  errCh,             \* the error channel holds an error
  cancelled,         \* the search's context is done
  callerCancelled,   \* the caller's context is done
  found              \* the nodes returned

shared == <<feasibleNodesLen, feasibleNodes, result, errCh, cancelled, callerCancelled>>
vars == <<input, pc, toProcess, wpc, at, to, length, shared, found>>

Pieces == 0..(NumAllNodes - 1)
nodeOf(i) == (NextStartNodeIndex + i) % NumAllNodes

Verdict == {"Success", "Unschedulable", "Error"}

\* What the caller passes and the profile says: the filter plugins' verdict on
\* each node, findAll, whether there are filter plugins, and whether something
\* (a score plugin or an extender) makes more than one candidate worth finding.
Inputs == [verdict : [Pieces -> Verdict], findAll : BOOLEAN,
           hasFilterPlugins : BOOLEAN, hasCandidateUse : BOOLEAN]

numNodesToFind ==
  IF input.findAll THEN NumAllNodes
  ELSE IF input.hasCandidateUse THEN NumNodesToFind ELSE 1

Slots == 1..numNodesToFind

Init ==
  /\ input \in Inputs
  /\ pc = "call"
  /\ toProcess = 0
  /\ wpc = [w \in Workers |-> "fetch"]
  /\ at = [w \in Workers |-> 0]
  /\ to = [w \in Workers |-> 0]
  /\ length = [w \in Workers |-> 0]
  /\ feasibleNodesLen = 0
  /\ feasibleNodes = [k \in Slots |-> None]
  /\ result = {}
  /\ errCh = FALSE
  /\ cancelled = FALSE
  /\ callerCancelled = FALSE
  /\ found = <<>>

\* Without filter plugins the first nodes are taken as they come.
noFilterPlugins ==
  /\ pc = "call" /\ ~input.hasFilterPlugins
  /\ pc' = "done"
  /\ found' = [k \in Slots |-> nodeOf(k - 1)]
  /\ UNCHANGED <<input, toProcess, wpc, at, to, length, shared>>

until ==
  /\ pc = "call" /\ input.hasFilterPlugins
  /\ pc' = "until"
  /\ UNCHANGED <<input, toProcess, wpc, at, to, length, shared, found>>

--------------------------------------------------------------------------------
(* A worker: the Parallelizer's loop around checkNode.                     *)

Goto(w, label) == wpc' = [wpc EXCEPT ![w] = label]

\* checkNode has returned: on to the next piece.
NextPiece(w) == Goto(w, "piece") /\ at' = [at EXCEPT ![w] = @ + 1]

\* Fetch a chunk, or leave when there is none.
fetch(w) ==
  /\ pc = "until" /\ wpc[w] = "fetch"
  /\ \/ /\ toProcess < NumAllNodes
        /\ LET end == IF toProcess + ChunkSize < NumAllNodes
                      THEN toProcess + ChunkSize ELSE NumAllNodes
           IN  to' = [to EXCEPT ![w] = end] /\ toProcess' = end
        /\ at' = [at EXCEPT ![w] = toProcess]
        /\ Goto(w, "piece")
     \/ /\ toProcess >= NumAllNodes
        /\ Goto(w, "exited")
        /\ UNCHANGED <<at, to, toProcess>>
  /\ UNCHANGED <<input, pc, length, shared, found>>

\* Before each piece a worker looks whether the context is done.
piece(w) ==
  /\ wpc[w] = "piece"
  /\ \/ at[w] >= to[w] /\ Goto(w, "fetch")
     \/ at[w] < to[w] /\ cancelled /\ Goto(w, "exited")
     \/ at[w] < to[w] /\ ~cancelled /\ Goto(w, "filter")
  /\ UNCHANGED <<input, pc, toProcess, at, to, length, shared, found>>

\* Mutant: a node whose filter failed is tried again.
filterAgain(w) ==
  /\ wpc[w] = "filter"
  /\ LET v == input.verdict[nodeOf(at[w])]
     IN  \/ v = "Success" /\ Goto(w, "count") /\ UNCHANGED <<at, result>>
         \/ v = "Error" /\ Goto(w, "piece") /\ UNCHANGED <<at, result>>
         \/ v = "Unschedulable" /\ result' = result \cup {at[w]} /\ NextPiece(w)
  /\ UNCHANGED <<input, pc, toProcess, to, length, feasibleNodesLen, feasibleNodes,
                 errCh, cancelled, callerCancelled, found>>

\* The filter plugins' answer on the piece's node.  A rejection is recorded.
filter(w) ==
  /\ wpc[w] = "filter"
  /\ \E v \in Verdict :
       /\ \/ v = input.verdict[nodeOf(at[w])]
          \/ v = "Error" /\ cancelled /\ FiltersWatchContext
       /\ \/ v = "Success" /\ Goto(w, "count") /\ UNCHANGED <<at, result>>
          \/ v = "Error" /\ Goto(w, "send") /\ UNCHANGED <<at, result>>
          \/ /\ v = "Unschedulable"
             /\ result' = result \cup {at[w]}
             /\ NextPiece(w)
  /\ UNCHANGED <<input, pc, toProcess, to, length, feasibleNodesLen, feasibleNodes,
                 errCh, cancelled, callerCancelled, found>>

\* Mutant: the last slot is refused (>= for >).
countAtLimit(w) ==
  /\ wpc[w] = "count"
  /\ feasibleNodesLen' = feasibleNodesLen + 1
  /\ length' = [length EXCEPT ![w] = feasibleNodesLen + 1]
  /\ Goto(w, IF feasibleNodesLen + 1 >= numNodesToFind THEN "enough" ELSE "store")
  /\ UNCHANGED <<input, pc, toProcess, at, to, feasibleNodes, result, errCh,
                 cancelled, callerCancelled, found>>

\* length := atomic.AddInt32(&feasibleNodesLen, 1)
count(w) ==
  /\ wpc[w] = "count"
  /\ feasibleNodesLen' = feasibleNodesLen + 1
  /\ length' = [length EXCEPT ![w] = feasibleNodesLen + 1]
  /\ Goto(w, IF feasibleNodesLen + 1 > numNodesToFind THEN "enough" ELSE "store")
  /\ UNCHANGED <<input, pc, toProcess, at, to, feasibleNodes, result, errCh,
                 cancelled, callerCancelled, found>>

\* Mutant: the slot is taken from the slice's 0-based index once too often.
storeOffByOne(w) ==
  /\ wpc[w] = "store"
  /\ feasibleNodes' = [feasibleNodes EXCEPT ![length[w] - 1] = at[w]]
  /\ NextPiece(w)
  /\ UNCHANGED <<input, pc, toProcess, to, length, feasibleNodesLen, result, errCh,
                 cancelled, callerCancelled, found>>

\* feasibleNodes[length-1] = nodeInfo
store(w) ==
  /\ wpc[w] = "store"
  /\ feasibleNodes' = [feasibleNodes EXCEPT ![length[w]] = at[w]]
  /\ NextPiece(w)
  /\ UNCHANGED <<input, pc, toProcess, to, length, feasibleNodesLen, result, errCh,
                 cancelled, callerCancelled, found>>

\* The node is one too many: the search is cancelled first, ...
enough(w) ==
  /\ wpc[w] = "enough"
  /\ cancelled' = TRUE
  /\ Goto(w, "uncount")
  /\ UNCHANGED <<input, pc, toProcess, at, to, length, feasibleNodesLen, feasibleNodes,
                 result, errCh, callerCancelled, found>>

\* Mutant: the counter goes back by what this worker read, not by one.
uncountLength(w) ==
  /\ wpc[w] = "uncount"
  /\ feasibleNodesLen' = feasibleNodesLen - length[w]
  /\ NextPiece(w)
  /\ UNCHANGED <<input, pc, toProcess, to, length, feasibleNodes, result, errCh,
                 cancelled, callerCancelled, found>>

\* ... then atomic.AddInt32(&feasibleNodesLen, -1).
uncount(w) ==
  /\ wpc[w] = "uncount"
  /\ feasibleNodesLen' = feasibleNodesLen - 1
  /\ NextPiece(w)
  /\ UNCHANGED <<input, pc, toProcess, to, length, feasibleNodes, result, errCh,
                 cancelled, callerCancelled, found>>

\* errCh.SendWithCancel: the first error stays in the channel, ...
send(w) ==
  /\ wpc[w] = "send"
  /\ errCh' = TRUE
  /\ Goto(w, "cancel")
  /\ UNCHANGED <<input, pc, toProcess, at, to, length, feasibleNodesLen, feasibleNodes,
                 result, cancelled, callerCancelled, found>>

\* ... then the search is cancelled.
cancel(w) ==
  /\ wpc[w] = "cancel"
  /\ cancelled' = TRUE
  /\ NextPiece(w)
  /\ UNCHANGED <<input, pc, toProcess, to, length, feasibleNodesLen, feasibleNodes,
                 result, errCh, callerCancelled, found>>

--------------------------------------------------------------------------------
\* The caller's context ends, and with it the search's.
CallerCancels ==
  /\ CallerMayCancel /\ pc = "until" /\ ~callerCancelled
  /\ callerCancelled' = TRUE
  /\ cancelled' = TRUE
  /\ UNCHANGED <<input, pc, toProcess, wpc, at, to, length, feasibleNodesLen,
                 feasibleNodes, result, errCh, found>>

\* Until returns when every worker has left; the result is feasibleNodes[:feasibleNodesLen]
\* (a slot nobody wrote is a nil node), with the error if there is one.
return ==
  /\ pc = "until" /\ \A w \in Workers : wpc[w] = "exited"
  /\ pc' = "done"
  /\ found' = [k \in 1..feasibleNodesLen |->
                 IF feasibleNodes[k] = None THEN None ELSE nodeOf(feasibleNodes[k])]
  /\ UNCHANGED <<input, toProcess, wpc, at, to, length, shared>>

Worker(w) ==
  fetch(w) \/ piece(w) \/ filter(w) \/ count(w) \/ store(w) \/ enough(w)
  \/ uncount(w) \/ send(w) \/ cancel(w)

Caller == noFilterPlugins \/ until \/ return

Next == Caller \/ CallerCancels \/ \E w \in Workers : Worker(w)

\* Goroutines are scheduled fairly and filter plugins return; nothing obliges the
\* caller's context to end.
Spec == Init /\ [][Next]_vars /\ WF_vars(Caller) /\ \A w \in Workers : WF_vars(Worker(w))

--------------------------------------------------------------------------------
(* Properties                                                              *)

WorkerLabel == {"fetch", "piece", "filter", "count", "store", "enough", "uncount",
                "send", "cancel", "exited"}

\* Every variable keeps its type; the counter is never negative.
TypeOK ==
  /\ input \in Inputs
  /\ pc \in {"call", "until", "done"}
  /\ toProcess \in 0..NumAllNodes
  /\ wpc \in [Workers -> WorkerLabel]
  /\ at \in [Workers -> 0..NumAllNodes]
  /\ to \in [Workers -> 0..NumAllNodes]
  /\ length \in [Workers -> Nat]
  /\ feasibleNodesLen \in Nat
  /\ feasibleNodes \in [Slots -> Pieces \cup {None}]
  /\ result \subseteq Pieces
  /\ {errCh, cancelled, callerCancelled} \subseteq BOOLEAN

\* The slice that is returned has no nil node and no node twice, all its nodes
\* passed the filters, and it is no longer than asked for: although the counter
\* overshoots and is taken back while other workers count.
ResultSound ==
  pc = "done" /\ input.hasFilterPlugins =>
    /\ Len(found) =< numNodesToFind
    /\ \A k \in DOMAIN found :
         /\ found[k] # None
         /\ input.verdict[found[k]] = "Success"
    /\ \A k, l \in DOMAIN found : found[k] = found[l] => k = l

\* A search that returns fewer nodes than asked for, no error, and whose caller
\* did not give up, has a rejection on record for every other node: no pod is
\* called unschedulable while a node was skipped.
SearchComplete ==
  /\ pc = "done" /\ input.hasFilterPlugins
  /\ ~errCh /\ ~callerCancelled /\ Len(found) < numNodesToFind
  => \A i \in Pieces : i \in result \/ \E k \in DOMAIN found : found[k] = nodeOf(i)

\* The search meets the contract its callers are modelled with, whatever the
\* workers' interleaving: what it returns is one of FilterContract's outcomes.
MeetsContract ==
  pc = "done" /\ input.hasFilterPlugins =>
    [found |-> {found[k] : k \in DOMAIN found},
     rejected |-> {nodeOf(i) : i \in result},
     error |-> errCh, interrupted |-> callerCancelled]
      \in Outcomes(Pieces, input.verdict, numNodesToFind)

\* Once enough nodes are counted, no later compensation lets the counter fall
\* below the limit again, so no slot is handed out twice.
LimitStays ==
  [][feasibleNodesLen >= numNodesToFind => feasibleNodesLen' >= numNodesToFind]_vars

\* A worker never overwrites the node another one found.
SlotsWrittenOnce ==
  [][\A k \in Slots : feasibleNodes[k] # None => feasibleNodes'[k] = feasibleNodes[k]]_vars

\* Every search returns, whoever cancels it.
SearchReturns == <>(pc = "done")

--------------------------------------------------------------------------------
(* What comments say of the search and the code does not do: findings 6 to *)
(* 8 of the README.                                                        *)

\* SchedulePodsByTemplate moves to the next node only if the pod is
\* unschedulable on the current one: the node found first is the first that fits.
FirstFit ==
  pc = "done" /\ input.hasFilterPlugins /\ ~input.findAll /\ ~errCh /\ found # <<>> =>
    \A i \in Pieces : input.verdict[nodeOf(i)] = "Success" =>
      \E j \in 0..i : found[1] = nodeOf(j)

\* FindAllNodesThatFitPod returns every node that fits and explains the others.
FindAllExplains ==
  pc = "done" /\ input.findAll /\ input.hasFilterPlugins /\ ~errCh =>
    \A i \in Pieces : i \in result \/ \E k \in DOMAIN found : found[k] = nodeOf(i)

\* A large numNodesToFind considers all nodes: none is returned twice.
NoRepeatedNodes ==
  pc = "done" => \A k, l \in DOMAIN found : found[k] = found[l] => k = l

--------------------------------------------------------------------------------
(* The inductive invariant behind ResultSound and SearchComplete           *)

\* Workers act during Until only, and what is returned is what they left.
ControlInv ==
  /\ pc # "until" => \A w \in Workers : wpc[w] \in {"fetch", "exited"}
  /\ pc = "done" /\ input.hasFilterPlugins =>
       /\ \A w \in Workers : wpc[w] = "exited"
       /\ found = [k \in 1..feasibleNodesLen |->
                     IF feasibleNodes[k] = None THEN None ELSE nodeOf(feasibleNodes[k])]

\* The counter is the number of slots granted plus the workers that overshot, and
\* a worker overshoots only when all slots are granted.  A granted slot is written
\* or belongs to exactly one worker about to write it.
Over == {w \in Workers : wpc[w] \in {"enough", "uncount"}}
Granted == feasibleNodesLen - Cardinality(Over)
CountInv ==
  /\ Granted \in 0..numNodesToFind
  /\ Over # {} => Granted = numNodesToFind
  /\ \A k \in Slots : k > Granted => feasibleNodes[k] = None
  /\ \A k \in Slots : k =< Granted /\ feasibleNodes[k] = None =>
       \E w \in Workers : wpc[w] = "store" /\ length[w] = k
  /\ \A w \in Workers : wpc[w] = "store" =>
       length[w] \in 1..Granted /\ feasibleNodes[length[w]] = None
  /\ \A w, v \in Workers :
       wpc[w] = "store" /\ wpc[v] = "store" /\ length[w] = length[v] => w = v

\* A piece that has been fetched is one worker's to do, and once.
Owns(w, i) == wpc[w] \notin {"fetch", "exited"} /\ at[w] =< i /\ i < to[w]
PieceInv ==
  /\ \A w \in Workers :
       /\ to[w] =< toProcess
       /\ wpc[w] \notin {"fetch", "piece", "exited"} => at[w] < to[w]
       /\ wpc[w] \in {"count", "store"} => input.verdict[nodeOf(at[w])] = "Success"
  /\ \A w, v \in Workers, i \in Pieces : Owns(w, i) /\ Owns(v, i) => w = v
  /\ \A k \in Slots : feasibleNodes[k] # None =>
       /\ feasibleNodes[k] < toProcess
       /\ input.verdict[nodeOf(feasibleNodes[k])] = "Success"
       /\ \A w \in Workers : ~Owns(w, feasibleNodes[k])
  /\ \A k, l \in Slots :
       feasibleNodes[k] # None /\ feasibleNodes[k] = feasibleNodes[l] => k = l

\* A piece is skipped only for a reason: the caller gave up, an error is in the
\* channel, or enough nodes are counted.
Excused == callerCancelled \/ errCh \/ feasibleNodesLen >= numNodesToFind
Settled(i) ==
  i >= toProcess \/ i \in result \/ \E k \in Slots : feasibleNodes[k] = i
SkipInv ==
  /\ cancelled => Excused
  /\ \A w \in Workers : wpc[w] = "cancel" => errCh
  /\ \A w \in Workers : wpc[w] = "exited" => toProcess >= NumAllNodes \/ Excused
  /\ Excused \/ \A i \in Pieces : Settled(i) \/ \E w \in Workers : Owns(w, i)

\* A rejection is recorded only for a node the filters rejected.
RejectInv == \A i \in result : input.verdict[nodeOf(i)] = "Unschedulable"

\* Every state of a search has this structure, from which soundness and
\* completeness of its result follow.
FilterInv == TypeOK /\ ControlInv /\ CountInv /\ PieceInv /\ SkipInv
================================================================================
