------------------------- MODULE ClusterSnapshotProofs -------------------------
(***************************************************************************)
(* Proofs about ClusterSnapshot, for every set of nodes and pods, every    *)
(* capacity and every bound.                                               *)
(***************************************************************************)
EXTENDS ClusterSnapshot, SequenceTheorems, TLAPS

\* Front drops the last element of an undo log, and nothing else.
LEMMA FrontFacts ==
  ASSUME NEW S, NEW s \in Seq(S), s # <<>>
  PROVE  /\ Front(s) \in Seq(S)
         /\ Len(Front(s)) = Len(s) - 1
         /\ \A i \in 1..(Len(s) - 1) : Front(s)[i] = s[i]
         /\ Last(s) = s[Len(s)]
         /\ Last(s) \in S
         /\ Len(s) \in Nat \ {0}
<1>1. Len(s) \in Nat \ {0} /\ DOMAIN s = 1..Len(s) /\ s \in [1..Len(s) -> S]
  BY EmptySeq, LenProperties
<1>2. \A i \in 1..(Len(s) - 1) : s[i] \in S
  BY <1>1
<1>3. 1 \in Int /\ Len(s) - 1 \in Int
  BY <1>1
<1>4. /\ SubSeq(s, 1, Len(s) - 1) \in Seq(S)
      /\ Len(SubSeq(s, 1, Len(s) - 1)) =
           IF 1 <= Len(s) - 1 THEN (Len(s) - 1) - 1 + 1 ELSE 0
      /\ \A i \in 1..((Len(s) - 1) - 1 + 1) : SubSeq(s, 1, Len(s) - 1)[i] = s[1 + i - 1]
  BY <1>2, <1>3, SubSeqProperties, SMTT(20)
<1>5. /\ Front(s) \in Seq(S)
      /\ Len(Front(s)) = IF 1 <= Len(s) - 1 THEN (Len(s) - 1) - 1 + 1 ELSE 0
      /\ \A i \in 1..((Len(s) - 1) - 1 + 1) : Front(s)[i] = s[1 + i - 1]
  BY <1>4, Zenon DEF Front
<1>6. Len(Front(s)) = Len(s) - 1
  <2>1. Len(Front(s)) = IF 1 <= Len(s) - 1 THEN (Len(s) - 1) - 1 + 1 ELSE 0
    BY <1>5, Zenon
  <2>2. \A k \in Nat \ {0} : (IF 1 <= k - 1 THEN (k - 1) - 1 + 1 ELSE 0) = k - 1
    OBVIOUS
  <2> QED BY <1>1, <2>1, <2>2, Zenon
<1>7. ASSUME NEW i \in 1..(Len(s) - 1) PROVE Front(s)[i] = s[i]
  <2>1. i \in 1..((Len(s) - 1) - 1 + 1) /\ 1 + i - 1 = i
    BY <1>1
  <2> QED BY <1>5, <2>1
<1>8. Last(s) = s[Len(s)] /\ s[Len(s)] \in S
  BY <1>1 DEF Last
<1> QED BY <1>1, <1>5, <1>6, <1>7, <1>8, Zenon

\* A call's batch is a sequence of the pods it is drawn from.
LEMMA BatchFacts ==
  ASSUME NEW S, NEW b \in Batches(S)
  PROVE  b \in Seq(S) /\ b # <<>>
BY DEF Batches, BoundedSeq, SeqOf

--------------------------------------------------------------------------------
(* Pods on nodes                                                           *)

\* Adding or removing a pod gives a view again.
LEMMA PodOpsType ==
  ASSUME NEW v \in View, NEW p \in Pods, NEW n, nodes \subseteq Nodes
  PROVE  AddPod(v, p, n) \in View /\ RemovePod(v, p, n) \in View
<1>1. CASE n \notin nodes
  BY <1>1 DEF AddPod, RemovePod, CanRemove
<1>2. CASE n \in nodes
  <2>1. /\ n \in Nodes
        /\ v \in [Nodes -> [Pods -> Nat]]
        /\ v[n] \in [Pods -> Nat]
        /\ v[n][p] \in Nat
    BY <1>2 DEF View
  <2>2. [v[n] EXCEPT ![p] = @ + 1] \in [Pods -> Nat]
    BY <2>1
  <2>3. v[n][p] > 0 => [v[n] EXCEPT ![p] = @ - 1] \in [Pods -> Nat]
    BY <2>1
  <2>4. AddPod(v, p, n) \in View
    BY <1>2, <2>1, <2>2 DEF AddPod, View
  <2>5. RemovePod(v, p, n) \in View
    BY <1>2, <2>1, <2>3 DEF RemovePod, CanRemove, View
  <2> QED BY <2>4, <2>5
<1> QED BY <1>1, <1>2

\* Removing a pod that has just been added gives the view from before.
LEMMA RemoveUndoesAdd ==
  ASSUME NEW v \in View, NEW p \in Pods, NEW n \in nodes, nodes \subseteq Nodes
  PROVE  RemovePod(AddPod(v, p, n), p, n) = v
<1>1. v \in [Nodes -> [Pods -> Nat]] /\ v[n] \in [Pods -> Nat] /\ v[n][p] \in Nat /\ n \in Nodes
  BY DEF View
<1> DEFINE w == [v EXCEPT ![n][p] = @ + 1]
<1>2. AddPod(v, p, n) = w
  BY DEF AddPod
<1>3. w \in [Nodes -> [Pods -> Nat]] /\ w[n][p] = v[n][p] + 1
  BY <1>1, <1>2, PodOpsType DEF View
<1>4. CanRemove(w, p, n)
  BY <1>1, <1>3 DEF CanRemove
<1>5. RemovePod(w, p, n) = [w EXCEPT ![n][p] = @ - 1]
  BY <1>4 DEF RemovePod
<1>6. [w EXCEPT ![n][p] = @ - 1] = v
  <2>1. ASSUME NEW m \in Nodes, NEW q \in Pods
        PROVE  [w EXCEPT ![n][p] = @ - 1][m][q] = v[m][q]
    BY <1>1, <1>3
  <2>2. [w EXCEPT ![n][p] = @ - 1] \in [Nodes -> [Pods -> Nat]]
    BY <1>1, <1>3, <1>5, <1>2, PodOpsType DEF View
  <2> HIDE DEF w
  <2>3. ASSUME NEW m \in Nodes PROVE [w EXCEPT ![n][p] = @ - 1][m] = v[m]
    BY <1>1, <2>1, <2>2
  <2> QED BY <1>1, <2>2, <2>3
<1> QED BY <1>2, <1>5, <1>6

\* Adding back a pod that could be removed gives the view from before.
LEMMA AddUndoesRemove ==
  ASSUME NEW v \in View, NEW p \in Pods, NEW n, CanRemove(v, p, n), nodes \subseteq Nodes
  PROVE  AddPod(RemovePod(v, p, n), p, n) = v
<1>1. /\ v \in [Nodes -> [Pods -> Nat]] /\ v[n] \in [Pods -> Nat] /\ v[n][p] \in Nat
      /\ n \in Nodes /\ n \in nodes
  BY DEF View, CanRemove
<1> DEFINE w == [v EXCEPT ![n][p] = @ - 1]
<1>2. RemovePod(v, p, n) = w
  BY DEF RemovePod
<1>3. w \in [Nodes -> [Pods -> Nat]] /\ w[n][p] = v[n][p] - 1
  BY <1>1, <1>2, PodOpsType DEF View
<1>4. AddPod(w, p, n) = [w EXCEPT ![n][p] = @ + 1]
  BY <1>1 DEF AddPod
<1>5. [w EXCEPT ![n][p] = @ + 1] = v
  <2>1. ASSUME NEW m \in Nodes, NEW q \in Pods
        PROVE  [w EXCEPT ![n][p] = @ + 1][m][q] = v[m][q]
    BY <1>1, <1>3
  <2>2. [w EXCEPT ![n][p] = @ + 1] \in [Nodes -> [Pods -> Nat]]
    BY <1>1, <1>3, <1>4, <1>2, PodOpsType DEF View
  <2> HIDE DEF w
  <2>3. ASSUME NEW m \in Nodes PROVE [w EXCEPT ![n][p] = @ + 1][m] = v[m]
    BY <1>1, <2>1, <2>2
  <2> QED BY <1>1, <2>2, <2>3
<1> QED BY <1>2, <1>4, <1>5

--------------------------------------------------------------------------------
(* Call records                                                            *)

\* NoCall is a call record, and writing one field keeps a record one.
LEMMA NoCallType == NoCall \in Call
BY ConstantsAssumption DEF NoCall, Call

\* The record of the running call may change in any field.
LEMMA CallUpdate ==
  ASSUME NEW c \in Call
  PROVE  /\ \A x \in {"none", "SchedulePods", "CanSchedulePod", "PreemptPods", "Unpreempt",
                  "Transaction", "ResetMutations"} : [c EXCEPT !.fn = x] \in Call
         /\ \A x \in Nat : [c EXCEPT !.base = x] \in Call
         /\ \A x \in Seq(Pods) : [c EXCEPT !.todo = x] \in Call
         /\ \A x \in Seq(Pods) : [c EXCEPT !.done = x] \in Call
         /\ \A x \in BOOLEAN : [c EXCEPT !.dryRun = x] \in Call
         /\ \A x \in BOOLEAN : [c EXCEPT !.stopOnFailure = x] \in Call
         /\ \A x \in Nodes \cup {NoNode} : [c EXCEPT !.host = x] \in Call
         /\ \A x \in Seq(Result) : [c EXCEPT !.results = x] \in Call
         /\ \A x \in Nat : [c EXCEPT !.handle = x] \in Call
         /\ \A x \in BOOLEAN : [c EXCEPT !.failed = x] \in Call
BY DEF Call

\* The record schedulePods starts with.
LEMMA ScheduleCallType ==
  ASSUME NEW b \in Nat, NEW t \in Seq(Pods), NEW d \in BOOLEAN, NEW s \in BOOLEAN
  PROVE  [NoCall EXCEPT !.fn = "SchedulePods", !.base = b, !.todo = t, !.dryRun = d, !.stopOnFailure = s] \in Call
<1> DEFINE c1 == [NoCall EXCEPT !.fn = "SchedulePods"]
<1>1. c1 \in Call
  BY NoCallType, CallUpdate
<1> HIDE DEF c1
<1> DEFINE c2 == [c1 EXCEPT !.base = b]
<1>2. c2 \in Call
  BY <1>1, CallUpdate
<1> HIDE DEF c2
<1> DEFINE c3 == [c2 EXCEPT !.todo = t]
<1>3. c3 \in Call
  BY <1>2, CallUpdate
<1> HIDE DEF c3
<1> DEFINE c4 == [c3 EXCEPT !.dryRun = d]
<1>4. c4 \in Call
  BY <1>3, CallUpdate
<1> HIDE DEF c4
<1> DEFINE c5 == [c4 EXCEPT !.stopOnFailure = s]
<1>5. c5 \in Call
  BY <1>4, CallUpdate
<1> HIDE DEF c5
<1> QED BY <1>5 DEF c1, c2, c3, c4, c5

\* The record CanSchedulePod starts with.
LEMMA CanScheduleCallType ==
  ASSUME NEW t \in Seq(Pods)
  PROVE  [NoCall EXCEPT !.fn = "CanSchedulePod", !.todo = t] \in Call
<1> DEFINE c1 == [NoCall EXCEPT !.fn = "CanSchedulePod"]
<1>1. c1 \in Call
  BY NoCallType, CallUpdate
<1> HIDE DEF c1
<1> DEFINE c2 == [c1 EXCEPT !.todo = t]
<1>2. c2 \in Call
  BY <1>1, CallUpdate
<1> HIDE DEF c2
<1> QED BY <1>2 DEF c1, c2

\* The record PreemptPods starts with.
LEMMA PreemptCallType ==
  ASSUME NEW b \in Nat, NEW t \in Seq(Pods)
  PROVE  [NoCall EXCEPT !.fn = "PreemptPods", !.base = b, !.todo = t] \in Call
<1> DEFINE c1 == [NoCall EXCEPT !.fn = "PreemptPods"]
<1>1. c1 \in Call
  BY NoCallType, CallUpdate
<1> HIDE DEF c1
<1> DEFINE c2 == [c1 EXCEPT !.base = b]
<1>2. c2 \in Call
  BY <1>1, CallUpdate
<1> HIDE DEF c2
<1> DEFINE c3 == [c2 EXCEPT !.todo = t]
<1>3. c3 \in Call
  BY <1>2, CallUpdate
<1> HIDE DEF c3
<1> QED BY <1>3 DEF c1, c2, c3

\* The record Unpreempt starts with.
LEMMA UnpreemptCallType ==
  ASSUME NEW b \in Nat, NEW t \in Seq(Pods), NEW i \in Nat
  PROVE  [NoCall EXCEPT !.fn = "Unpreempt", !.base = b, !.todo = t, !.handle = i] \in Call
<1> DEFINE c1 == [NoCall EXCEPT !.fn = "Unpreempt"]
<1>1. c1 \in Call
  BY NoCallType, CallUpdate
<1> HIDE DEF c1
<1> DEFINE c2 == [c1 EXCEPT !.base = b]
<1>2. c2 \in Call
  BY <1>1, CallUpdate
<1> HIDE DEF c2
<1> DEFINE c3 == [c2 EXCEPT !.todo = t]
<1>3. c3 \in Call
  BY <1>2, CallUpdate
<1> HIDE DEF c3
<1> DEFINE c4 == [c3 EXCEPT !.handle = i]
<1>4. c4 \in Call
  BY <1>3, CallUpdate
<1> HIDE DEF c4
<1> QED BY <1>4 DEF c1, c2, c3, c4

\* The record a reverted transaction rolls back with.
LEMMA TransactionCallType ==
  ASSUME NEW b \in Nat, NEW x \in BOOLEAN
  PROVE  [NoCall EXCEPT !.fn = "Transaction", !.base = b, !.failed = x] \in Call
<1> DEFINE c1 == [NoCall EXCEPT !.fn = "Transaction"]
<1>1. c1 \in Call
  BY NoCallType, CallUpdate
<1> HIDE DEF c1
<1> DEFINE c2 == [c1 EXCEPT !.base = b]
<1>2. c2 \in Call
  BY <1>1, CallUpdate
<1> HIDE DEF c2
<1> DEFINE c3 == [c2 EXCEPT !.failed = x]
<1>3. c3 \in Call
  BY <1>2, CallUpdate
<1> HIDE DEF c3
<1> QED BY <1>3 DEF c1, c2, c3

\* The record after a pod's attempt.
LEMMA RecordCallType ==
  ASSUME NEW c \in Call, NEW t \in Seq(Pods), NEW n \in Nodes \cup {NoNode}, NEW r \in Seq(Result)
  PROVE  [c EXCEPT !.todo = t, !.host = n, !.results = r] \in Call
<1> DEFINE c1 == [c EXCEPT !.todo = t]
<1>1. c1 \in Call
  BY CallUpdate
<1> HIDE DEF c1
<1> DEFINE c2 == [c1 EXCEPT !.host = n]
<1>2. c2 \in Call
  BY <1>1, CallUpdate
<1> HIDE DEF c2
<1> DEFINE c3 == [c2 EXCEPT !.results = r]
<1>3. c3 \in Call
  BY <1>2, CallUpdate
<1> HIDE DEF c3
<1> QED BY <1>3 DEF c1, c2, c3

--------------------------------------------------------------------------------
(* Types and structure                                                     *)

StructInv == TypeOK /\ ControlInv /\ LogInv

\* The initial state has the types and the structure.
LEMMA StructInit == Init => StructInv
<1> SUFFICES ASSUME Init PROVE StructInv
  OBVIOUS
<1> USE ConstantsAssumption DEF Init
<1>1. nodePods \in View
  BY DEF View
<1>2. call \in Call /\ tx \in [initialStateVersion : Nat, initialStateVersionForPreemption : Nat]
  BY DEF NoCall, Call, NoTx
<1>3. /\ <<>> \in Seq(UndoOperation) /\ <<>> \in Seq(Handle) /\ <<>> \in Seq(View)
      /\ <<nodePods>> \in Seq(View) /\ Len(<<nodePods>>) = 1
      /\ Len(<<>>) = 0
  BY <1>1
<1>4. TypeOK
  <2>1. /\ nodes \subseteq Nodes /\ placement \subseteq nodes
        /\ specNode \in [Pods -> Nodes \cup {NoNode}]
        /\ reserved \in [Pods -> SUBSET Nodes]
    OBVIOUS
  <2>2. /\ undoOperations \in Seq(UndoOperation) /\ handles \in Seq(Handle)
        /\ history \in Seq(View) /\ observed \in View /\ points \in Seq(View)
    BY <1>1, <1>3
  <2>3. /\ stateVersion \in Nat /\ stateVersionForPreemption \in Nat
        /\ transactionInProgress \in BOOLEAN
        /\ pc \in Label /\ reply \in {"none", "ok", "error", "panic"}
    BY DEF Label
  <2> QED BY <1>1, <1>2, <2>1, <2>2, <2>3 DEF TypeOK
<1>5. ControlInv /\ LogInv
  BY <1>3 DEF ControlInv, LogInv, NoCall
<1> QED BY <1>4, <1>5 DEF StructInv

\* So does a state that only a reply separates from one that has them.
LEMMA StructReturnAtOnce ==
  ASSUME StructInv, NEW r \in {"none", "ok", "error", "panic"}, ReturnAtOnce(r)
  PROVE  StructInv'
BY DEF StructInv, TypeOK, ControlInv, LogInv, ReturnAtOnce, undoLog, transaction

\* A call may start if its record fits the control point it starts at.
LEMMA StructEnter ==
  ASSUME StructInv, NEW label \in Label \ {"idle", "reserve"}, NEW c \in Call,
         Enter(label, c),
         label = "schedule" => c.fn = "SchedulePods",
         label = "preempt" => c.fn = "PreemptPods" /\ stateVersion = c.base + Len(c.done),
         label = "restore" => c.fn \in {"Transaction", "ResetMutations"},
         c.fn = "Transaction" => transactionInProgress /\ c.base = tx.initialStateVersion,
         c.fn = "ResetMutations" => ~transactionInProgress /\ c.base = 0,
         c.fn \in {"SchedulePods", "PreemptPods"} => c.base = stateVersion,
         c.base =< stateVersion,
         placement' \subseteq nodes,
         UNCHANGED <<nodes, nodePods, specNode, reserved, undoLog,
                     stateVersionForPreemption, transaction, handles, reply,
                     history, observed, points>>
  PROVE  StructInv'
<1>1. TypeOK'
  BY DEF StructInv, TypeOK, Enter, undoLog, transaction
<1>2. ControlInv'
  BY DEF StructInv, TypeOK, ControlInv, Enter, undoLog, transaction
<1>3. LogInv'
  BY DEF StructInv, LogInv, Enter, Idle, undoLog, transaction
<1> QED BY <1>1, <1>2, <1>3 DEF StructInv

LEMMA Struct_schedulePods ==
  ASSUME StructInv, NEW batch \in Seq(Pods), NEW ps, NEW d \in BOOLEAN, NEW s \in BOOLEAN,
         schedulePods(batch, ps, d, s)
  PROVE  StructInv'
<1>1. CASE ReturnAtOnce("ok") \/ ReturnAtOnce("error")
  BY <1>1, StructReturnAtOnce
<1>2. CASE ~(ReturnAtOnce("ok") \/ ReturnAtOnce("error"))
  <2> DEFINE c == [NoCall EXCEPT !.fn = "SchedulePods", !.base = stateVersion, !.todo = batch,
                             !.dryRun = d, !.stopOnFailure = s]
  <2>1. /\ Enter("schedule", c) /\ placement' \subseteq nodes
        /\ UNCHANGED <<nodes, nodePods, specNode, reserved, undoLog,
                       stateVersionForPreemption, transaction, handles, reply,
                       history, observed, points>>
    BY <1>2 DEF schedulePods
  <2>2. stateVersion \in Nat
    BY DEF StructInv, TypeOK
  <2>3. c \in Call /\ c.fn = "SchedulePods" /\ c.base = stateVersion
    BY <2>2, ScheduleCallType DEF NoCall
  <2>4. c.base =< stateVersion /\ "schedule" \in Label \ {"idle", "reserve"}
    BY <2>2, <2>3 DEF Label
  <2> HIDE DEF c
  <2> QED BY <2>1, <2>3, <2>4, StructEnter
<1> QED BY <1>1, <1>2

LEMMA Struct_CanSchedulePod ==
  ASSUME StructInv, CanSchedulePod
  PROVE  StructInv'
<1>1. CASE ReturnAtOnce("ok") \/ ReturnAtOnce("error")
  BY <1>1, StructReturnAtOnce
<1>2. CASE ~(ReturnAtOnce("ok") \/ ReturnAtOnce("error"))
  <2>1. PICK p \in Pods :
          /\ Enter("canSchedule", [NoCall EXCEPT !.fn = "CanSchedulePod", !.todo = <<p>>])
          /\ placement' \subseteq nodes
          /\ UNCHANGED <<nodes, nodePods, specNode, reserved, undoLog,
                         stateVersionForPreemption, transaction, handles, reply,
                         history, observed, points>>
    BY <1>2 DEF CanSchedulePod
  <2> DEFINE c == [NoCall EXCEPT !.fn = "CanSchedulePod", !.todo = <<p>>]
  <2>2. <<p>> \in Seq(Pods)
    OBVIOUS
  <2>3. c \in Call /\ c.fn = "CanSchedulePod" /\ c.base = 0
    BY <2>2, CanScheduleCallType DEF NoCall
  <2>4. c.base =< stateVersion /\ "canSchedule" \in Label \ {"idle", "reserve"}
    BY <2>3 DEF Label, StructInv, TypeOK
  <2>5. Enter("canSchedule", c)
    BY <2>1
  <2> HIDE DEF c
  <2> QED BY <2>1, <2>3, <2>4, <2>5, StructEnter
<1> QED BY <1>1, <1>2

LEMMA Struct_PreemptPods ==
  ASSUME StructInv, PreemptPods
  PROVE  StructInv'
<1>1. CASE ReturnAtOnce("error")
  BY <1>1, StructReturnAtOnce
<1>2. CASE ~ReturnAtOnce("error")
  <2>1. PICK b \in Batches(Pods) :
          /\ Enter("preempt", [NoCall EXCEPT !.fn = "PreemptPods",
                                 !.base = stateVersion, !.todo = b])
          /\ UNCHANGED placement
          /\ UNCHANGED <<nodes, nodePods, specNode, reserved, undoLog,
                         stateVersionForPreemption, transaction, handles, reply,
                         history, observed, points>>
    BY <1>2 DEF PreemptPods
  <2> DEFINE c == [NoCall EXCEPT !.fn = "PreemptPods", !.base = stateVersion, !.todo = b]
  <2>2. b \in Seq(Pods) /\ stateVersion \in Nat /\ placement \subseteq nodes
    BY BatchFacts DEF StructInv, TypeOK
  <2>3. c \in Call /\ c.fn = "PreemptPods" /\ c.base = stateVersion /\ c.done = <<>>
    BY <2>2, PreemptCallType DEF NoCall
  <2>4. /\ c.base =< stateVersion /\ stateVersion = c.base + Len(c.done)
        /\ "preempt" \in Label \ {"idle", "reserve"}
    BY <2>2, <2>3 DEF Label
  <2>5. Enter("preempt", c)
    BY <2>1
  <2> HIDE DEF c
  <2> QED BY <2>1, <2>2, <2>3, <2>4, <2>5, StructEnter
<1> QED BY <1>1, <1>2

LEMMA Struct_Unpreempt ==
  ASSUME StructInv, Unpreempt
  PROVE  StructInv'
<1>1. CASE ReturnAtOnce("error")
  BY <1>1, StructReturnAtOnce
<1>2. CASE ~ReturnAtOnce("error")
  <2>1. PICK i \in DOMAIN handles :
          /\ Enter("unpreempt", [NoCall EXCEPT !.fn = "Unpreempt", !.base = stateVersion,
                                   !.todo = handles[i].pods, !.handle = i])
          /\ UNCHANGED placement
          /\ UNCHANGED <<nodes, nodePods, specNode, reserved, undoLog,
                         stateVersionForPreemption, transaction, handles, reply,
                         history, observed, points>>
    BY <1>2 DEF Unpreempt
  <2> DEFINE t == handles[i].pods
             c == [NoCall EXCEPT !.fn = "Unpreempt", !.base = stateVersion,
                     !.todo = t, !.handle = i]
  <2>2. /\ handles[i] \in Handle /\ i \in Nat
        /\ stateVersion \in Nat /\ placement \subseteq nodes
    BY DEF StructInv, TypeOK
  <2>3. t \in Seq(Pods)
    BY <2>2 DEF Handle
  <2>4. Enter("unpreempt", c)
    BY <2>1
  <2> HIDE DEF t
  <2>5. c \in Call /\ c.fn = "Unpreempt" /\ c.base = stateVersion
    BY <2>2, <2>3, UnpreemptCallType DEF NoCall
  <2>6. c.base =< stateVersion /\ "unpreempt" \in Label \ {"idle", "reserve"}
    BY <2>2, <2>5 DEF Label
  <2> HIDE DEF c
  <2> QED BY <2>1, <2>2, <2>4, <2>5, <2>6, StructEnter
<1> QED BY <1>1, <1>2

LEMMA Struct_TransactionRevert ==
  ASSUME StructInv, TransactionRevert
  PROVE  StructInv'
<1>1. PICK x \in BOOLEAN :
        Enter("restore", [NoCall EXCEPT !.fn = "Transaction",
                            !.base = tx.initialStateVersion, !.failed = x])
  BY DEF TransactionRevert
<1> DEFINE b == tx.initialStateVersion
           c == [NoCall EXCEPT !.fn = "Transaction", !.base = b, !.failed = x]
<1>2. /\ transactionInProgress /\ UNCHANGED placement
      /\ UNCHANGED <<nodes, nodePods, specNode, reserved, undoLog,
                     stateVersionForPreemption, transaction, handles, reply,
                     history, observed, points>>
  BY DEF TransactionRevert
<1>3. b \in Nat /\ b =< stateVersion /\ placement \subseteq nodes
  BY <1>2 DEF StructInv, TypeOK, ControlInv
<1>4. Enter("restore", c)
  BY <1>1
<1>5. c \in Call /\ c.fn = "Transaction" /\ c.base = tx.initialStateVersion
  <2>1. c \in Call
    <3> HIDE DEF b
    <3> QED BY <1>3, TransactionCallType
  <2> QED BY <2>1 DEF NoCall
<1>6. "restore" \in Label \ {"idle", "reserve"} /\ c.base =< stateVersion
  BY <1>3, <1>5 DEF Label
<1> HIDE DEF b, c
<1> QED BY <1>2, <1>3, <1>4, <1>5, <1>6, StructEnter

LEMMA Struct_ResetMutations ==
  ASSUME StructInv, ResetMutations
  PROVE  StructInv'
<1>1. CASE ReturnAtOnce("ok") \/ ReturnAtOnce("error")
  BY <1>1, StructReturnAtOnce
<1>2. CASE ~(ReturnAtOnce("ok") \/ ReturnAtOnce("error"))
  <2> DEFINE c == [NoCall EXCEPT !.fn = "ResetMutations"]
  <2>1. /\ Enter("restore", c) /\ UNCHANGED placement /\ ~transactionInProgress
        /\ UNCHANGED <<nodes, nodePods, specNode, reserved, undoLog,
                       stateVersionForPreemption, transaction, handles, reply,
                       history, observed, points>>
    BY <1>2 DEF ResetMutations
  <2>2. c \in Call /\ c.fn = "ResetMutations" /\ c.base = 0
    BY NoCallType, CallUpdate DEF NoCall
  <2>3. /\ "restore" \in Label \ {"idle", "reserve"} /\ c.base =< stateVersion
        /\ placement \subseteq nodes
    BY <2>2 DEF Label, StructInv, TypeOK
  <2> HIDE DEF c
  <2> QED BY <2>1, <2>2, <2>3, StructEnter
<1> QED BY <1>1, <1>2

LEMMA Struct_TransactionBegin ==
  ASSUME StructInv, TransactionBegin
  PROVE  StructInv'
<1>1. CASE ReturnAtOnce("error")
  BY <1>1, StructReturnAtOnce
<1>2. CASE ~ReturnAtOnce("error")
  <2>1. /\ Idle /\ ~transactionInProgress /\ transactionInProgress' = TRUE
        /\ tx' = [initialStateVersion |-> stateVersion,
                  initialStateVersionForPreemption |-> stateVersionForPreemption]
        /\ stateVersionForPreemption' = stateVersionForPreemption + 1
        /\ points' = Append(points, nodePods)
        /\ UNCHANGED <<nodes, nodePods, specNode, reserved, placement, undoLog,
                       handles, pc, call, reply, history, observed>>
    BY <1>2, Zenon DEF TransactionBegin
  <2>2. /\ points \in Seq(View) /\ nodePods \in View
        /\ stateVersion \in Nat /\ stateVersionForPreemption \in Nat
    BY DEF StructInv, TypeOK
  <2>3. points' \in Seq(View) /\ Len(points') = Len(points) + 1
    BY <2>1, <2>2, AppendProperties
  <2>4. Len(points') = 2
    BY <2>1, <2>3 DEF StructInv, ControlInv
  <2>5. /\ tx' \in [initialStateVersion : Nat, initialStateVersionForPreemption : Nat]
        /\ tx'.initialStateVersion = stateVersion
        /\ stateVersionForPreemption' \in Nat /\ transactionInProgress' \in BOOLEAN
    BY <2>1, <2>2
  <2>6. TypeOK'
    BY <2>1, <2>3, <2>5 DEF StructInv, TypeOK, undoLog
  <2>7. ControlInv'
    BY <2>1, <2>2, <2>4, <2>5 DEF Idle, StructInv, ControlInv, undoLog
  <2>8. LogInv'
    BY <2>1 DEF Idle, StructInv, LogInv, undoLog
  <2> QED BY <2>6, <2>7, <2>8 DEF StructInv
<1> QED BY <1>1, <1>2

\* What the deferred function of Transaction leaves behind.
LEMMA TransactionEndFacts ==
  ASSUME StructInv, transactionInProgress, TransactionEnd
  PROVE  /\ points' \in Seq(View) /\ Len(points') = 1 /\ points'[1] = points[1]
         /\ transactionInProgress' = FALSE
         /\ tx' \in [initialStateVersion : Nat, initialStateVersionForPreemption : Nat]
<1>1. points \in Seq(View) /\ Len(points) = 2
  BY DEF StructInv, TypeOK, ControlInv
<1>2. points[1] \in View
  BY <1>1
<1> QED BY <1>2 DEF TransactionEnd, NoTx

LEMMA Struct_TransactionKeep ==
  ASSUME StructInv, TransactionKeep
  PROVE  StructInv'
<1>1. TransactionEnd /\ transactionInProgress
  BY DEF TransactionKeep
<1>2. /\ stateVersionForPreemption' \in Nat /\ reply' \in {"none", "ok", "error", "panic"}
      /\ UNCHANGED <<nodes, nodePods, specNode, reserved, placement, undoLog,
                     handles, pc, call, history, observed>>
  BY DEF TransactionKeep, StructInv, TypeOK
<1>5. TypeOK'
  BY <1>1, <1>2, TransactionEndFacts DEF StructInv, TypeOK, undoLog
<1>3. ControlInv'
  BY <1>1, TransactionEndFacts DEF TransactionKeep, Idle, StructInv, ControlInv, undoLog
<1>4. LogInv'
  BY DEF TransactionKeep, Idle, StructInv, LogInv, undoLog
<1> QED BY <1>3, <1>4, <1>5 DEF StructInv

\* A call may return from any point but a half-done reservation.
LEMMA StructReturn ==
  ASSUME StructInv, NEW r \in {"none", "ok", "error", "panic"}, Return(r), pc # "reserve",
         placement' \subseteq nodes, stateVersionForPreemption' \in Nat,
         handles' \in Seq(Handle),
         \/ UNCHANGED <<transaction, points>>
         \/ transactionInProgress /\ TransactionEnd,
         UNCHANGED <<nodes, nodePods, specNode, reserved, undoLog, history>>
  PROVE  StructInv'
<1>1. /\ pc' = "idle" /\ pc' \in Label /\ call' = NoCall /\ call' \in Call
      /\ reply' = r /\ observed' = nodePods
      /\ call'.fn = "none" /\ call'.base = 0
  BY NoCallType DEF Return, Label, NoCall
<1>2. /\ points' \in Seq(View) /\ transactionInProgress' \in BOOLEAN
      /\ tx' \in [initialStateVersion : Nat, initialStateVersionForPreemption : Nat]
      /\ transactionInProgress' => /\ tx'.initialStateVersion =< stateVersion
                                   /\ Len(points') = 2
      /\ ~transactionInProgress' => Len(points') = 1
  <2>1. CASE UNCHANGED <<transaction, points>>
    BY <2>1 DEF StructInv, TypeOK, ControlInv, transaction
  <2>2. CASE transactionInProgress /\ TransactionEnd
    BY <2>2, TransactionEndFacts
  <2> QED BY <2>1, <2>2
<1>3. TypeOK'
  BY <1>1, <1>2 DEF StructInv, TypeOK, undoLog
<1>4. ControlInv'
  BY <1>1, <1>2 DEF StructInv, TypeOK, ControlInv, undoLog
<1>5. LogInv'
  BY <1>1 DEF StructInv, LogInv, undoLog
<1> QED BY <1>3, <1>4, <1>5 DEF StructInv

LEMMA Struct_scheduleNoProfile ==
  ASSUME StructInv, scheduleNoProfile
  PROVE  StructInv'
<1> DEFINE c == [call EXCEPT !.failed = TRUE]
<1>1. /\ pc = "schedule" /\ pc' = "restore" /\ call' = c /\ placement' = nodes
      /\ UNCHANGED <<nodes, nodePods, specNode, reserved, undoLog,
                     stateVersionForPreemption, transaction, handles, reply,
                     history, observed, points>>
  BY DEF scheduleNoProfile, Scheduling
<1>2. /\ c \in Call /\ c.fn = call.fn /\ c.base = call.base
  <2>1. call \in Call
    BY DEF StructInv, TypeOK
  <2>2. c \in Call
    BY <2>1, CallUpdate
  <2>3. c.fn = call.fn /\ c.base = call.base
    BY <2>1 DEF Call
  <2> QED BY <2>2, <2>3
<1> HIDE DEF c
<1>3. TypeOK'
  BY <1>1, <1>2 DEF StructInv, TypeOK, undoLog, transaction, Label
<1>4. ControlInv'
  BY <1>1, <1>2 DEF StructInv, ControlInv, undoLog, transaction
<1>5. LogInv'
  BY <1>1 DEF StructInv, LogInv, undoLog
<1> QED BY <1>3, <1>4, <1>5 DEF StructInv

\* What Record does to the running call.
LEMMA RecordFacts ==
  ASSUME StructInv, call.todo # <<>>, NEW status \in {"Success", "Unschedulable", "Error"},
         NEW n \in Nodes \cup {NoNode}, Record(status, n)
  PROVE  /\ call' \in Call
         /\ call'.fn = call.fn /\ call'.base = call.base /\ call'.done = call.done
         /\ \/ call'.todo = <<>>
            \/ call'.todo = Tail(call.todo)
<1> DEFINE res == [pod |-> Head(call.todo), status |-> status, node |-> n]
           t == IF status # "Success" /\ call.stopOnFailure THEN <<>> ELSE Tail(call.todo)
           rs == Append(call.results, res)
<1>1. call \in Call /\ call.todo \in Seq(Pods) /\ call.results \in Seq(Result)
  BY DEF StructInv, TypeOK, Call
<1>2. Head(call.todo) \in Pods /\ t \in Seq(Pods) /\ (t = <<>> \/ t = Tail(call.todo))
  BY <1>1, HeadTailProperties
<1>3. rs \in Seq(Result)
  <2>1. res \in Result
    BY <1>2 DEF Result
  <2> HIDE DEF res
  <2> QED BY <1>1, <2>1, AppendProperties
<1>4. call' = [call EXCEPT !.todo = t, !.host = NoNode, !.results = rs]
  BY Zenon DEF Record
<1> HIDE DEF t, rs, res
<1>5. call' \in Call
  BY <1>1, <1>2, <1>3, <1>4, RecordCallType
<1>6. /\ call'.fn = call.fn /\ call'.base = call.base /\ call'.done = call.done
      /\ call'.todo = t
  BY <1>1, <1>4 DEF Call
<1> QED BY <1>2, <1>5, <1>6

LEMMA Struct_scheduleFails ==
  ASSUME StructInv, scheduleFails
  PROVE  StructInv'
<1>1. /\ pc = "schedule" /\ call.todo # <<>>
      /\ UNCHANGED <<nodes, nodePods, specNode, reserved, placement, undoLog,
                     stateVersionForPreemption, transaction, handles, pc, reply,
                     history, observed, points>>
      /\ Record("Unschedulable", NoNode) \/ Record("Error", NoNode)
  BY DEF scheduleFails, Scheduling
<1>2. /\ call' \in Call /\ call'.fn = call.fn /\ call'.base = call.base
  BY <1>1, RecordFacts
<1>3. TypeOK'
  BY <1>1, <1>2 DEF StructInv, TypeOK, undoLog, transaction
<1>4. ControlInv'
  BY <1>1, <1>2 DEF StructInv, ControlInv, undoLog, transaction
<1>5. LogInv'
  BY <1>1 DEF StructInv, LogInv, undoLog
<1> QED BY <1>3, <1>4, <1>5 DEF StructInv

LEMMA Struct_assume ==
  ASSUME StructInv, assume
  PROVE  StructInv'
<1>1. PICK n \in Feasible(Head(call.todo)) :
        /\ nodePods' = AddPod(nodePods, Head(call.todo), n)
        /\ call' = [call EXCEPT !.host = n]
  BY DEF assume
<1>2. /\ pc = "schedule" /\ pc' = "reserve" /\ call.fn = "SchedulePods" /\ call.todo # <<>>
      /\ history' = Append(history, nodePods)
      /\ UNCHANGED <<nodes, specNode, reserved, placement, undoLog,
                     stateVersionForPreemption, transaction, handles, reply,
                     observed, points>>
  BY DEF assume, Scheduling
<1>3. /\ call \in Call /\ call.todo \in Seq(Pods) /\ nodes \subseteq Nodes
      /\ history \in Seq(View) /\ nodePods \in View
      /\ n \in nodes /\ n \in Nodes
  BY DEF StructInv, TypeOK, Call, Feasible
<1>4. Head(call.todo) \in Pods
  BY <1>2, <1>3, HeadTailProperties
<1>5. nodePods' \in View
  BY <1>1, <1>3, <1>4, PodOpsType
<1>6. history' \in Seq(View) /\ Len(history') = Len(history) + 1
  BY <1>2, <1>3, AppendProperties
<1>7. /\ call' \in Call /\ call'.fn = call.fn /\ call'.base = call.base
      /\ call'.todo = call.todo /\ call'.host = n
  <2>1. call' \in Call
    BY <1>1, <1>3, CallUpdate
  <2> QED BY <1>1, <1>3, <2>1 DEF Call
<1>8. TypeOK'
  BY <1>2, <1>5, <1>6, <1>7 DEF StructInv, TypeOK, undoLog, transaction, Label
<1>9. ControlInv'
  BY <1>2, <1>3, <1>7 DEF StructInv, ControlInv, undoLog, transaction
<1>10. LogInv'
  BY <1>2, <1>6 DEF StructInv, LogInv, undoLog
<1> QED BY <1>8, <1>9, <1>10 DEF StructInv

\* What registerOperation does to the undo log.
LEMMA RegisterFacts ==
  ASSUME StructInv, NEW e \in UndoOperation, e.node \in nodes, registerOperation(e)
  PROVE  /\ undoOperations' \in Seq(UndoOperation)
         /\ stateVersion' = stateVersion + 1 /\ stateVersion' \in Nat
         /\ stateVersion' = Len(undoOperations')
         /\ \A i \in 1..stateVersion : undoOperations'[i] = undoOperations[i]
         /\ undoOperations'[stateVersion + 1] = e
         /\ \A i \in 1..stateVersion' : undoOperations'[i].node \in nodes
<1>1. /\ undoOperations \in Seq(UndoOperation) /\ stateVersion \in Nat
      /\ stateVersion = Len(undoOperations)
      /\ \A i \in 1..stateVersion : undoOperations[i].node \in nodes
  BY DEF StructInv, TypeOK, LogInv
<1>2. /\ undoOperations' = Append(undoOperations, e)
      /\ stateVersion' = stateVersion + 1
  BY DEF registerOperation
<1>3. /\ undoOperations' \in Seq(UndoOperation)
      /\ Len(undoOperations') = stateVersion + 1
      /\ \A i \in 1..stateVersion : undoOperations'[i] = undoOperations[i]
      /\ undoOperations'[stateVersion + 1] = e
  BY <1>1, <1>2, AppendProperties
<1> QED BY <1>1, <1>2, <1>3

LEMMA Struct_reserve ==
  ASSUME StructInv, reserve
  PROVE  StructInv'
<1> DEFINE p == Head(call.todo)
           e == Operation("forget", p, call.host)
<1>1. /\ pc = "reserve" /\ pc' = "schedule" /\ call.fn = "SchedulePods" /\ call.todo # <<>>
      /\ specNode' = [specNode EXCEPT ![p] = call.host]
      /\ reserved' = Reserve(reserved, p, call.host)
      /\ registerOperation(e) /\ Record("Success", call.host)
      /\ UNCHANGED <<nodes, nodePods, placement, stateVersionForPreemption,
                     transaction, handles, reply, history, observed, points>>
  BY DEF reserve, Scheduling
<1>2. /\ call \in Call /\ call.todo \in Seq(Pods) /\ nodes \subseteq Nodes
      /\ specNode \in [Pods -> Nodes \cup {NoNode}] /\ reserved \in [Pods -> SUBSET Nodes]
      /\ call.host \in nodes /\ call.host \in Nodes
  BY <1>1 DEF StructInv, TypeOK, ControlInv, Call
<1>3. p \in Pods
  BY <1>1, <1>2, HeadTailProperties
<1>4. e \in UndoOperation /\ e.node \in nodes
  BY <1>2, <1>3 DEF Operation, UndoOperation
<1>5. specNode' \in [Pods -> Nodes \cup {NoNode}] /\ reserved' \in [Pods -> SUBSET Nodes]
  BY <1>1, <1>2, <1>3 DEF Reserve
<1> HIDE DEF e, p
<1>6. /\ undoOperations' \in Seq(UndoOperation)
      /\ stateVersion' = stateVersion + 1 /\ stateVersion' \in Nat
      /\ stateVersion' = Len(undoOperations')
      /\ \A i \in 1..stateVersion' : undoOperations'[i].node \in nodes
  BY <1>1, <1>4, RegisterFacts
<1>7. call' \in Call /\ call'.fn = call.fn /\ call'.base = call.base
  BY <1>1, <1>2, RecordFacts
<1>8. TypeOK'
  BY <1>1, <1>5, <1>6, <1>7 DEF StructInv, TypeOK, transaction, Label
<1>9. ControlInv'
  <2>1. call.base \in Nat /\ stateVersion \in Nat /\ tx.initialStateVersion \in Nat
    BY <1>2 DEF StructInv, TypeOK, Call
  <2> QED BY <1>1, <1>6, <1>7, <2>1 DEF StructInv, ControlInv, transaction
<1>10. LogInv'
  BY <1>1, <1>6 DEF StructInv, LogInv
<1> QED BY <1>8, <1>9, <1>10 DEF StructInv

LEMMA Struct_unreserveAndForget ==
  ASSUME StructInv, unreserveAndForget
  PROVE  StructInv'
<1>1. /\ pc = "reserve" /\ pc' = "schedule" /\ call.fn = "SchedulePods" /\ call.todo # <<>>
      /\ nodePods' = RemovePod(nodePods, Head(call.todo), call.host)
      /\ history' = Front(history)
      /\ Record("Unschedulable", NoNode) \/ Record("Error", NoNode)
      /\ UNCHANGED <<nodes, specNode, placement, undoLog, stateVersionForPreemption,
                     transaction, handles, reply, observed, points>>
  BY DEF unreserveAndForget, Scheduling
<1>2. /\ call \in Call /\ call.todo \in Seq(Pods) /\ nodes \subseteq Nodes
      /\ history \in Seq(View) /\ nodePods \in View /\ stateVersion \in Nat
      /\ Len(history) = stateVersion + 1
  BY <1>1 DEF StructInv, TypeOK, LogInv, Call
<1>3. Head(call.todo) \in Pods
  BY <1>1, <1>2, HeadTailProperties
<1>4. nodePods' \in View
  BY <1>1, <1>2, <1>3, PodOpsType
<1>5. history # <<>>
  BY <1>2
<1>6. history' \in Seq(View) /\ Len(history') = stateVersion
  <2>1. history' \in Seq(View) /\ Len(history') = Len(history) - 1
    BY <1>1, <1>2, <1>5, FrontFacts
  <2> QED BY <1>2, <2>1
<1>7. call' \in Call /\ call'.fn = call.fn /\ call'.base = call.base
  BY <1>1, RecordFacts
<1>8. reserved' \in [Pods -> SUBSET Nodes]
  <2>1. PICK r \in ReservedInPart : reserved' = Unreserve(r, Head(call.todo), call.host)
    BY DEF unreserveAndForget
  <2>2. /\ reserved \in [Pods -> SUBSET Nodes] /\ call.host \in Nodes
        /\ r \in {reserved, Reserve(reserved, Head(call.todo), call.host)}
    BY <1>1, <1>2, <2>1 DEF StructInv, TypeOK, ControlInv, ReservedInPart
  <2>3. r \in [Pods -> SUBSET Nodes]
    BY <1>3, <2>2 DEF Reserve
  <2> QED BY <1>3, <2>1, <2>3 DEF Unreserve
<1>9. TypeOK'
  BY <1>1, <1>4, <1>6, <1>7, <1>8 DEF StructInv, TypeOK, undoLog, transaction, Label
<1>10. ControlInv'
  BY <1>1, <1>7 DEF StructInv, ControlInv, undoLog, transaction
<1>11. LogInv'
  BY <1>1, <1>6 DEF StructInv, LogInv, undoLog
<1> QED BY <1>9, <1>10, <1>11 DEF StructInv

LEMMA Struct_scheduleDone ==
  ASSUME StructInv, scheduleDone
  PROVE  StructInv'
<1>1. /\ pc = "schedule" /\ placement' = nodes
      /\ UNCHANGED <<nodes, nodePods, specNode, reserved, undoLog, transaction,
                     handles, history, points>>
  BY DEF scheduleDone
<1>2. CASE Return("ok")
  <2>1. stateVersionForPreemption' \in Nat
    <3>1. stateVersionForPreemption \in Nat
      BY DEF StructInv, TypeOK
    <3>2. \/ UNCHANGED stateVersionForPreemption
          \/ stateVersionForPreemption' =
               stateVersionForPreemption + (IF stateVersion # call.base THEN 1 ELSE 0)
      BY DEF scheduleDone
    <3> QED BY <3>1, <3>2
  <2>2. handles' \in Seq(Handle)
    BY <1>1 DEF StructInv, TypeOK
  <2> QED BY <1>1, <1>2, <2>1, <2>2, StructReturn
<1>3. CASE ~Return("ok")
  <2>1. pc' = "restore" /\ UNCHANGED <<call, reply, observed, stateVersionForPreemption>>
    BY <1>3 DEF scheduleDone
  <2>2. TypeOK'
    BY <1>1, <2>1 DEF StructInv, TypeOK, undoLog, transaction, Label
  <2>3. ControlInv'
    BY <1>1, <2>1 DEF StructInv, ControlInv, undoLog, transaction
  <2>4. LogInv'
    BY <1>1, <2>1 DEF StructInv, LogInv, undoLog
  <2> QED BY <2>2, <2>3, <2>4 DEF StructInv
<1> QED BY <1>2, <1>3

LEMMA Struct_canScheduleDone ==
  ASSUME StructInv, canScheduleDone
  PROVE  StructInv'
<1>1. /\ Return("ok") \/ Return("error")
      /\ pc # "reserve" /\ placement' \subseteq nodes
      /\ UNCHANGED <<nodes, nodePods, specNode, reserved, undoLog,
                     stateVersionForPreemption, transaction, handles, history, points>>
  BY DEF canScheduleDone
<1>2. stateVersionForPreemption' \in Nat /\ handles' \in Seq(Handle)
  BY <1>1 DEF StructInv, TypeOK
<1> QED BY <1>1, <1>2, StructReturn

LEMMA Struct_removePodFromNode ==
  ASSUME StructInv, removePodFromNode
  PROVE  StructInv'
<1> DEFINE p == Head(call.todo)
           n == specNode[p]
           e == Operation("add", p, n)
<1>1. /\ pc = "preempt" /\ call.todo # <<>>
      /\ UNCHANGED <<nodes, specNode, reserved, placement, stateVersionForPreemption,
                     transaction, handles, reply, observed, points>>
  BY DEF removePodFromNode
<1>2. /\ call \in Call /\ call.todo \in Seq(Pods) /\ call.done \in Seq(Pods)
      /\ call.base \in Nat /\ nodes \subseteq Nodes /\ history \in Seq(View)
      /\ nodePods \in View /\ stateVersion \in Nat /\ Len(history) = stateVersion
      /\ call.fn = "PreemptPods" /\ stateVersion = call.base + Len(call.done)
  BY <1>1 DEF StructInv, TypeOK, ControlInv, LogInv, Call
<1>3. p \in Pods /\ Tail(call.todo) \in Seq(Pods)
  BY <1>1, <1>2, HeadTailProperties
<1>4. CASE CanRemove(nodePods, p, n)
  <2> DEFINE t == Tail(call.todo)
             d == Append(call.done, p)
             c == [call EXCEPT !.todo = t, !.done = d]
  <2>1. /\ nodePods' = RemovePod(nodePods, p, n) /\ registerOperation(e)
        /\ history' = Append(history, nodePods) /\ call' = c /\ UNCHANGED pc
    BY <1>4 DEF removePodFromNode
  <2>2. nodePods' \in View
    BY <1>2, <1>3, <2>1, PodOpsType
  <2>3. e \in UndoOperation /\ e.node \in nodes
    BY <1>2, <1>3, <1>4 DEF Operation, UndoOperation, CanRemove
  <2>4. history' \in Seq(View) /\ Len(history') = Len(history) + 1
    BY <1>2, <2>1, AppendProperties
  <2>5. d \in Seq(Pods) /\ Len(d) = Len(call.done) + 1
    BY <1>2, <1>3, AppendProperties
  <2>6. call' \in Call
    <3> DEFINE c1 == [call EXCEPT !.todo = t]
    <3> HIDE DEF d, t
    <3>1. c1 \in Call
      BY <1>2, <1>3, CallUpdate DEF t
    <3> HIDE DEF c1
    <3>2. [c1 EXCEPT !.done = d] \in Call
      BY <2>5, <3>1, CallUpdate
    <3> QED BY <2>1, <3>2 DEF c1
  <2>7. call'.fn = call.fn /\ call'.base = call.base /\ call'.done = d
    <3> HIDE DEF d, t
    <3> QED BY <1>2, <2>1 DEF Call
  <2> HIDE DEF p, n, e, t, d, c
  <2>8. /\ undoOperations' \in Seq(UndoOperation)
        /\ stateVersion' = stateVersion + 1 /\ stateVersion' \in Nat
        /\ stateVersion' = Len(undoOperations')
        /\ \A i \in 1..stateVersion' : undoOperations'[i].node \in nodes
    BY <2>1, <2>3, RegisterFacts
  <2>9. TypeOK'
    BY <1>1, <2>1, <2>2, <2>4, <2>6, <2>8 DEF StructInv, TypeOK, transaction
  <2>10. ControlInv'
    <3>1. tx.initialStateVersion \in Nat
      BY DEF StructInv, TypeOK
    <3>2. Len(call.done) \in Nat
      BY <1>2
    <3>3. /\ stateVersion' = call'.base + Len(call'.done)
          /\ call'.base =< stateVersion' /\ stateVersion =< stateVersion'
      BY <1>2, <2>5, <2>7, <2>8, <3>2
    <3>4. /\ pc' = "preempt" /\ call'.fn = "PreemptPods"
          /\ UNCHANGED <<transaction, points>> /\ call'.base = call.base
      BY <1>1, <1>2, <2>1, <2>7
    <3>5. transactionInProgress => tx.initialStateVersion =< stateVersion'
      BY <1>2, <2>8, <3>1 DEF StructInv, ControlInv
    <3> QED BY <1>2, <3>3, <3>4, <3>5 DEF StructInv, ControlInv, transaction
  <2>11. LogInv'
    BY <1>1, <1>2, <2>1, <2>4, <2>8 DEF StructInv, LogInv
  <2> QED BY <2>9, <2>10, <2>11 DEF StructInv
<1>5. CASE ~CanRemove(nodePods, p, n)
  <2>1. /\ pc' = "restore" /\ call' = [call EXCEPT !.failed = TRUE]
        /\ UNCHANGED <<nodePods, undoLog, history>>
    BY <1>5 DEF removePodFromNode
  <2>2. call' \in Call
    BY <1>2, <2>1, CallUpdate
  <2>3. call'.fn = call.fn /\ call'.base = call.base
    BY <1>2, <2>1 DEF Call
  <2>4. TypeOK'
    BY <1>1, <2>1, <2>2 DEF StructInv, TypeOK, undoLog, transaction, Label
  <2>5. ControlInv'
    BY <1>1, <2>1, <2>3 DEF StructInv, ControlInv, undoLog, transaction
  <2>6. LogInv'
    BY <1>1, <2>1 DEF StructInv, LogInv, undoLog
  <2> QED BY <2>4, <2>5, <2>6 DEF StructInv
<1> QED BY <1>4, <1>5

LEMMA Struct_preemptDone ==
  ASSUME StructInv, preemptDone
  PROVE  StructInv'
<1>1. /\ pc = "preempt" /\ Return("ok") /\ handles' = Append(handles, Unpreemption)
      /\ UNCHANGED <<nodes, nodePods, specNode, reserved, placement, undoLog,
                     stateVersionForPreemption, transaction, history, points>>
  BY DEF preemptDone
<1>2. /\ call \in Call /\ call.done \in Seq(Pods) /\ call.base \in Nat
      /\ undoOperations \in Seq(UndoOperation) /\ handles \in Seq(Handle)
      /\ stateVersionForPreemption \in Nat /\ placement \subseteq nodes
      /\ Len(undoOperations) = call.base + Len(call.done)
  BY <1>1 DEF StructInv, TypeOK, ControlInv, LogInv, Call
<1> DEFINE from == [i \in DOMAIN call.done |-> undoOperations[call.base + i].node]
<1>3. from \in Seq(Nodes)
  <2>1. Len(call.done) \in Nat /\ DOMAIN call.done = 1..Len(call.done)
    BY <1>2, LenProperties
  <2>2. ASSUME NEW i \in 1..Len(call.done) PROVE undoOperations[call.base + i].node \in Nodes
    <3>1. call.base + i \in 1..Len(undoOperations)
      BY <1>2, <2>1
    <3>2. undoOperations[call.base + i] \in UndoOperation
      BY <1>2, <3>1
    <3> QED BY <3>2 DEF UndoOperation
  <2>3. from \in [1..Len(call.done) -> Nodes]
    BY <2>1, <2>2
  <2> HIDE DEF from
  <2> QED BY <2>1, <2>3
<1>4. Unpreemption \in Handle
  <2>1. Unpreemption = [pods |-> call.done, reverted |-> FALSE,
                        validPreemptionVersion |-> stateVersionForPreemption,
                        from |-> from, base |-> call.base, undone |-> FALSE]
    BY Zenon DEF Unpreemption
  <2> HIDE DEF from
  <2> QED BY <1>2, <1>3, <2>1 DEF Handle
<1>5. handles' \in Seq(Handle)
  BY <1>1, <1>2, <1>4, AppendProperties
<1> QED BY <1>1, <1>2, <1>5, StructReturn

LEMMA Struct_addPodToNode ==
  ASSUME StructInv, addPodToNode
  PROVE  StructInv'
<1> DEFINE p == Last(call.todo)
           n == specNode[p]
           t == Front(call.todo)
           x == call.failed \/ ~(n \in nodes)
           e == Operation("remove", p, n)
<1>1. /\ pc = "unpreempt" /\ call.todo # <<>>
      /\ nodePods' = AddPod(nodePods, p, n)
      /\ call' = [call EXCEPT !.todo = t, !.failed = x]
      /\ UNCHANGED <<nodes, specNode, reserved, placement, stateVersionForPreemption,
                     transaction, handles, pc, reply, observed, points>>
  BY DEF addPodToNode
<1>2. /\ call \in Call /\ call.todo \in Seq(Pods) /\ nodes \subseteq Nodes
      /\ history \in Seq(View) /\ nodePods \in View /\ stateVersion \in Nat
      /\ call.failed \in BOOLEAN /\ call.base \in Nat /\ call.base =< stateVersion
      /\ tx.initialStateVersion \in Nat /\ undoOperations \in Seq(UndoOperation)
      /\ Len(history) = stateVersion
  BY <1>1 DEF StructInv, TypeOK, ControlInv, LogInv, Call
<1>3. p \in Pods /\ t \in Seq(Pods)
  BY <1>1, <1>2, FrontFacts
<1>4. nodePods' \in View
  BY <1>1, <1>2, <1>3, PodOpsType
<1>5. call' \in Call
  <2> DEFINE c1 == [call EXCEPT !.todo = t]
  <2> HIDE DEF t
  <2>1. c1 \in Call
    BY <1>2, <1>3, CallUpdate
  <2>2. x \in BOOLEAN
    OBVIOUS
  <2> HIDE DEF c1, x
  <2>3. [c1 EXCEPT !.failed = x] \in Call
    BY <2>1, <2>2, CallUpdate
  <2> QED BY <1>1, <2>3 DEF c1
<1>6. call'.fn = call.fn /\ call'.base = call.base
  <2> HIDE DEF t, x
  <2> QED BY <1>1, <1>2 DEF Call
<1>7. /\ undoOperations' \in Seq(UndoOperation)
      /\ stateVersion' \in Nat /\ stateVersion =< stateVersion'
      /\ stateVersion' = Len(undoOperations')
      /\ history' \in Seq(View) /\ Len(history') = stateVersion'
      /\ \A i \in 1..stateVersion' : undoOperations'[i].node \in nodes
  <2>1. CASE n \in nodes
    <3>1. registerOperation(e) /\ history' = Append(history, nodePods)
      BY <2>1 DEF addPodToNode
    <3>2. e \in UndoOperation /\ e.node \in nodes
      BY <1>2, <1>3, <2>1 DEF Operation, UndoOperation
    <3>3. history' \in Seq(View) /\ Len(history') = Len(history) + 1
      BY <1>2, <3>1, AppendProperties
    <3> HIDE DEF e, n, p
    <3>4. /\ undoOperations' \in Seq(UndoOperation)
          /\ stateVersion' = stateVersion + 1 /\ stateVersion' \in Nat
          /\ stateVersion' = Len(undoOperations')
          /\ \A i \in 1..stateVersion' : undoOperations'[i].node \in nodes
      BY <3>1, <3>2, RegisterFacts
    <3> QED BY <1>2, <3>3, <3>4
  <2>2. CASE n \notin nodes
    <3>1. UNCHANGED <<undoLog, history>>
      BY <2>2 DEF addPodToNode
    <3> QED BY <1>2, <3>1 DEF StructInv, LogInv, undoLog
  <2> QED BY <2>1, <2>2
<1> HIDE DEF p, n, t, x, e
<1>8. TypeOK'
  BY <1>1, <1>4, <1>5, <1>7 DEF StructInv, TypeOK, transaction
<1>9. ControlInv'
  <2>1. call'.base =< stateVersion'
    BY <1>2, <1>6, <1>7
  <2>2. transactionInProgress => tx.initialStateVersion =< stateVersion'
    BY <1>2, <1>7 DEF StructInv, ControlInv
  <2> QED BY <1>1, <1>6, <2>1, <2>2 DEF StructInv, ControlInv, transaction
<1>10. LogInv'
  BY <1>1, <1>7 DEF StructInv, LogInv
<1> QED BY <1>8, <1>9, <1>10 DEF StructInv

LEMMA Struct_unpreemptDone ==
  ASSUME StructInv, unpreemptDone
  PROVE  StructInv'
<1> DEFINE r == IF call.failed THEN "error" ELSE "ok"
<1>1. /\ pc = "unpreempt" /\ Return(r)
      /\ handles' = [handles EXCEPT ![call.handle].reverted = TRUE]
      /\ UNCHANGED <<nodes, nodePods, specNode, reserved, placement, undoLog,
                     stateVersionForPreemption, transaction, history, points>>
  BY DEF unpreemptDone
<1>2. /\ handles \in Seq(Handle) /\ placement \subseteq nodes
      /\ stateVersionForPreemption \in Nat
  BY DEF StructInv, TypeOK
<1>3. r \in {"none", "ok", "error", "panic"}
  OBVIOUS
<1>4. handles' \in Seq(Handle)
  <2>1. CASE call.handle \in DOMAIN handles
    <3> DEFINE h == [handles[call.handle] EXCEPT !.reverted = TRUE]
    <3>1. handles[call.handle] \in Handle
      BY <1>2, <2>1
    <3>2. h \in Handle
      BY <3>1 DEF Handle
    <3>3. handles' = [handles EXCEPT ![call.handle] = h]
      BY <1>1
    <3> HIDE DEF h
    <3> QED BY <1>2, <2>1, <3>2, <3>3
  <2>2. CASE call.handle \notin DOMAIN handles
    <3>1. Len(handles) \in Nat /\ DOMAIN handles = 1..Len(handles)
      BY <1>2, LenProperties
    <3>2. ASSUME NEW i \in 1..Len(handles) PROVE handles'[i] \in Handle
      BY <1>1, <1>2, <2>2, <3>1
    <3>3. handles' = [i \in 1..Len(handles) |-> handles'[i]]
      BY <1>1, <3>1
    <3>4. handles' \in [1..Len(handles) -> Handle]
      BY <3>2, <3>3
    <3> QED BY <3>1, <3>4
  <2> QED BY <2>1, <2>2
<1> HIDE DEF r
<1> QED BY <1>1, <1>2, <1>3, <1>4, StructReturn

\* What one undo step does to the log.
LEMMA UndoFacts ==
  ASSUME StructInv, undo
  PROVE  /\ stateVersion \in Nat \ {0} /\ stateVersion' = stateVersion - 1
         /\ stateVersion' \in Nat /\ call.base =< stateVersion' /\ call.base \in Nat
         /\ undoOperations' \in Seq(UndoOperation) /\ stateVersion' = Len(undoOperations')
         /\ \A i \in 1..stateVersion' : undoOperations'[i] = undoOperations[i]
         /\ Last(undoOperations) = undoOperations[stateVersion]
         /\ Last(undoOperations) \in UndoOperation
         /\ history' \in Seq(View) /\ Len(history) = stateVersion
         /\ Len(history') = stateVersion'
         /\ \A i \in 1..stateVersion' : history'[i] = history[i]
         /\ history \in Seq(View)
<1>1. /\ pc = "restore" /\ stateVersion # call.base /\ undoOperations # <<>>
      /\ undoOperations' = Front(undoOperations) /\ stateVersion' = stateVersion - 1
      /\ history' = Front(history)
  BY DEF undo
<1>2. /\ undoOperations \in Seq(UndoOperation) /\ history \in Seq(View)
      /\ stateVersion \in Nat /\ stateVersion = Len(undoOperations)
      /\ Len(history) = stateVersion /\ call.base \in Nat /\ call.base =< stateVersion
  BY <1>1 DEF StructInv, TypeOK, ControlInv, LogInv, Call
<1>3. /\ undoOperations' \in Seq(UndoOperation)
      /\ Len(undoOperations') = stateVersion - 1
      /\ \A i \in 1..(stateVersion - 1) : undoOperations'[i] = undoOperations[i]
      /\ Last(undoOperations) = undoOperations[stateVersion]
      /\ Last(undoOperations) \in UndoOperation
      /\ stateVersion \in Nat \ {0}
  BY <1>1, <1>2, FrontFacts
<1>4. history # <<>>
  BY <1>2, <1>3
<1>5. /\ history' \in Seq(View) /\ Len(history') = stateVersion - 1
      /\ \A i \in 1..(stateVersion - 1) : history'[i] = history[i]
  BY <1>1, <1>2, <1>4, FrontFacts
<1>6. call.base =< stateVersion - 1 /\ stateVersion - 1 \in Nat
  BY <1>1, <1>2, <1>3
<1> QED BY <1>1, <1>2, <1>3, <1>5, <1>6

LEMMA Struct_undo ==
  ASSUME StructInv, undo
  PROVE  StructInv'
<1> DEFINE e == Last(undoOperations)
<1>1. /\ pc = "restore" /\ nodePods' = Revert(nodePods, e)
      /\ reserved' = IF e.op = "forget" THEN Unreserve(reserved, e.pod, e.node) ELSE reserved
      /\ UNCHANGED <<nodes, specNode, placement, stateVersionForPreemption, transaction,
                     handles, pc, call, reply, observed, points>>
  BY DEF undo
<1>2. /\ nodePods \in View /\ nodes \subseteq Nodes /\ reserved \in [Pods -> SUBSET Nodes]
      /\ tx.initialStateVersion \in Nat
  BY DEF StructInv, TypeOK
<1>3. e.pod \in Pods
  BY UndoFacts DEF UndoOperation
<1>4. nodePods' \in View
  <2> HIDE DEF e
  <2> QED BY <1>1, <1>2, <1>3, PodOpsType DEF Revert
<1>5. reserved' \in [Pods -> SUBSET Nodes]
  <2> HIDE DEF e
  <2> QED BY <1>1, <1>2, <1>3 DEF Unreserve
<1> HIDE DEF e
<1>6. TypeOK'
  BY <1>1, <1>4, <1>5, UndoFacts DEF StructInv, TypeOK, transaction
<1>7. ControlInv'
  <2>1. transactionInProgress => tx.initialStateVersion =< stateVersion'
    <3>1. SUFFICES ASSUME transactionInProgress PROVE tx.initialStateVersion =< call.base
      BY <1>2, UndoFacts
    <3> QED BY <1>1, <1>2, <3>1, UndoFacts DEF StructInv, ControlInv
  <2>2. call'.base =< stateVersion' /\ call' = call
    BY <1>1, UndoFacts
  <2> QED BY <1>1, <2>1, <2>2 DEF StructInv, ControlInv, transaction
<1>8. LogInv'
  <2>1. \A i \in 1..stateVersion : undoOperations[i].node \in nodes
    BY DEF StructInv, LogInv
  <2>2. \A i \in 1..stateVersion' : i \in 1..stateVersion
    BY UndoFacts
  <2> QED BY <1>1, <2>1, <2>2, UndoFacts DEF LogInv
<1> QED BY <1>6, <1>7, <1>8 DEF StructInv

\* Marking the handles whose preemptions were undone keeps them handles.
LEMMA MarkUndoneType ==
  ASSUME handles \in Seq(Handle), MarkUndone
  PROVE  handles' \in Seq(Handle)
<1>1. Len(handles) \in Nat /\ DOMAIN handles = 1..Len(handles)
  BY LenProperties
<1>2. ASSUME NEW i \in 1..Len(handles)
      PROVE  [handles[i] EXCEPT !.undone = @ \/ handles[i].base >= call.base] \in Handle
  <2> DEFINE u == handles[i].undone \/ handles[i].base >= call.base
  <2>1. handles[i] \in Handle
    BY <1>1
  <2>2. u \in BOOLEAN
    BY <2>1 DEF Handle
  <2> HIDE DEF u
  <2>3. [handles[i] EXCEPT !.undone = u] \in Handle
    BY <2>1, <2>2 DEF Handle
  <2> QED BY <2>3 DEF u
<1>3. handles' \in [1..Len(handles) -> Handle]
  BY <1>1, <1>2 DEF MarkUndone
<1> QED BY <1>1, <1>3

\* The three ways a restore ends.
LEMMA Struct_restored ==
  ASSUME StructInv, restoreCall \/ restoreTransaction \/ restoreReset
  PROVE  StructInv'
<1>1. /\ handles \in Seq(Handle) /\ placement \subseteq nodes
      /\ stateVersionForPreemption \in Nat
      /\ tx.initialStateVersionForPreemption \in Nat
  BY DEF StructInv, TypeOK
<1> DEFINE r == IF call.failed THEN "error" ELSE "ok"
<1>2. r \in {"none", "ok", "error", "panic"}
  OBVIOUS
<1>3. CASE restoreCall
  <2>1. /\ pc = "restore" /\ Return(r)
        /\ UNCHANGED <<nodes, nodePods, specNode, reserved, placement, undoLog,
              stateVersionForPreemption, transaction, handles, history, points>>
    BY <1>3 DEF restoreCall, Restored
  <2> HIDE DEF r
  <2> QED BY <1>1, <1>2, <2>1, StructReturn
<1>4. CASE restoreTransaction
  <2>1. /\ pc = "restore" /\ Return(r) /\ TransactionEnd /\ MarkUndone
        /\ call.fn = "Transaction"
        /\ stateVersionForPreemption' = tx.initialStateVersionForPreemption
        /\ UNCHANGED <<nodes, nodePods, specNode, reserved, placement, undoLog, history>>
    BY <1>4 DEF restoreTransaction, Restored
  <2>2. transactionInProgress
    BY <2>1 DEF StructInv, ControlInv
  <2>3. handles' \in Seq(Handle)
    BY <1>1, <2>1, MarkUndoneType
  <2> HIDE DEF r
  <2> QED BY <1>1, <1>2, <2>1, <2>2, <2>3, StructReturn
<1>5. CASE restoreReset
  <2>1. /\ pc = "restore" /\ Return("ok") /\ MarkUndone
        /\ stateVersionForPreemption' = stateVersionForPreemption + 1
        /\ UNCHANGED <<nodes, nodePods, specNode, reserved, placement, undoLog,
              transaction, history, points>>
    BY <1>5 DEF restoreReset, Restored
  <2>2. handles' \in Seq(Handle) /\ stateVersionForPreemption' \in Nat
    BY <1>1, <2>1, MarkUndoneType
  <2> QED BY <1>1, <2>1, <2>2, StructReturn
<1> QED BY <1>3, <1>4, <1>5

\* Stuttering steps change nothing.
LEMMA StructStutter ==
  ASSUME StructInv, UNCHANGED vars
  PROVE  StructInv'
BY DEF StructInv, TypeOK, ControlInv, LogInv, vars, undoLog, transaction

\* Every step keeps the types and the structure.
LEMMA StructNext ==
  ASSUME StructInv, [Next]_vars
  PROVE  StructInv'
<1>1. CASE SchedulePods
  <2>1. PICK batch \in Batches(Schedulable \ {p \in TemplatePods : specNode[p] = NoNode}),
             ps \in SUBSET Nodes, d \in BOOLEAN, s \in BOOLEAN :
               schedulePods(batch, ps, d, s)
    BY <1>1 DEF SchedulePods
  <2>2. batch \in Seq(Pods)
    <3>1. batch \in Seq(Schedulable \ {p \in TemplatePods : specNode[p] = NoNode})
      BY BatchFacts
    <3> QED BY <3>1, SeqMonotonic DEF Schedulable
  <2> QED BY <2>1, <2>2, Struct_schedulePods
<1>2. CASE SchedulePodsByTemplate
  <2>1. PICK batch \in Batches({p \in TemplatePods : specNode[p] = NoNode}),
             ps \in SUBSET nodes, d \in BOOLEAN :
               schedulePods(batch, ps, d, TRUE)
    BY <1>2 DEF SchedulePodsByTemplate
  <2>2. batch \in Seq(Pods)
    <3>1. batch \in Seq({p \in TemplatePods : specNode[p] = NoNode})
      BY BatchFacts
    <3> QED BY <3>1, SeqMonotonic, ConstantsAssumption
  <2> QED BY <2>1, <2>2, Struct_schedulePods
<1>3. CASE UNCHANGED vars
  BY <1>3, StructStutter
<1>4. CASE Client /\ ~SchedulePods /\ ~SchedulePodsByTemplate
  BY <1>4, Struct_CanSchedulePod, Struct_PreemptPods, Struct_Unpreempt,
     Struct_TransactionBegin, Struct_TransactionKeep, Struct_TransactionRevert,
     Struct_ResetMutations
     DEF Client
<1>5. CASE Step
  BY <1>5, Struct_scheduleNoProfile, Struct_scheduleFails, Struct_assume, Struct_reserve,
     Struct_unreserveAndForget, Struct_scheduleDone, Struct_canScheduleDone,
     Struct_removePodFromNode, Struct_preemptDone, Struct_addPodToNode,
     Struct_unpreemptDone, Struct_undo, Struct_restored
     DEF Step
<1> QED BY <1>1, <1>2, <1>3, <1>4, <1>5 DEF Next

\* The structural invariant holds in every reachable state.
THEOREM StructureHolds == Spec => []StructInv
<1>1. Init => StructInv
  BY StructInit
<1>2. StructInv /\ [Next]_vars => StructInv'
  BY StructNext
<1> QED BY <1>1, <1>2, PTL DEF Spec

\* Types: every variable of the snapshot, and every argument and local of a
\* running call, keeps its type, whatever the client, the profiles and the bounds.
THEOREM TypeCorrect == Spec => []TypeOK
<1>1. StructInv => TypeOK
  BY DEF StructInv
<1> QED BY <1>1, StructureHolds, PTL

--------------------------------------------------------------------------------
(* Rollback                                                                *)

\* In the initial state there is nothing to roll back.
LEMMA RollbackInit == Init => RollbackInv
<1> SUFFICES ASSUME Init PROVE RollbackInv
  OBVIOUS
<1>1. /\ stateVersion = 0 /\ pc = "idle" /\ ~transactionInProgress /\ call.fn = "none"
      /\ history = <<>> /\ points = <<nodePods>> /\ observed = nodePods
  BY DEF Init, NoCall
<1>2. Len(history) = 0 /\ points[1] = nodePods
  BY <1>1
<1> QED BY <1>1, <1>2 DEF RollbackInv, ChainInv, NamesInv, OwedInv, ViewAt

\* A step that leaves pods, objects, log and history alone keeps every view.
LEMMA FrameFacts ==
  ASSUME StructInv, RollbackInv, UNCHANGED <<nodes, nodePods, undoLog, history>>
  PROVE  ChainInv' /\ \A k \in Nat : ViewAt(k)' = ViewAt(k)
BY DEF RollbackInv, ChainInv, ViewAt, RevertInPlace, AddPod, RemovePod, CanRemove, undoLog

\* The views owed to the callers are safe as long as no view below changes.
LEMMA OwedKept ==
  ASSUME StructInv, StructInv', OwedInv,
         \A k \in 0..stateVersion : k =< stateVersion' => ViewAt(k)' = ViewAt(k),
         UNCHANGED <<transaction, points, observed>>,
         call'.fn = call.fn, call'.base = call.base, pc' # "idle"
  PROVE  OwedInv'
<1>1. /\ stateVersion' \in Nat /\ call'.base \in Nat /\ call'.base =< stateVersion'
      /\ tx' = tx /\ transactionInProgress' = transactionInProgress /\ points' = points
      /\ observed' = observed /\ call.base \in Nat /\ tx.initialStateVersion \in Nat
      /\ transactionInProgress => /\ tx.initialStateVersion =< stateVersion
                                  /\ tx.initialStateVersion =< stateVersion'
      /\ stateVersion \in Nat /\ call.base =< stateVersion
  BY DEF StructInv, TypeOK, ControlInv, transaction, Call
<1>2. ViewAt(0)' = points'[1]
  BY <1>1 DEF OwedInv
<1>3. ASSUME transactionInProgress'
      PROVE  ViewAt(tx.initialStateVersion)' = points'[2]
  <2>1. tx.initialStateVersion \in 0..stateVersion /\ tx.initialStateVersion =< stateVersion'
    BY <1>1, <1>3
  <2> DEFINE k == tx.initialStateVersion
  <2>2. k' = k
    BY <1>1
  <2>3. (IF k = Len(history') THEN nodePods' ELSE history'[k + 1]) = ViewAt(k)
    <3> HIDE DEF k
    <3> QED BY <2>1 DEF ViewAt, k
  <2> QED BY <1>1, <1>3, <2>3 DEF OwedInv, ViewAt
<1>4. ASSUME call'.fn \in {"SchedulePods", "PreemptPods"}
      PROVE  ViewAt(call.base)' = observed'
  <2>1. call.base \in 0..stateVersion /\ call.base =< stateVersion'
    BY <1>1
  <2> DEFINE k == call.base
  <2>2. (IF k = Len(history') THEN nodePods' ELSE history'[k + 1]) = ViewAt(k)
    <3> HIDE DEF k
    <3> QED BY <2>1 DEF ViewAt, k
  <2> QED BY <1>1, <1>4, <2>2 DEF OwedInv, ViewAt
<1> QED BY <1>2, <1>3, <1>4 DEF OwedInv

\* The names of preempted pods are not disturbed outside SchedulePods.
LEMMA NamesKept ==
  ASSUME NamesInv, UNCHANGED <<specNode, undoLog>>, pc' \notin {"schedule", "reserve"}
  PROVE  NamesInv'
BY DEF NamesInv, undoLog

LEMMA Rollback_ReturnAtOnce ==
  ASSUME StructInv, RollbackInv, NEW r, ReturnAtOnce(r)
  PROVE  RollbackInv'
<1>1. /\ pc = "idle"
      /\ UNCHANGED <<nodes, nodePods, specNode, undoLog, transaction, pc, call,
                     history, observed, points>>
  BY DEF ReturnAtOnce, Idle
<1>2. ChainInv'
  BY <1>1, FrameFacts
<1>3. NamesInv'
  BY <1>1, NamesKept DEF RollbackInv
<1>4. OwedInv'
  BY <1>1 DEF RollbackInv, OwedInv, ViewAt, transaction
<1> QED BY <1>1, <1>2, <1>3, <1>4 DEF RollbackInv

\* A call that starts with the current state version is owed the current view.
LEMMA Rollback_Enter ==
  ASSUME StructInv, RollbackInv, pc = "idle", pc' \notin {"idle", "reserve"},
         call'.fn \in {"SchedulePods", "PreemptPods"} => call'.base = stateVersion,
         pc' = "schedule" /\ ~ReusesPreemptedPods =>
           \A i \in 1..stateVersion, j \in 1..Len(call'.todo) :
             undoOperations[i].op = "add" => undoOperations[i].pod # call'.todo[j],
         UNCHANGED <<nodes, nodePods, specNode, undoLog, transaction,
                     history, observed, points>>
  PROVE  RollbackInv'
<1>1. ChainInv'
  BY FrameFacts
<1>2. NamesInv'
  BY DEF RollbackInv, NamesInv, undoLog
<1>3. Len(history) = stateVersion
  BY DEF StructInv, LogInv
<1>4. OwedInv'
  <2>1. observed = nodePods
    BY DEF RollbackInv, OwedInv
  <2>2. call'.fn \in {"SchedulePods", "PreemptPods"} => ViewAt(call.base)' = observed'
    BY <1>3, <2>1 DEF ViewAt
  <2>3. /\ ViewAt(0)' = points'[1]
        /\ transactionInProgress' => ViewAt(tx.initialStateVersion)' = points'[2]
    BY DEF RollbackInv, OwedInv, ViewAt, transaction
  <2> QED BY <2>2, <2>3 DEF OwedInv
<1> QED BY <1>1, <1>2, <1>4 DEF RollbackInv

LEMMA Rollback_SchedulePods ==
  ASSUME StructInv, RollbackInv, SchedulePods \/ SchedulePodsByTemplate
  PROVE  RollbackInv'
<1> DEFINE Untouched == {p \in Pods : ~ReusesPreemptedPods =>
                           \A i \in 1..stateVersion :
                             undoOperations[i].op = "add" => undoOperations[i].pod # p}
<1>1. /\ undoOperations \in Seq(UndoOperation) /\ stateVersion = Len(undoOperations)
      /\ DOMAIN undoOperations = 1..stateVersion
      /\ \A i \in 1..stateVersion : undoOperations[i].node \in nodes
      /\ nodes \subseteq Nodes
  BY LenProperties DEF StructInv, TypeOK, LogInv
<1>2. Schedulable \subseteq Untouched
  BY <1>1 DEF Schedulable
<1>3. {p \in TemplatePods : specNode[p] = NoNode} \subseteq Untouched
  <2>1. ASSUME NEW p \in TemplatePods, specNode[p] = NoNode, NEW i \in 1..stateVersion,
               undoOperations[i].op = "add", undoOperations[i].pod = p
        PROVE  FALSE
    <3>1. specNode[p] = undoOperations[i].node
      BY <2>1 DEF RollbackInv, NamesInv
    <3> QED BY <1>1, <2>1, <3>1, ConstantsAssumption
  <2> QED BY <2>1, ConstantsAssumption
<1>4. PICK batch, ps, d, s : batch \in Seq(Untouched) /\ schedulePods(batch, ps, d, s)
  <2> HIDE DEF Untouched
  <2>1. CASE SchedulePods
    <3>1. PICK batch \in Batches(Schedulable \ {p \in TemplatePods : specNode[p] = NoNode}),
               ps \in SUBSET Nodes, d \in BOOLEAN, s \in BOOLEAN :
                 schedulePods(batch, ps, d, s)
      BY <2>1 DEF SchedulePods
    <3>2. batch \in Seq(Schedulable \ {p \in TemplatePods : specNode[p] = NoNode})
      BY BatchFacts
    <3>3. batch \in Seq(Untouched)
      BY <1>2, <3>2, SeqMonotonic
    <3> QED BY <3>1, <3>3, Zenon
  <2>2. CASE SchedulePodsByTemplate
    <3>1. PICK batch \in Batches({p \in TemplatePods : specNode[p] = NoNode}),
               ps \in SUBSET nodes, d \in BOOLEAN :
                 schedulePods(batch, ps, d, TRUE)
      BY <2>2 DEF SchedulePodsByTemplate
    <3>2. batch \in Seq({p \in TemplatePods : specNode[p] = NoNode})
      BY BatchFacts
    <3>3. batch \in Seq(Untouched)
      BY <1>3, <3>2, SeqMonotonic
    <3> QED BY <3>1, <3>3, Zenon
  <2> QED BY <2>1, <2>2
<1>5. CASE ReturnAtOnce("ok") \/ ReturnAtOnce("error")
  BY <1>5, Rollback_ReturnAtOnce
<1>6. CASE ~(ReturnAtOnce("ok") \/ ReturnAtOnce("error"))
  <2>1. /\ pc = "idle" /\ pc' = "schedule"
        /\ call' = [NoCall EXCEPT !.fn = "SchedulePods", !.base = stateVersion,
                       !.todo = batch, !.dryRun = d, !.stopOnFailure = s]
        /\ UNCHANGED <<nodes, nodePods, specNode, undoLog, transaction,
                       history, observed, points>>
    BY <1>4, <1>6 DEF schedulePods, Enter, Idle
  <2>2. call'.fn = "SchedulePods" /\ call'.base = stateVersion /\ call'.todo = batch
    BY <2>1 DEF NoCall
  <2>3. ASSUME ~ReusesPreemptedPods, NEW i \in 1..stateVersion, NEW j \in 1..Len(batch),
               undoOperations[i].op = "add"
        PROVE  undoOperations[i].pod # batch[j]
    <3>1. batch[j] \in Untouched
      <4> HIDE DEF Untouched
      <4> QED BY <1>4
    <3> QED BY <2>3, <3>1
  <2> QED BY <2>1, <2>2, <2>3, Rollback_Enter
<1> QED BY <1>5, <1>6

LEMMA Rollback_OtherCalls ==
  ASSUME StructInv, RollbackInv,
         \/ CanSchedulePod \/ PreemptPods \/ Unpreempt
         \/ TransactionRevert \/ ResetMutations
  PROVE  RollbackInv'
<1>1. CASE ReturnAtOnce("ok") \/ ReturnAtOnce("error")
  BY <1>1, Rollback_ReturnAtOnce
<1>2. CASE ~(ReturnAtOnce("ok") \/ ReturnAtOnce("error"))
  <2> DEFINE Frame == UNCHANGED <<nodes, nodePods, specNode, undoLog, transaction,
                                  history, observed, points>>
  <2>1. CASE CanSchedulePod
    <3>1. PICK p \in Pods :
            /\ pc = "idle" /\ pc' = "canSchedule" /\ Frame
            /\ call' = [NoCall EXCEPT !.fn = "CanSchedulePod", !.todo = <<p>>]
      BY <1>2, <2>1 DEF CanSchedulePod, Enter, Idle
    <3>2. call'.fn = "CanSchedulePod"
      BY <3>1 DEF NoCall
    <3> QED BY <3>1, <3>2, Rollback_Enter
  <2>2. CASE PreemptPods
    <3>1. PICK b : /\ pc = "idle" /\ pc' = "preempt" /\ Frame
                   /\ call' = [NoCall EXCEPT !.fn = "PreemptPods",
                                 !.base = stateVersion, !.todo = b]
      BY <1>2, <2>2 DEF PreemptPods, Enter, Idle
    <3>2. call'.fn = "PreemptPods" /\ call'.base = stateVersion
      BY <3>1 DEF NoCall
    <3> QED BY <3>1, <3>2, Rollback_Enter
  <2>3. CASE Unpreempt
    <3>1. PICK i : /\ pc = "idle" /\ pc' = "unpreempt" /\ Frame
                   /\ call' = [NoCall EXCEPT !.fn = "Unpreempt", !.base = stateVersion,
                                 !.todo = handles[i].pods, !.handle = i]
      BY <1>2, <2>3 DEF Unpreempt, Enter, Idle
    <3>2. call'.fn = "Unpreempt"
      BY <3>1 DEF NoCall
    <3> QED BY <3>1, <3>2, Rollback_Enter
  <2>4. CASE TransactionRevert
    <3>1. PICK x \in BOOLEAN :
            /\ pc = "idle" /\ pc' = "restore" /\ Frame
            /\ call' = [NoCall EXCEPT !.fn = "Transaction",
                          !.base = tx.initialStateVersion, !.failed = x]
      BY <2>4 DEF TransactionRevert, Enter, Idle
    <3>2. call'.fn = "Transaction"
      BY <3>1 DEF NoCall
    <3> QED BY <3>1, <3>2, Rollback_Enter
  <2>5. CASE ResetMutations
    <3>1. /\ pc = "idle" /\ pc' = "restore" /\ Frame
          /\ call' = [NoCall EXCEPT !.fn = "ResetMutations"]
      BY <1>2, <2>5 DEF ResetMutations, Enter, Idle
    <3>2. call'.fn = "ResetMutations"
      BY <3>1 DEF NoCall
    <3> QED BY <3>1, <3>2, Rollback_Enter
  <2> QED BY <2>1, <2>2, <2>3, <2>4, <2>5
<1> QED BY <1>1, <1>2

\* A call returns without having changed the log: nothing is owed to it any more.
LEMMA Rollback_Return ==
  ASSUME StructInv, RollbackInv, NEW r, Return(r),
         UNCHANGED <<nodes, nodePods, specNode, undoLog, history>>,
         UNCHANGED <<transaction, points>> \/ TransactionEnd
  PROVE  RollbackInv'
<1>1. pc' = "idle" /\ call' = NoCall /\ observed' = nodePods
  BY DEF Return
<1>2. call'.fn = "none"
  BY <1>1 DEF NoCall
<1>3. ChainInv'
  BY FrameFacts
<1>4. NamesInv'
  BY <1>1, NamesKept DEF RollbackInv
<1>5. ViewAt(0)' = points'[1]
  <2>1. points'[1] = points[1]
    BY DEF TransactionEnd
  <2> QED BY <2>1 DEF RollbackInv, OwedInv, ViewAt
<1>6. transactionInProgress' => ViewAt(tx.initialStateVersion)' = points'[2]
  <2>1. CASE TransactionEnd
    BY <2>1 DEF TransactionEnd
  <2>2. CASE UNCHANGED <<transaction, points>>
    BY <2>2 DEF transaction, RollbackInv, OwedInv, ViewAt
  <2> QED BY <2>1, <2>2
<1>7. OwedInv'
  BY <1>1, <1>2, <1>5, <1>6 DEF OwedInv
<1> QED BY <1>1, <1>3, <1>4, <1>7 DEF RollbackInv

\* A call goes on without having changed the log.
LEMMA Rollback_Continue ==
  ASSUME StructInv, StructInv', RollbackInv, pc' \notin {"idle", "reserve"},
         call'.fn = call.fn, call'.base = call.base,
         pc' = "schedule" =>
           /\ pc = "schedule"
           /\ \A j \in 1..Len(call'.todo) : \E k \in 1..Len(call.todo) : call'.todo[j] = call.todo[k],
         UNCHANGED <<nodes, nodePods, specNode, undoLog, transaction,
                     history, observed, points>>
  PROVE  RollbackInv'
<1>1. ChainInv' /\ \A k \in Nat : ViewAt(k)' = ViewAt(k)
  BY FrameFacts
<1>2. NamesInv'
  <2>1. \A i \in 1..stateVersion' : undoOperations'[i].op = "add" =>
          specNode'[undoOperations'[i].pod] = undoOperations'[i].node
    BY DEF RollbackInv, NamesInv, undoLog
  <2>2. ASSUME pc' = "schedule", ~ReusesPreemptedPods,
               NEW i \in 1..stateVersion, NEW j \in 1..Len(call'.todo),
               undoOperations[i].op = "add"
        PROVE  undoOperations[i].pod # call'.todo[j]
    BY <2>2 DEF RollbackInv, NamesInv
  <2> QED BY <2>1, <2>2 DEF NamesInv, undoLog
<1>3. stateVersion \in Nat
  BY DEF StructInv, TypeOK
<1>4. OwedInv'
  BY <1>1, <1>3, OwedKept DEF RollbackInv
<1> QED BY <1>1, <1>2, <1>4 DEF RollbackInv

\* What Record leaves to do was to be done before.
LEMMA RecordTodo ==
  ASSUME StructInv, call.todo # <<>>, NEW status \in {"Success", "Unschedulable", "Error"},
         NEW n \in Nodes \cup {NoNode}, Record(status, n)
  PROVE  \A j \in 1..Len(call'.todo) : \E k \in 1..Len(call.todo) : call'.todo[j] = call.todo[k]
<1>1. call.todo \in Seq(Pods)
  BY DEF StructInv, TypeOK, Call
<1>2. CASE call'.todo = <<>>
  BY <1>2
<1>3. CASE call'.todo = Tail(call.todo)
  <2>1. /\ Len(call.todo) \in Nat /\ Len(Tail(call.todo)) = Len(call.todo) - 1
        /\ \A i \in 1..Len(Tail(call.todo)) : Tail(call.todo)[i] = call.todo[i + 1]
    BY <1>1, HeadTailProperties, LenProperties
  <2>2. ASSUME NEW j \in 1..Len(call'.todo)
        PROVE  \E k \in 1..Len(call.todo) : call'.todo[j] = call.todo[k]
    <3>1. j + 1 \in 1..Len(call.todo) /\ call'.todo[j] = call.todo[j + 1]
      BY <1>3, <2>1, <2>2
    <3> QED BY <3>1
  <2> QED BY <2>2
<1> QED BY <1>2, <1>3, RecordFacts

LEMMA Rollback_scheduleNoProfile ==
  ASSUME StructInv, StructInv', RollbackInv, scheduleNoProfile
  PROVE  RollbackInv'
<1>1. /\ pc' = "restore" /\ call' = [call EXCEPT !.failed = TRUE] /\ call \in Call
      /\ UNCHANGED <<nodes, nodePods, specNode, undoLog, transaction,
                     history, observed, points>>
  BY DEF scheduleNoProfile, StructInv, TypeOK
<1>2. call'.fn = call.fn /\ call'.base = call.base
  BY <1>1 DEF Call
<1> QED BY <1>1, <1>2, Rollback_Continue

LEMMA Rollback_scheduleFails ==
  ASSUME StructInv, StructInv', RollbackInv, scheduleFails
  PROVE  RollbackInv'
<1>1. /\ pc = "schedule" /\ pc' = "schedule" /\ call.todo # <<>>
      /\ UNCHANGED <<nodes, nodePods, specNode, undoLog, transaction,
                     history, observed, points>>
      /\ Record("Unschedulable", NoNode) \/ Record("Error", NoNode)
  BY DEF scheduleFails, Scheduling
<1>2. call'.fn = call.fn /\ call'.base = call.base
  BY <1>1, RecordFacts
<1>3. \A j \in 1..Len(call'.todo) : \E k \in 1..Len(call.todo) : call'.todo[j] = call.todo[k]
  BY <1>1, RecordTodo
<1> QED BY <1>1, <1>2, <1>3, Rollback_Continue

LEMMA Rollback_scheduleDone ==
  ASSUME StructInv, StructInv', RollbackInv, scheduleDone
  PROVE  RollbackInv'
<1>1. UNCHANGED <<nodes, nodePods, specNode, undoLog, transaction, history, points>>
  BY DEF scheduleDone
<1>2. CASE Return("ok")
  BY <1>1, <1>2, Rollback_Return
<1>3. CASE ~Return("ok")
  <2>1. pc' = "restore" /\ UNCHANGED <<call, observed>>
    BY <1>3 DEF scheduleDone
  <2> QED BY <1>1, <2>1, Rollback_Continue
<1> QED BY <1>2, <1>3

\* Every other way out of a call.
LEMMA Rollback_Returns ==
  ASSUME StructInv, RollbackInv,
         \/ canScheduleDone \/ preemptDone \/ unpreemptDone
         \/ restoreCall \/ restoreTransaction \/ restoreReset
  PROVE  RollbackInv'
<1>1. \E r : Return(r)
  BY DEF canScheduleDone, preemptDone, unpreemptDone, restoreCall, restoreTransaction,
         restoreReset
<1>2. UNCHANGED <<nodes, nodePods, specNode, undoLog, history>>
  BY DEF canScheduleDone, preemptDone, unpreemptDone, restoreCall, restoreTransaction,
         restoreReset
<1>3. UNCHANGED <<transaction, points>> \/ TransactionEnd
  BY DEF canScheduleDone, preemptDone, unpreemptDone, restoreCall, restoreTransaction,
         restoreReset
<1> QED BY <1>1, <1>2, <1>3, Rollback_Return

\* A transaction that starts is owed the current view.
LEMMA Rollback_TransactionBegin ==
  ASSUME StructInv, RollbackInv, TransactionBegin
  PROVE  RollbackInv'
<1>1. CASE ReturnAtOnce("error")
  BY <1>1, Rollback_ReturnAtOnce
<1>2. CASE ~ReturnAtOnce("error")
  <2>1. /\ pc = "idle" /\ ~transactionInProgress /\ transactionInProgress'
        /\ tx' = [initialStateVersion |-> stateVersion,
                  initialStateVersionForPreemption |-> stateVersionForPreemption]
        /\ points' = Append(points, nodePods)
        /\ UNCHANGED <<nodes, nodePods, specNode, undoLog, pc, call, history, observed>>
    BY <1>2 DEF TransactionBegin, Idle
  <2>2. Len(history) = stateVersion /\ Len(points) = 1 /\ call.fn = "none"
    BY <2>1 DEF StructInv, ControlInv, LogInv
  <2>3. points'[1] = points[1] /\ points'[2] = nodePods
    <3>1. /\ \A i \in 1..Len(points) : Append(points, nodePods)[i] = points[i]
          /\ Append(points, nodePods)[Len(points) + 1] = nodePods
      <4>1. points \in Seq(View) /\ nodePods \in View
        BY DEF StructInv, TypeOK
      <4> HIDE DEF View
      <4> QED BY <4>1, AppendProperties
    <3>2. 1 \in 1..Len(points) /\ Len(points) + 1 = 2
      BY <2>2
    <3> QED BY <2>1, <3>1, <3>2
  <2>4. tx'.initialStateVersion = stateVersion
    BY <2>1
  <2>5. ViewAt(tx.initialStateVersion)' = points'[2]
    BY <2>1, <2>2, <2>3, <2>4 DEF ViewAt
  <2>6. OwedInv'
    BY <2>1, <2>2, <2>3, <2>5 DEF RollbackInv, OwedInv, ViewAt
  <2>7. ChainInv' /\ NamesInv'
    BY <2>1, FrameFacts, NamesKept DEF RollbackInv
  <2> QED BY <2>1, <2>6, <2>7 DEF RollbackInv
<1> QED BY <1>1, <1>2

LEMMA Rollback_TransactionKeep ==
  ASSUME StructInv, RollbackInv, TransactionKeep
  PROVE  RollbackInv'
<1>1. /\ pc = "idle" /\ ~transactionInProgress' /\ points' = <<points[1]>>
      /\ UNCHANGED <<nodes, nodePods, specNode, undoLog, pc, call, history, observed>>
  BY DEF TransactionKeep, TransactionEnd, Idle
<1>2. call'.fn = "none"
  BY <1>1 DEF StructInv, ControlInv
<1>3. points'[1] = points[1]
  BY <1>1
<1>4. OwedInv'
  BY <1>1, <1>2, <1>3 DEF RollbackInv, OwedInv, ViewAt
<1>5. ChainInv' /\ NamesInv'
  BY <1>1, FrameFacts, NamesKept DEF RollbackInv
<1> QED BY <1>1, <1>4, <1>5 DEF RollbackInv

\* A mutation adds the view before it to the history and keeps all earlier views.
LEMMA PushFacts ==
  ASSUME StructInv, pc # "reserve", history' = Append(history, nodePods)
  PROVE  /\ stateVersion \in Nat /\ Len(history') = stateVersion + 1
         /\ \A i \in 1..stateVersion : history'[i] = history[i]
         /\ history'[stateVersion + 1] = nodePods
         /\ \A k \in 0..stateVersion : ViewAt(k)' = ViewAt(k)
<1>1. /\ history \in Seq(View) /\ nodePods \in View /\ stateVersion \in Nat
      /\ Len(history) = stateVersion
  BY DEF StructInv, TypeOK, LogInv
<1>2. /\ Len(history') = stateVersion + 1
      /\ \A i \in 1..stateVersion : history'[i] = history[i]
      /\ history'[stateVersion + 1] = nodePods
  BY <1>1, AppendProperties
<1>3. ASSUME NEW k \in 0..stateVersion PROVE ViewAt(k)' = ViewAt(k)
  <2>1. k # Len(history') /\ ViewAt(k)' = history'[k + 1]
    BY <1>1, <1>2 DEF ViewAt
  <2>2. CASE k = stateVersion
    BY <1>1, <1>2, <2>1, <2>2 DEF ViewAt
  <2>3. CASE k # stateVersion
    <3>1. k + 1 \in 1..stateVersion
      BY <1>1, <2>3
    <3> QED BY <1>1, <1>2, <2>1, <2>3, <3>1 DEF ViewAt
  <2> QED BY <2>2, <2>3
<1> QED BY <1>1, <1>2, <1>3

\* The chain of views does not depend on anything but pods, log and history.
LEMMA ChainKept ==
  ASSUME StructInv, ChainInv, UNCHANGED nodes, NEW m \in Nat, m =< stateVersion,
         \A i \in 1..m : undoOperations'[i] = undoOperations[i],
         \A i \in 1..m : history'[i] = history[i],
         \A k \in 0..m : ViewAt(k)' = ViewAt(k)
  PROVE  \A i \in 1..m : RevertInPlace(ViewAt(i), undoOperations[i])' = history'[i]
<1> SUFFICES ASSUME NEW i \in 1..m
             PROVE  RevertInPlace(ViewAt(i), undoOperations[i])' = history'[i]
  OBVIOUS
<1>1. i \in 1..stateVersion /\ i \in 0..m
  BY DEF StructInv, TypeOK
<1>2. RevertInPlace(ViewAt(i), undoOperations[i]) = history[i]
  BY <1>1 DEF ChainInv
<1>3. /\ ViewAt(i)' = ViewAt(i) /\ undoOperations'[i] = undoOperations[i]
      /\ history'[i] = history[i]
  BY <1>1
<1> QED BY <1>2, <1>3 DEF RevertInPlace, AddPod, RemovePod, CanRemove

\* A mutation with its revert function: a preempted or an unpreempted pod.
LEMMA Rollback_Mutation ==
  ASSUME StructInv, StructInv', RollbackInv, pc \in {"preempt", "unpreempt"}, pc' = pc,
         NEW e \in UndoOperation, e.node \in nodes, registerOperation(e),
         history' = Append(history, nodePods),
         RevertInPlace(nodePods', e) = nodePods,
         e.op = "add" => specNode[e.pod] = e.node,
         call'.fn = call.fn, call'.base = call.base,
         UNCHANGED <<nodes, specNode, transaction, observed, points>>
  PROVE  RollbackInv'
<1>1. /\ stateVersion' = stateVersion + 1 /\ stateVersion' \in Nat
      /\ \A i \in 1..stateVersion : undoOperations'[i] = undoOperations[i]
      /\ undoOperations'[stateVersion + 1] = e
  BY RegisterFacts
<1>2. /\ stateVersion \in Nat /\ Len(history') = stateVersion + 1
      /\ \A i \in 1..stateVersion : history'[i] = history[i]
      /\ history'[stateVersion + 1] = nodePods
      /\ \A k \in 0..stateVersion : ViewAt(k)' = ViewAt(k)
  BY PushFacts
<1>3. ChainInv'
  <2>1. \A i \in 1..stateVersion : RevertInPlace(ViewAt(i), undoOperations[i])' = history'[i]
    BY <1>1, <1>2, ChainKept DEF RollbackInv
  <2>2. SUFFICES ASSUME NEW i \in 1..stateVersion'
                 PROVE  RevertInPlace(ViewAt(i), undoOperations[i])' = history'[i]
    BY DEF ChainInv
  <2>3. CASE i \in 1..stateVersion
    BY <2>1, <2>3
  <2>4. CASE i = stateVersion + 1
    <3>1. ViewAt(i)' = nodePods' /\ undoOperations'[i] = e /\ history'[i] = nodePods
      BY <1>1, <1>2, <2>4 DEF ViewAt
    <3> QED BY <3>1 DEF RevertInPlace, AddPod, RemovePod, CanRemove
  <2> QED BY <1>1, <1>2, <2>3, <2>4
<1>4. NamesInv'
  BY <1>1, <1>2 DEF RollbackInv, NamesInv
<1>5. OwedInv'
  BY <1>2, OwedKept DEF RollbackInv
<1> QED BY <1>3, <1>4, <1>5 DEF RollbackInv

LEMMA Rollback_removePodFromNode ==
  ASSUME StructInv, StructInv', RollbackInv, removePodFromNode
  PROVE  RollbackInv'
<1> DEFINE p == Head(call.todo)
           n == specNode[p]
           e == Operation("add", p, n)
<1>1. /\ pc = "preempt" /\ call.todo # <<>> /\ call \in Call /\ call.todo \in Seq(Pods)
      /\ nodePods \in View /\ nodes \subseteq Nodes
      /\ UNCHANGED <<nodes, specNode, transaction, observed, points>>
  BY DEF removePodFromNode, StructInv, TypeOK, Call
<1>2. p \in Pods
  BY <1>1, HeadTailProperties
<1>3. CASE CanRemove(nodePods, p, n)
  <2>1. /\ nodePods' = RemovePod(nodePods, p, n) /\ registerOperation(e) /\ pc' = pc
        /\ history' = Append(history, nodePods)
        /\ call' = [call EXCEPT !.todo = Tail(@), !.done = Append(@, p)]
    BY <1>3 DEF removePodFromNode
  <2>2. call'.fn = call.fn /\ call'.base = call.base
    BY <1>1, <2>1 DEF Call
  <2>3. n \in nodes
    BY <1>3 DEF CanRemove
  <2>4. e \in UndoOperation /\ e.node = n /\ e.op = "add" /\ e.pod = p
    BY <1>1, <1>2, <2>3 DEF Operation, UndoOperation
  <2> HIDE DEF n, p
  <2>5. RevertInPlace(nodePods', e) = nodePods
    <3>1. AddPod(RemovePod(nodePods, p, n), p, n) = nodePods
      BY <1>1, <1>2, <1>3, AddUndoesRemove
    <3> HIDE DEF e
    <3> QED BY <2>1, <2>4, <3>1 DEF RevertInPlace
  <2>6. specNode[e.pod] = e.node
    BY <2>4 DEF n
  <2> HIDE DEF e
  <2> QED BY <1>1, <2>1, <2>2, <2>3, <2>4, <2>5, <2>6, Rollback_Mutation
<1>4. CASE ~CanRemove(nodePods, p, n)
  <2>1. /\ pc' = "restore" /\ call' = [call EXCEPT !.failed = TRUE]
        /\ UNCHANGED <<nodePods, undoLog, history>>
    BY <1>4 DEF removePodFromNode
  <2>2. call'.fn = call.fn /\ call'.base = call.base
    BY <1>1, <2>1 DEF Call
  <2> QED BY <1>1, <2>1, <2>2, Rollback_Continue
<1> QED BY <1>3, <1>4

LEMMA Rollback_addPodToNode ==
  ASSUME StructInv, StructInv', RollbackInv, addPodToNode
  PROVE  RollbackInv'
<1> DEFINE p == Last(call.todo)
           n == specNode[p]
           e == Operation("remove", p, n)
<1>1. /\ pc = "unpreempt" /\ pc' = pc /\ call.todo # <<>> /\ call \in Call
      /\ call.todo \in Seq(Pods) /\ nodePods \in View /\ nodes \subseteq Nodes
      /\ nodePods' = AddPod(nodePods, p, n)
      /\ UNCHANGED <<nodes, specNode, transaction, observed, points>>
  BY DEF addPodToNode, StructInv, TypeOK, Call
<1>2. p \in Pods
  BY <1>1, FrontFacts
<1>3. call'.fn = call.fn /\ call'.base = call.base
  <2>1. call' = [call EXCEPT !.todo = Front(@), !.failed = @ \/ ~(n \in nodes)]
    BY DEF addPodToNode
  <2> HIDE DEF n
  <2> QED BY <1>1, <2>1 DEF Call
<1>4. CASE n \in nodes
  <2>1. registerOperation(e) /\ history' = Append(history, nodePods)
    BY <1>4 DEF addPodToNode
  <2>2. e \in UndoOperation /\ e.node = n /\ e.op = "remove" /\ e.pod = p
    BY <1>1, <1>2, <1>4 DEF Operation, UndoOperation
  <2> HIDE DEF n, p
  <2>3. RevertInPlace(nodePods', e) = nodePods
    <3>1. RemovePod(AddPod(nodePods, p, n), p, n) = nodePods
      BY <1>1, <1>2, <1>4, RemoveUndoesAdd
    <3> HIDE DEF e
    <3> QED BY <1>1, <2>2, <3>1 DEF RevertInPlace
  <2> HIDE DEF e
  <2> QED BY <1>1, <1>3, <1>4, <2>1, <2>2, <2>3, Rollback_Mutation
<1>5. CASE n \notin nodes
  <2>1. UNCHANGED <<undoLog, history>>
    BY <1>5 DEF addPodToNode
  <2>2. nodePods' = nodePods
    BY <1>1, <1>5 DEF AddPod
  <2> QED BY <1>1, <1>3, <2>1, <2>2, Rollback_Continue
<1> QED BY <1>4, <1>5

LEMMA Rollback_undo ==
  ASSUME StructInv, StructInv', RollbackInv, undo
  PROVE  RollbackInv'
<1> DEFINE e == Last(undoOperations)
<1>1. /\ pc = "restore" /\ pc' = pc /\ nodePods' = Revert(nodePods, e)
      /\ UNCHANGED <<nodes, specNode, transaction, call, observed, points>>
  BY DEF undo
<1>2. /\ stateVersion \in Nat \ {0} /\ stateVersion' = stateVersion - 1
      /\ stateVersion' \in Nat /\ e = undoOperations[stateVersion]
      /\ Len(history) = stateVersion /\ Len(history') = stateVersion'
      /\ \A i \in 1..stateVersion' : undoOperations'[i] = undoOperations[i]
      /\ \A i \in 1..stateVersion' : history'[i] = history[i]
  BY UndoFacts
<1> HIDE DEF e
<1>3. nodePods' = history[stateVersion]
  <2>1. e.op = "add" => specNode[e.pod] = e.node
    BY <1>2 DEF RollbackInv, NamesInv
  <2>2. Revert(nodePods, e) = RevertInPlace(nodePods, e)
    BY <2>1 DEF Revert, RevertInPlace
  <2>3. ViewAt(stateVersion) = nodePods
    BY <1>2 DEF ViewAt
  <2> QED BY <1>1, <1>2, <2>2, <2>3 DEF RollbackInv, ChainInv
<1>4. ASSUME NEW k \in 0..stateVersion' PROVE ViewAt(k)' = ViewAt(k)
  <2>1. k # Len(history) /\ ViewAt(k) = history[k + 1]
    BY <1>2 DEF ViewAt
  <2>2. CASE k = stateVersion'
    BY <1>2, <1>3, <2>1, <2>2 DEF ViewAt
  <2>3. CASE k # stateVersion'
    <3>1. k + 1 \in 1..stateVersion'
      BY <1>2, <2>3
    <3> QED BY <1>2, <2>1, <2>3, <3>1 DEF ViewAt
  <2> QED BY <2>2, <2>3
<1>5. ChainInv'
  <2> DEFINE m == stateVersion'
  <2>1. m \in Nat /\ m =< stateVersion
    BY <1>2
  <2>2. \A i \in 1..m : RevertInPlace(ViewAt(i), undoOperations[i])' = history'[i]
    BY <1>1, <1>2, <1>4, <2>1, ChainKept DEF RollbackInv
  <2> QED BY <2>2 DEF ChainInv
<1>6. NamesInv'
  <2>1. \A i \in 1..stateVersion' : i \in 1..stateVersion
    BY <1>2
  <2> QED BY <1>1, <1>2, <2>1 DEF RollbackInv, NamesInv
<1>7. OwedInv'
  <2>1. \A k \in 0..stateVersion : k =< stateVersion' => ViewAt(k)' = ViewAt(k)
    BY <1>2, <1>4
  <2> QED BY <1>1, <2>1, OwedKept DEF RollbackInv
<1> QED BY <1>1, <1>5, <1>6, <1>7 DEF RollbackInv

\* The client keeps SchedulePods away from the objects of preempted pods, or the
\* profile lets it put them only where they were.  The second suffices because specNode
\* is the library's: a client that clears Spec.NodeName first undoes the filter.
NamesProtected == NodeNameFilter \/ ~ReusesPreemptedPods

LEMMA Rollback_assume ==
  ASSUME NamesProtected, StructInv, StructInv', RollbackInv, assume
  PROVE  RollbackInv'
<1> DEFINE p == Head(call.todo)
<1>1. PICK n \in Feasible(p) : /\ nodePods' = AddPod(nodePods, p, n)
                               /\ call' = [call EXCEPT !.host = n]
  BY DEF assume
<1>2. /\ pc = "schedule" /\ pc' = "reserve" /\ call.todo # <<>>
      /\ history' = Append(history, nodePods)
      /\ UNCHANGED <<nodes, specNode, undoLog, transaction, observed, points>>
  BY DEF assume, Scheduling
<1>3. /\ call \in Call /\ call.todo \in Seq(Pods) /\ nodes \subseteq Nodes
      /\ nodePods \in View /\ n \in nodes
      /\ \A i \in 1..stateVersion : undoOperations[i].node \in nodes
  BY DEF StructInv, TypeOK, Call, Feasible, LogInv
<1>4. /\ p \in Pods /\ 1 \in 1..Len(call.todo) /\ p = call.todo[1]
  BY <1>2, <1>3, HeadTailProperties, EmptySeq, LenProperties
<1>5. /\ call'.fn = call.fn /\ call'.base = call.base /\ call'.host = n
      /\ call'.todo = call.todo
  BY <1>1, <1>3 DEF Call
<1>6. /\ stateVersion \in Nat /\ stateVersion' = stateVersion
      /\ undoOperations' = undoOperations
      /\ \A i \in 1..stateVersion : history'[i] = history[i]
      /\ history'[stateVersion + 1] = nodePods
      /\ \A k \in 0..stateVersion : ViewAt(k)' = ViewAt(k)
  BY <1>2, PushFacts DEF undoLog
<1>7. ChainInv'
  <2>1. \A i \in 1..stateVersion : RevertInPlace(ViewAt(i), undoOperations[i])' = history'[i]
    <3>1. /\ ChainInv /\ UNCHANGED nodes /\ stateVersion =< stateVersion
          /\ \A i \in 1..stateVersion : undoOperations'[i] = undoOperations[i]
      BY <1>2, <1>6 DEF RollbackInv
    <3> QED BY <1>6, <3>1, ChainKept
  <2> QED BY <1>6, <2>1 DEF ChainInv
<1>8. ASSUME NEW i \in 1..stateVersion, undoOperations[i].op = "add", undoOperations[i].pod = p
      PROVE  undoOperations[i].node = n
  <2>1. specNode[p] = undoOperations[i].node
    BY <1>8 DEF RollbackInv, NamesInv
  <2>2. CASE NodeNameFilter
    <3>1. specNode[p] \in {n, NoNode}
      BY <2>2 DEF Feasible
    <3> QED BY <1>3, <2>1, <3>1, ConstantsAssumption
  <2>3. CASE ~ReusesPreemptedPods
    BY <1>2, <1>4, <1>8, <2>3 DEF RollbackInv, NamesInv
  <2> QED BY <2>2, <2>3 DEF NamesProtected
<1>9. NamesInv'
  <2>1. \A i \in 1..stateVersion :
          undoOperations[i].op = "add" => specNode[undoOperations[i].pod] = undoOperations[i].node
    BY DEF RollbackInv, NamesInv
  <2>2. ~ReusesPreemptedPods => \A i \in 1..stateVersion, j \in 1..Len(call.todo) :
          undoOperations[i].op = "add" => undoOperations[i].pod # call.todo[j]
    BY <1>2 DEF RollbackInv, NamesInv
  <2> QED BY <1>2, <1>5, <1>6, <1>8, <2>1, <2>2 DEF NamesInv
<1>10. OwedInv'
  BY <1>2, <1>5, <1>6, OwedKept DEF RollbackInv
<1>11. RemovePod(nodePods, Head(call.todo), call.host)' = history'[stateVersion' + 1]
  <2>1. RemovePod(AddPod(nodePods, p, n), p, n) = nodePods
    BY <1>3, <1>4, RemoveUndoesAdd
  <2> QED BY <1>1, <1>2, <1>5, <1>6, <2>1 DEF RemovePod, CanRemove
<1> QED BY <1>7, <1>9, <1>10, <1>11 DEF RollbackInv

LEMMA Rollback_reserve ==
  ASSUME StructInv, StructInv', RollbackInv, reserve
  PROVE  RollbackInv'
<1> DEFINE p == Head(call.todo)
           e == Operation("forget", p, call.host)
<1>1. /\ pc = "reserve" /\ pc' = "schedule" /\ call.todo # <<>>
      /\ specNode' = [specNode EXCEPT ![p] = call.host]
      /\ registerOperation(e) /\ Record("Success", call.host)
      /\ UNCHANGED <<nodes, nodePods, transaction, history, observed, points>>
  BY DEF reserve, Scheduling
<1>2. /\ call.todo \in Seq(Pods) /\ nodes \subseteq Nodes /\ call.host \in nodes
      /\ specNode \in [Pods -> Nodes \cup {NoNode}] /\ stateVersion \in Nat
      /\ Len(history) = stateVersion + 1
      /\ undoOperations \in Seq(UndoOperation) /\ stateVersion = Len(undoOperations)
  BY <1>1 DEF StructInv, TypeOK, ControlInv, LogInv, Call
<1>3. p \in Pods
  BY <1>1, <1>2, HeadTailProperties
<1>4. /\ e \in UndoOperation /\ e.node = call.host /\ e.op = "forget" /\ e.pod = p
  BY <1>2, <1>3 DEF Operation, UndoOperation
<1> HIDE DEF e
<1>5. /\ call'.fn = call.fn /\ call'.base = call.base
      /\ \A j \in 1..Len(call'.todo) : \E k \in 1..Len(call.todo) : call'.todo[j] = call.todo[k]
  BY <1>1, <1>2, RecordFacts, RecordTodo
<1>6. /\ stateVersion' = stateVersion + 1
      /\ \A i \in 1..stateVersion : undoOperations'[i] = undoOperations[i]
      /\ undoOperations'[stateVersion + 1] = e
  BY <1>1, <1>2, <1>4, RegisterFacts
<1>7. \A k : ViewAt(k)' = ViewAt(k)
  BY <1>1 DEF ViewAt
<1>8. ChainInv'
  <2>1. \A i \in 1..stateVersion : RevertInPlace(ViewAt(i), undoOperations[i])' = history'[i]
    BY <1>1, <1>2, <1>6, <1>7, ChainKept DEF RollbackInv
  <2>2. SUFFICES ASSUME NEW i \in 1..stateVersion'
                 PROVE  RevertInPlace(ViewAt(i), undoOperations[i])' = history'[i]
    BY DEF ChainInv
  <2>3. CASE i \in 1..stateVersion
    BY <2>1, <2>3
  <2>4. CASE i = stateVersion + 1
    <3>1. ViewAt(i)' = nodePods /\ undoOperations'[i] = e
      BY <1>1, <1>2, <1>6, <2>4 DEF ViewAt
    <3>2. RemovePod(nodePods, p, call.host) = history[i]
      BY <1>1, <2>4 DEF RollbackInv
    <3> QED BY <1>1, <1>4, <3>1, <3>2 DEF RevertInPlace, RemovePod, CanRemove
  <2> QED BY <1>2, <1>6, <2>3, <2>4
<1>9. NamesInv'
  <2>1. ASSUME NEW i \in 1..stateVersion', undoOperations'[i].op = "add"
        PROVE  /\ i \in 1..stateVersion /\ undoOperations'[i] = undoOperations[i]
    BY <1>2, <1>4, <1>6, <2>1
  <2>2. ASSUME NEW i \in 1..stateVersion, undoOperations[i].op = "add"
        PROVE  specNode'[undoOperations[i].pod] = undoOperations[i].node
    <3>1. /\ specNode[undoOperations[i].pod] = undoOperations[i].node
          /\ undoOperations[i].pod = p => undoOperations[i].node = call.host
      BY <1>1, <2>2 DEF RollbackInv, NamesInv
    <3>2. undoOperations[i].pod \in Pods
      <4>1. undoOperations[i] \in UndoOperation
        BY <1>2
      <4> QED BY <4>1 DEF UndoOperation
    <3> HIDE DEF p
    <3> QED BY <1>1, <1>2, <1>3, <3>1, <3>2
  <2>3. ASSUME ~ReusesPreemptedPods, NEW i \in 1..stateVersion, NEW j \in 1..Len(call'.todo),
               undoOperations[i].op = "add"
        PROVE  undoOperations[i].pod # call'.todo[j]
    BY <1>1, <1>5, <2>3 DEF RollbackInv, NamesInv
  <2> QED BY <1>1, <2>1, <2>2, <2>3 DEF NamesInv
<1>10. OwedInv'
  BY <1>1, <1>5, <1>7, OwedKept DEF RollbackInv
<1> QED BY <1>1, <1>8, <1>9, <1>10 DEF RollbackInv

LEMMA Rollback_unreserveAndForget ==
  ASSUME StructInv, StructInv', RollbackInv, unreserveAndForget
  PROVE  RollbackInv'
<1>1. /\ pc = "reserve" /\ pc' = "schedule" /\ call.todo # <<>>
      /\ nodePods' = RemovePod(nodePods, Head(call.todo), call.host)
      /\ history' = Front(history)
      /\ Record("Unschedulable", NoNode) \/ Record("Error", NoNode)
      /\ UNCHANGED <<nodes, specNode, undoLog, transaction, observed, points>>
  BY DEF unreserveAndForget, Scheduling
<1>2. /\ stateVersion \in Nat /\ Len(history) = stateVersion + 1 /\ history \in Seq(View)
      /\ stateVersion' = stateVersion /\ undoOperations' = undoOperations
  BY <1>1 DEF StructInv, TypeOK, LogInv, undoLog
<1>3. /\ Len(history') = stateVersion
      /\ \A i \in 1..stateVersion : history'[i] = history[i]
  <2>1. history # <<>>
    BY <1>2
  <2>2. /\ Len(history') = Len(history) - 1
        /\ \A i \in 1..(Len(history) - 1) : history'[i] = history[i]
    BY <1>1, <1>2, <2>1, FrontFacts
  <2> QED BY <1>2, <2>2
<1>4. nodePods' = history[stateVersion + 1]
  BY <1>1 DEF RollbackInv
<1>5. ASSUME NEW k \in 0..stateVersion PROVE ViewAt(k)' = ViewAt(k)
  <2>1. k # Len(history) /\ ViewAt(k) = history[k + 1]
    BY <1>2 DEF ViewAt
  <2>2. CASE k = stateVersion
    BY <1>3, <1>4, <2>1, <2>2 DEF ViewAt
  <2>3. CASE k # stateVersion
    <3>1. k + 1 \in 1..stateVersion
      BY <1>2, <2>3
    <3> QED BY <1>3, <2>1, <2>3, <3>1 DEF ViewAt
  <2> QED BY <2>2, <2>3
<1>6. ChainInv'
  <2>1. \A i \in 1..stateVersion : RevertInPlace(ViewAt(i), undoOperations[i])' = history'[i]
    BY <1>1, <1>2, <1>3, <1>5, ChainKept DEF RollbackInv
  <2> QED BY <1>2, <2>1 DEF ChainInv
<1>7. /\ call'.fn = call.fn /\ call'.base = call.base
      /\ \A j \in 1..Len(call'.todo) : \E k \in 1..Len(call.todo) : call'.todo[j] = call.todo[k]
  BY <1>1, RecordFacts, RecordTodo
<1>8. NamesInv'
  <2>1. ASSUME ~ReusesPreemptedPods, NEW i \in 1..stateVersion, NEW j \in 1..Len(call'.todo),
               undoOperations[i].op = "add"
        PROVE  undoOperations[i].pod # call'.todo[j]
    BY <1>1, <1>7, <2>1 DEF RollbackInv, NamesInv
  <2>2. \A i \in 1..stateVersion :
          undoOperations[i].op = "add" => specNode[undoOperations[i].pod] = undoOperations[i].node
    BY DEF RollbackInv, NamesInv
  <2> QED BY <1>1, <1>2, <2>1, <2>2 DEF NamesInv
<1>9. OwedInv'
  BY <1>1, <1>2, <1>5, <1>7, OwedKept DEF RollbackInv
<1> QED BY <1>1, <1>6, <1>8, <1>9 DEF RollbackInv

\* Every step keeps the rollback structure.
LEMMA RollbackNext ==
  ASSUME NamesProtected, StructInv, StructInv', RollbackInv, [Next]_vars
  PROVE  RollbackInv'
<1>1. CASE UNCHANGED vars
  BY <1>1 DEF vars, undoLog, transaction, RollbackInv, ChainInv, NamesInv, OwedInv, ViewAt,
     RevertInPlace, AddPod, RemovePod, CanRemove
<1>2. CASE Client
  BY <1>2, Rollback_SchedulePods, Rollback_OtherCalls, Rollback_TransactionBegin,
     Rollback_TransactionKeep DEF Client
<1>3. CASE Step
  BY <1>3, Rollback_scheduleNoProfile, Rollback_scheduleFails, Rollback_assume,
     Rollback_reserve, Rollback_unreserveAndForget, Rollback_scheduleDone, Rollback_Returns,
     Rollback_removePodFromNode, Rollback_addPodToNode, Rollback_undo DEF Step
<1> QED BY <1>1, <1>2, <1>3 DEF Next

\* The inductive invariant holds in every reachable state, whatever the nodes,
\* pods, capacities, profiles and bounds: each entry of the undo log takes the
\* snapshot from the view after its mutation to the view before it, and the views
\* the callers are owed are those at the state versions they recorded.
THEOREM InductiveInvHolds ==
  ASSUME NamesProtected
  PROVE  Spec => []InductiveInv
<1>1. Init => StructInv /\ RollbackInv
  BY StructInit, RollbackInit
<1>2. (StructInv /\ RollbackInv) /\ [Next]_vars => (StructInv /\ RollbackInv)'
  BY StructNext, RollbackNext
<1>3. StructInv /\ RollbackInv => InductiveInv
  BY DEF StructInv, InductiveInv
<1> QED BY <1>1, <1>2, <1>3, PTL DEF Spec

\* When a restore has come down to the state version its caller recorded, the
\* views at the two ends of the chain are the same.
LEMMA RestoredView ==
  ASSUME StructInv, RollbackInv, pc = "restore", stateVersion = call.base
  PROVE  nodePods = Promised
<1>1. /\ Len(history) = stateVersion /\ call.base \in Nat
      /\ call.fn \in {"SchedulePods", "PreemptPods", "Transaction", "ResetMutations"}
  BY DEF StructInv, TypeOK, ControlInv, LogInv, Call
<1>2. ViewAt(call.base) = nodePods
  BY <1>1 DEF ViewAt
<1>3. CASE call.fn = "Transaction"
  <2>1. transactionInProgress /\ call.base = tx.initialStateVersion
    BY <1>3 DEF StructInv, ControlInv
  <2>2. points[2] = nodePods
    BY <1>2, <2>1 DEF RollbackInv, OwedInv
  <2> QED BY <1>3, <2>2 DEF Promised
<1>4. CASE call.fn = "ResetMutations"
  <2>1. call.base = 0
    BY <1>4 DEF StructInv, ControlInv
  <2>2. points[1] = nodePods
    BY <1>2, <2>1 DEF RollbackInv, OwedInv
  <2> QED BY <1>4, <2>2 DEF Promised
<1>5. CASE call.fn \in {"SchedulePods", "PreemptPods"}
  <2>1. observed = nodePods
    BY <1>2, <1>5 DEF RollbackInv, OwedInv
  <2> QED BY <1>5, <2>1 DEF Promised
<1> QED BY <1>1, <1>3, <1>4, <1>5

\* Every rollback is exact: dry runs, failed calls, reverted transactions and
\* ResetMutations bring back the pods on each node that were there when their
\* state version was recorded, whatever happened since.
THEOREM RollbackIsExact ==
  ASSUME NamesProtected
  PROVE  Spec => []RollbackExact
<1>1. Init => StructInv /\ RollbackInv
  BY StructInit, RollbackInit
<1>2. (StructInv /\ RollbackInv) /\ [Next]_vars => (StructInv /\ RollbackInv)'
  BY StructNext, RollbackNext
<1>3. StructInv /\ RollbackInv => RollbackExact
  BY RestoredView DEF RollbackExact
<1> QED BY <1>1, <1>2, <1>3, PTL DEF Spec

--------------------------------------------------------------------------------
(* Calls that leave no trace                                               *)

\* Only SchedulePods runs dry, and each control point knows its call.
DryRunInv ==
  /\ call.dryRun => call.fn = "SchedulePods"
  /\ pc = "canSchedule" => call.fn = "CanSchedulePod"
  /\ pc = "unpreempt" => call.fn = "Unpreempt"

\* Dry runs do not change kind while they run.
LEMMA DryRunNext ==
  ASSUME StructInv, DryRunInv, [Next]_vars
  PROVE  DryRunInv'
<1>1. call \in Call
  BY DEF StructInv, TypeOK
<1>2. CASE UNCHANGED <<pc, call>>
  BY <1>2 DEF DryRunInv
<1>3. ASSUME NEW r, Return(r) PROVE DryRunInv'
  BY <1>3 DEF Return, NoCall, DryRunInv
<1>4. ASSUME NEW r, ReturnAtOnce(r) PROVE DryRunInv'
  BY <1>2, <1>4 DEF ReturnAtOnce
<1>5. ASSUME NEW st, NEW n, Record(st, n)
      PROVE  call'.fn = call.fn /\ call'.dryRun = call.dryRun
  BY <1>1, <1>5 DEF Record, Call
<1>6. CASE call' = [call EXCEPT !.failed = TRUE] /\ pc' = "restore"
  BY <1>1, <1>6 DEF DryRunInv, Call
<1>7. CASE \E st, n : Record(st, n) /\ pc' = "schedule"
  BY <1>5, <1>7 DEF DryRunInv
<1>8. CASE SchedulePods \/ SchedulePodsByTemplate
  <2>1. \/ ReturnAtOnce("ok") \/ ReturnAtOnce("error")
        \/ \E b, d, s : /\ call' = [NoCall EXCEPT !.fn = "SchedulePods",
                             !.base = stateVersion, !.todo = b, !.dryRun = d,
                             !.stopOnFailure = s]
                        /\ pc' = "schedule"
    BY <1>8 DEF SchedulePods, SchedulePodsByTemplate, schedulePods, Enter
  <2> QED BY <1>4, <2>1 DEF NoCall, DryRunInv
<1>9. CASE CanSchedulePod
  BY <1>4, <1>9 DEF CanSchedulePod, Enter, NoCall, DryRunInv
<1>10. CASE PreemptPods
  BY <1>4, <1>10 DEF PreemptPods, Enter, NoCall, DryRunInv
<1>11. CASE Unpreempt
  BY <1>4, <1>11 DEF Unpreempt, Enter, NoCall, DryRunInv
<1>12. CASE TransactionRevert \/ ResetMutations
  BY <1>4, <1>12 DEF TransactionRevert, ResetMutations, Enter, NoCall, DryRunInv
<1>13. CASE TransactionBegin \/ TransactionKeep
  BY <1>2, <1>4, <1>13 DEF TransactionBegin, TransactionKeep
<1>14. CASE scheduleNoProfile
  BY <1>6, <1>14 DEF scheduleNoProfile
<1>15. CASE scheduleFails \/ reserve \/ unreserveAndForget
  BY <1>7, <1>15 DEF scheduleFails, reserve, unreserveAndForget, Scheduling
<1>16. CASE assume
  <2>1. PICK n : call' = [call EXCEPT !.host = n] /\ pc' = "reserve"
    BY <1>16 DEF assume
  <2> QED BY <1>1, <2>1 DEF DryRunInv, Call
<1>17. CASE scheduleDone
  BY <1>3, <1>17 DEF scheduleDone, DryRunInv
<1>18. CASE removePodFromNode
  <2>1. CASE pc' = "restore"
    BY <1>6, <1>18, <2>1 DEF removePodFromNode
  <2>2. CASE pc' # "restore"
    <3>1. /\ pc = "preempt" /\ pc' = "preempt"
          /\ call' = [call EXCEPT !.todo = Tail(@), !.done = Append(@, Head(call.todo))]
      BY <1>18, <2>2 DEF removePodFromNode
    <3> QED BY <1>1, <3>1 DEF DryRunInv, Call
  <2> QED BY <2>1, <2>2
<1>19. CASE addPodToNode
  <2>1. /\ pc' = pc /\ call'.fn = call.fn /\ call'.dryRun = call.dryRun
    BY <1>1, <1>19 DEF addPodToNode, Call
  <2> QED BY <2>1 DEF DryRunInv
<1>20. CASE undo
  BY <1>2, <1>20 DEF undo
<1>21. CASE \/ canScheduleDone \/ preemptDone \/ unpreemptDone
            \/ restoreCall \/ restoreTransaction \/ restoreReset
  BY <1>3, <1>21 DEF canScheduleDone, preemptDone, unpreemptDone, restoreCall,
     restoreTransaction, restoreReset
<1>22. CASE UNCHANGED vars
  BY <1>2, <1>22 DEF vars
<1> QED BY <1>8, <1>9, <1>10, <1>11, <1>12, <1>13, <1>14, <1>15, <1>16, <1>17, <1>18,
           <1>19, <1>20, <1>21, <1>22 DEF Next, Client, Step

\* The step of InvisibleCalls.
CallEndsInvisibly ==
  /\ pc # "idle" /\ pc' = "idle"
  /\ call.dryRun \/ (reply' = "error" /\ call.fn \in {"SchedulePods", "PreemptPods"})
  => observed' = observed

\* A call that ends invisibly ends in what the client saw last.
LEMMA InvisibleNext ==
  ASSUME StructInv, RollbackInv, DryRunInv, [Next]_vars
  PROVE  [CallEndsInvisibly]_vars
<1> SUFFICES ASSUME Next, pc # "idle", pc' = "idle",
                    call.dryRun \/ (reply' = "error" /\ call.fn \in {"SchedulePods", "PreemptPods"})
             PROVE  observed' = observed
  BY DEF CallEndsInvisibly
<1>1. CASE Client
  BY <1>1 DEF Client, SchedulePods, SchedulePodsByTemplate, schedulePods, CanSchedulePod,
     PreemptPods, Unpreempt, TransactionBegin, TransactionKeep, TransactionRevert,
     ResetMutations, ReturnAtOnce, Enter, Idle
<1>2. CASE restoreCall
  <2>1. /\ pc = "restore" /\ stateVersion = call.base /\ observed' = nodePods
        /\ call.fn \in {"SchedulePods", "PreemptPods"}
    BY <1>2 DEF restoreCall, Restored, Return
  <2>2. nodePods = Promised
    BY <2>1, RestoredView
  <2> QED BY <2>1, <2>2 DEF Promised
<1>3. CASE restoreTransaction \/ restoreReset
  <2>1. call.fn \in {"Transaction", "ResetMutations"}
    BY <1>3 DEF restoreTransaction, restoreReset, Restored
  <2> QED BY <2>1 DEF DryRunInv
<1>4. CASE scheduleDone
  BY <1>4 DEF scheduleDone, Return
<1>5. CASE canScheduleDone \/ preemptDone \/ unpreemptDone
  <2>1. \/ call.fn = "CanSchedulePod" \/ call.fn = "Unpreempt"
        \/ call.fn = "PreemptPods" /\ reply' = "ok"
    BY <1>5 DEF canScheduleDone, preemptDone, unpreemptDone, Return, DryRunInv, StructInv,
       ControlInv
  <2> QED BY <2>1 DEF DryRunInv
<1>6. CASE \/ scheduleNoProfile \/ scheduleFails \/ assume \/ reserve \/ unreserveAndForget
           \/ removePodFromNode \/ addPodToNode \/ undo
  BY <1>6 DEF scheduleNoProfile, scheduleFails, assume, reserve, unreserveAndForget,
     removePodFromNode, addPodToNode, undo, Scheduling
<1> QED BY <1>1, <1>2, <1>3, <1>4, <1>5, <1>6 DEF Next, Step

\* A dry run, and a SchedulePods or PreemptPods call that fails, leave the
\* snapshot as the client last saw it, on every path out of the call.
THEOREM CallsInvisible ==
  ASSUME NamesProtected
  PROVE  Spec => InvisibleCalls
<1> DEFINE Inv == StructInv /\ RollbackInv /\ DryRunInv
<1>1. Init => Inv
  <2>1. Init => DryRunInv
    BY DEF Init, NoCall, DryRunInv
  <2> QED BY <2>1, StructInit, RollbackInit
<1>2. Inv /\ [Next]_vars => Inv'
  BY StructNext, RollbackNext, DryRunNext
<1>3. Inv /\ [Next]_vars => [CallEndsInvisibly]_vars
  BY InvisibleNext
<1> HIDE DEF Inv
<1>4. Spec => [][CallEndsInvisibly]_vars
  BY <1>1, <1>2, <1>3, PTL DEF Spec
<1> QED BY <1>4 DEF InvisibleCalls, CallEndsInvisibly
================================================================================
