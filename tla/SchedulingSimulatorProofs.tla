----------------------- MODULE SchedulingSimulatorProofs -----------------------
(***************************************************************************)
(* Proofs about SchedulingSimulator, for every number of calls and         *)
(* informers and every set of contexts that may end.                       *)
(***************************************************************************)
EXTENDS SchedulingSimulator, TLAPS

\* Every variable keeps its type, and only informers that plugins or simulators have
\* asked for are started (StartWithContext).
THEOREM TypeCorrect == Spec => []TypeOK
<1>1. Init => TypeOK
  BY DEF Init, TypeOK
<1>2. TypeOK /\ [Next]_vars => TypeOK'
  <2> SUFFICES ASSUME TypeOK, [Next]_vars PROVE TypeOK'
    OBVIOUS
  <2> USE DEF TypeOK, Goto, factory
  <2>1. ASSUME NEW c \in Calls, begin(c) PROVE TypeOK'
    BY <2>1 DEF begin
  <2>2. ASSUME NEW c \in Calls, InitMetricsOnce(c) PROVE TypeOK'
    BY <2>2 DEF InitMetricsOnce
  <2>3. ASSUME NEW c \in Calls, register(c) PROVE TypeOK'
    BY <2>3 DEF register, Informers
  <2>4. ASSUME NEW c \in Calls, NewProfileMap(c) PROVE TypeOK'
    BY <2>4 DEF NewProfileMap, Informers
  <2>5. ASSUME NEW c \in Calls, start(c) PROVE TypeOK'
    BY <2>5 DEF start
  <2>6. ASSUME NEW c \in Calls, wait(c) PROVE TypeOK'
    BY <2>6 DEF wait
  <2>7. ASSUME NEW c \in Calls, return(c) PROVE TypeOK'
    BY <2>7 DEF return
  <2>8. ASSUME NEW c \in Calls, Cancel(c) PROVE TypeOK'
    BY <2>8 DEF Cancel
  <2>9. ASSUME NEW i \in Informers, sync(i) PROVE TypeOK'
    BY <2>9 DEF sync
  <2>10. CASE UNCHANGED vars
    BY <2>10 DEF vars
  <2> QED BY <2>1, <2>2, <2>3, <2>4, <2>5, <2>6, <2>7, <2>8, <2>9, <2>10 DEF Next, Call
<1> QED BY <1>1, <1>2, PTL DEF Spec

--------------------------------------------------------------------------------
(* Metrics                                                                 *)

\* What makes InitMetricsOnce run its function once: while one call runs it nobody
\* else does, it has run exactly when once is done, and nobody passes before that.
OnceInv ==
  /\ inits = IF once = "done" THEN 1 ELSE 0
  /\ \A c \in Calls : pc[c] = "initMetrics" => once = "running"
  /\ \A c, d \in Calls : pc[c] = "initMetrics" /\ pc[d] = "initMetrics" => c = d
  /\ \A c \in Calls :
       pc[c] \in {"register", "start", "wait", "waiting", "ok"} => once = "done"

\* The process's metrics are initialised once, and before anything is built,
\* however many calls arrive at InitMetricsOnce together.
THEOREM MetricsInitialisedFirst == Spec => []MetricsFirst
<1>1. Init => OnceInv
  BY DEF Init, OnceInv
<1>2. TypeOK /\ OnceInv /\ [Next]_vars => OnceInv'
  <2> SUFFICES ASSUME TypeOK, OnceInv, [Next]_vars PROVE OnceInv'
    OBVIOUS
  <2> USE DEF TypeOK, OnceInv, Goto
  <2>1. ASSUME NEW c \in Calls, begin(c) PROVE OnceInv'
    BY <2>1 DEF begin
  <2>2. ASSUME NEW c \in Calls, InitMetricsOnce(c) PROVE OnceInv'
    BY <2>2 DEF InitMetricsOnce
  <2>3. ASSUME NEW c \in Calls, register(c) \/ NewProfileMap(c) PROVE OnceInv'
    BY <2>3 DEF register, NewProfileMap
  <2>4. ASSUME NEW c \in Calls, start(c) \/ wait(c) \/ return(c) PROVE OnceInv'
    BY <2>4 DEF start, wait, return
  <2>5. ASSUME NEW c \in Calls, Cancel(c) PROVE OnceInv'
    BY <2>5 DEF Cancel
  <2>6. ASSUME NEW i \in Informers, sync(i) PROVE OnceInv'
    BY <2>6 DEF sync
  <2>7. CASE UNCHANGED vars
    BY <2>7 DEF vars
  <2> QED BY <2>1, <2>2, <2>3, <2>4, <2>5, <2>6, <2>7 DEF Next, Call
<1>3. OnceInv => MetricsFirst
  BY DEF OnceInv, MetricsFirst
<1> QED BY <1>1, <1>2, <1>3, TypeCorrect, PTL DEF Spec

--------------------------------------------------------------------------------
(* Readiness                                                               *)

\* From asking for informers to returning: a call that starts the factory has
\* registered what it reads from; once it has, all of that is started by somebody,
\* and it waits for all of it.
ReadyInv ==
  \A c \in Calls :
    /\ pc[c] \in {"start", "wait", "waiting", "ok"} => Needs(c) \subseteq registered
    /\ pc[c] \in {"wait", "waiting", "ok"} => \A i \in Needs(c) : startedBy[i] # None
    /\ pc[c] = "waiting" => Needs(c) \subseteq waitFor[c]
    /\ pc[c] = "ok" => Needs(c) \subseteq synced

\* What NewSchedulingSimulator, NewClusterState and NewClusterSnapshot return is handed
\* out only when every informer it reads from has read the cluster, whoever started it
\* and whichever calls failed or were cancelled.
THEOREM ReadyIsSynced == Spec => []ReadyMeansSynced
<1> USE DEF Needs
<1>1. Init => ReadyInv
  BY DEF Init, ReadyInv
<1>2. TypeOK /\ ReadyInv /\ [Next]_vars => ReadyInv'
  <2> SUFFICES ASSUME TypeOK, ReadyInv, [Next]_vars PROVE ReadyInv'
    OBVIOUS
  <2> USE DEF TypeOK, ReadyInv, Goto, factory
  <2>0. BaseInformers \subseteq Informers
    BY DEF Informers
  <2>1. ASSUME NEW c \in Calls, begin(c) PROVE ReadyInv'
    BY <2>1 DEF begin
  <2>2. ASSUME NEW c \in Calls, InitMetricsOnce(c) PROVE ReadyInv'
    BY <2>2 DEF InitMetricsOnce
  <2>3. ASSUME NEW c \in Calls, register(c) PROVE ReadyInv'
    BY <2>3 DEF register
  <2>4. ASSUME NEW c \in Calls, NewProfileMap(c) PROVE ReadyInv'
    BY <2>4, <2>0, SimulatorAssumption DEF NewProfileMap
  <2>5. ASSUME NEW c \in Calls, start(c) PROVE ReadyInv'
    BY <2>5, <2>0, SimulatorAssumption DEF start
  <2>6. ASSUME NEW c \in Calls, wait(c) PROVE ReadyInv'
    BY <2>6, <2>0 DEF wait
  <2>7. ASSUME NEW c \in Calls, return(c) PROVE ReadyInv'
    BY <2>7 DEF return
  <2>8. ASSUME NEW c \in Calls, Cancel(c) PROVE ReadyInv'
    BY <2>8 DEF Cancel
  <2>9. ASSUME NEW i \in Informers, sync(i) PROVE ReadyInv'
    BY <2>9 DEF sync
  <2>10. CASE UNCHANGED vars
    BY <2>10 DEF vars
  <2> QED BY <2>1, <2>2, <2>3, <2>4, <2>5, <2>6, <2>7, <2>8, <2>9, <2>10 DEF Next, Call
<1>3. ReadyInv => ReadyMeansSynced
  BY DEF ReadyInv, ReadyMeansSynced
<1> QED BY <1>1, <1>2, <1>3, TypeCorrect, PTL DEF Spec
================================================================================
