-------------------------- MODULE SchedulingSimulator --------------------------
(***************************************************************************)
(* pkg/simulator: goroutines that create SchedulingSimulators on one       *)
(* informer factory, and cluster states and snapshots from them.  What     *)
(* they share is the factory, whose informers run in the context of        *)
(* whoever started them, and the process's metrics.                        *)
(***************************************************************************)
EXTENDS Naturals, FiniteSets

CONSTANTS
  Constructors,     \* calls of NewSchedulingSimulator
  Creators,         \* calls of NewClusterState and NewClusterSnapshot
  BaseInformers,    \* nodes and pods
  PluginInformers,  \* the informers the profiles' plugins ask for
  None,             \* nobody
  Cancellable       \* calls whose context may end

Calls == Constructors \cup Creators
Informers == BaseInformers \cup PluginInformers

ASSUME SimulatorAssumption ==
  /\ Constructors \cap Creators = {} /\ None \notin Calls
  /\ Cancellable \subseteq Calls

VARIABLES
  pc,          \* per call: its control point; "ok" and "error" when it has returned
  once,        \* InitMetricsOnce: "no", "running", "done"
  inits,       \* how often InitMetrics ran
  registered,  \* informers the factory knows
  startedBy,   \* per informer: the call in whose context it was started, or None
  waitFor,     \* per call: informers it waits for
  synced,      \* informers that have read the cluster
  ctxDone      \* calls whose context has ended

factory == <<registered, startedBy>>
vars == <<pc, once, inits, factory, waitFor, synced, ctxDone>>

Goto(c, label) == pc' = [pc EXCEPT ![c] = label]

\* An informer stops with the context it was started in.
Live(i) == startedBy[i] # None /\ startedBy[i] \notin ctxDone

\* What a call's result reads from.
Needs(c) == IF c \in Constructors THEN BaseInformers ELSE Informers

Init ==
  /\ pc = [c \in Calls |-> "call"]
  /\ once = "no"
  /\ inits = 0
  /\ registered = {}
  /\ startedBy = [i \in Informers |-> None]
  /\ waitFor = [c \in Calls |-> {}]
  /\ synced = {}
  /\ ctxDone = {}

\* NewSchedulingSimulator refuses a nil client; the others need a simulator.
begin(c) ==
  /\ pc[c] = "call"
  /\ \/ Goto(c, "metrics")
     \/ c \in Constructors /\ Goto(c, "error")
  /\ c \in Creators => \E s \in Constructors : pc[s] = "ok"
  /\ UNCHANGED <<once, inits, factory, waitFor, synced, ctxDone>>

\* Mutant: a plain check instead of sync.OnceFunc.
InitMetricsOnceChecked(c) ==
  /\ \/ /\ pc[c] = "metrics" /\ once # "done"
        /\ Goto(c, "initMetrics") /\ UNCHANGED <<once, inits>>
     \/ /\ pc[c] = "initMetrics"
        /\ once' = "done" /\ inits' = inits + 1
        /\ Goto(c, "register")
     \/ /\ pc[c] = "metrics" /\ once = "done"
        /\ Goto(c, "register") /\ UNCHANGED <<once, inits>>
  /\ UNCHANGED <<factory, waitFor, synced, ctxDone>>

\* sync.OnceFunc: the first call runs the function, the others wait for it.
InitMetricsOnce(c) ==
  /\ \/ /\ pc[c] = "metrics" /\ once = "no"
        /\ once' = "running"
        /\ Goto(c, "initMetrics") /\ UNCHANGED inits
     \/ /\ pc[c] = "initMetrics"
        /\ once' = "done" /\ inits' = inits + 1
        /\ Goto(c, "register")
     \/ /\ pc[c] = "metrics" /\ once = "done"
        /\ Goto(c, "register") /\ UNCHANGED <<once, inits>>
  /\ UNCHANGED <<factory, waitFor, synced, ctxDone>>

\* A simulator asks for the nodes' and pods' informers, ...
register(c) ==
  /\ pc[c] = "register" /\ c \in Constructors
  /\ registered' = registered \cup BaseInformers
  /\ Goto(c, "start")
  /\ UNCHANGED <<once, inits, startedBy, waitFor, synced, ctxDone>>

\* ... and the plugins of a new map of profiles for theirs.  Building the map may fail
\* for a wrong configuration, and then some informers have been asked for.
NewProfileMap(c) ==
  /\ pc[c] = "register" /\ c \in Creators
  /\ \/ registered' = registered \cup Informers /\ Goto(c, "start")
     \/ /\ \E S \in SUBSET PluginInformers : registered' = registered \cup S
        /\ Goto(c, "error")
  /\ UNCHANGED <<once, inits, startedBy, waitFor, synced, ctxDone>>

\* Mutant: the plugins' informers are left for somebody else to start.
startNot(c) ==
  /\ pc[c] = "start"
  /\ startedBy' = [i \in Informers |->
       IF i \in registered \cap BaseInformers /\ startedBy[i] = None THEN c ELSE startedBy[i]]
  /\ Goto(c, "wait")
  /\ UNCHANGED <<once, inits, registered, waitFor, synced, ctxDone>>

\* Mutant: informers are started that nobody has asked for.
startAll(c) ==
  /\ pc[c] = "start"
  /\ startedBy' = [i \in Informers |-> IF startedBy[i] = None THEN c ELSE startedBy[i]]
  /\ Goto(c, "wait")
  /\ UNCHANGED <<once, inits, registered, waitFor, synced, ctxDone>>

\* StartWithContext starts what the factory knows and has not started yet.
start(c) ==
  /\ pc[c] = "start"
  /\ startedBy' = [i \in Informers |-> IF i \in registered /\ startedBy[i] = None
                                       THEN c ELSE startedBy[i]]
  /\ Goto(c, "wait")
  /\ UNCHANGED <<once, inits, registered, waitFor, synced, ctxDone>>

\* Mutant: informers that nobody has started are waited for too.
waitRegistered(c) ==
  /\ pc[c] = "wait"
  /\ waitFor' = [waitFor EXCEPT ![c] = registered]
  /\ Goto(c, "waiting")
  /\ UNCHANGED <<once, inits, factory, synced, ctxDone>>

\* WaitForCacheSyncWithContext: the informers that are started now.
wait(c) ==
  /\ pc[c] = "wait"
  /\ waitFor' = [waitFor EXCEPT ![c] = {i \in registered : startedBy[i] # None}]
  /\ Goto(c, "waiting")
  /\ UNCHANGED <<once, inits, factory, synced, ctxDone>>

\* It returns when they are synced, or with an error when its context ends.
return(c) ==
  /\ pc[c] = "waiting"
  /\ \/ waitFor[c] \subseteq synced /\ Goto(c, "ok")
     \/ c \in ctxDone /\ Goto(c, "error")
  /\ UNCHANGED <<once, inits, factory, waitFor, synced, ctxDone>>

--------------------------------------------------------------------------------
(* The informers and the callers' contexts                                 *)

sync(i) ==
  /\ Live(i) /\ i \notin synced
  /\ synced' = synced \cup {i}
  /\ UNCHANGED <<pc, once, inits, factory, waitFor, ctxDone>>

Cancel(c) ==
  /\ c \in Cancellable \ ctxDone
  /\ ctxDone' = ctxDone \cup {c}
  /\ UNCHANGED <<pc, once, inits, factory, waitFor, synced>>

Call(c) == begin(c) \/ InitMetricsOnce(c) \/ register(c) \/ NewProfileMap(c) \/ start(c)
           \/ wait(c) \/ return(c)

Next ==
  \/ \E c \in Calls : Call(c) \/ Cancel(c)
  \/ \E i \in Informers : sync(i)

\* Goroutines are scheduled and the API server answers a running informer; nobody
\* has to call or to cancel.
Spec ==
  /\ Init /\ [][Next]_vars
  /\ \A c \in Calls : WF_vars(Call(c) /\ pc[c] # "call")
  /\ \A i \in Informers : WF_vars(sync(i))

--------------------------------------------------------------------------------
(* Properties                                                              *)

\* Every variable keeps its type, and only known informers are started.
TypeOK ==
  /\ pc \in [Calls -> {"call", "metrics", "initMetrics", "register", "start", "wait",
                       "waiting", "ok", "error"}]
  /\ once \in {"no", "running", "done"}
  /\ registered \subseteq Informers
  /\ startedBy \in [Informers -> Calls \cup {None}]
  /\ \A i \in Informers : startedBy[i] # None => i \in registered
  /\ waitFor \in [Calls -> SUBSET Informers]
  /\ synced \subseteq Informers

\* Whoever started them, and whichever calls failed or were cancelled: what a call
\* returns is handed out only when every informer it reads from has been synced.
ReadyMeansSynced == \A c \in Calls : pc[c] = "ok" => Needs(c) \subseteq synced

\* The process's metrics are initialised once, and before anything is built.
MetricsFirst ==
  /\ inits =< 1
  /\ \A c \in Calls :
       pc[c] \in {"register", "start", "wait", "waiting", "ok"} => inits = 1

\* A call that has begun returns, also if its own context ends, as long as no other
\* one does: whatever other calls register, start or leave behind when they fail.
CallsReturn ==
  \A c \in Calls : pc[c] # "call" ~> pc[c] \in {"ok", "error"} \/ ctxDone \ {c} # {}

\* A simulator can be reused: what it hands out follows the cluster for as long as
\* the simulator's and its own context last.
StaysLive ==
  ctxDone \cap Constructors = {} =>
    \A c \in Creators : pc[c] = "ok" /\ c \notin ctxDone => \A i \in Needs(c) : Live(i)
================================================================================
