---------------------------- MODULE PrioritizeProofs ----------------------------
(***************************************************************************)
(* Proofs about Prioritize, for every set of nodes and extenders and all   *)
(* scores and weights.                                                     *)
(***************************************************************************)
EXTENDS Prioritize, SetSums

Labels == {"idle", "prioritize", "lock", "read", "add", "wgDone", "exited"}

Running == {e \in Extenders : epc[e] \notin {"idle", "exited"}}

\* The goroutines: they run only while the caller waits for them, the WaitGroup
\* counts them, and the mutex belongs to the one that is at the map.
GoroutinesInv ==
  /\ epc \in [Extenders -> Labels]
  /\ loop \subseteq extenders
  /\ \A e \in Extenders : epc[e] # "idle" => e \in extenders \ loop
  /\ pc = "score" => loop = extenders
  /\ pc # "spawn" => Running = {}
  /\ wg = Cardinality(Running)
  /\ \A e \in Extenders : epc[e] \in {"read", "add"} <=> mu = e

\* Extenders whose score of a node is in the map.
Added(n) ==
  {e \in answered : n \notin list[e] /\ ~(epc[e] = "add" /\ read[e][1] = n)}

ScoreOf(n) == [e \in Extenders |-> finalscore(e, n)]

\* The map: an entry is the sum of what has been added to it, the holder of the mutex
\* knows the entry it works on, and who has left the map has added everything.
MapInv ==
  /\ list \in [Extenders -> SUBSET Nodes]
  /\ read \in [Extenders -> (Nodes \cup {None}) \X Nat]
  /\ answered \subseteq extenders
  /\ \A e \in answered :
       /\ epc[e] \in {"lock", "read", "add", "wgDone", "exited"}
       /\ epc[e] = "lock" => list[e] = Nodes
       /\ epc[e] = "add" => /\ read[e][1] \in Nodes
                            /\ read[e][1] \notin list[e]
                            /\ read[e][2] = Entry(read[e][1])
       /\ epc[e] \in {"wgDone", "exited"} => list[e] = {}
  /\ \A e \in Extenders : epc[e] \in {"lock", "read", "add"} => e \in answered
  /\ \A n \in Nodes : Entry(n) = SumFunctionOnSet(ScoreOf(n), Added(n))

\* The caller: what it has of the result before the extenders' part is added.
CallerInv ==
  /\ pc = "score" => \A n \in Nodes : nodesScores[n] = 0
  /\ pc \in {"spawn", "total"} =>
       /\ extenders # {} \/ hasScorePlugins
       /\ \A n \in Nodes : nodesScores[n] = IF hasScorePlugins THEN PluginScore[n] ELSE 0
  /\ pc = "select" => \A n \in Nodes : nodesScores[n] = FullScore(n)

PrioritizeInv == TypeOK /\ GoroutinesInv /\ MapInv /\ CallerInv

\* Scores are natural numbers.
LEMMA ScoreNat ==
  ASSUME NEW n \in Nodes, NEW e \in Extenders
  PROVE  finalscore(e, n) \in Nat /\ ScoreOf(n)[e] = finalscore(e, n)
<1>1. ExtenderScore[e][n] \in Nat /\ Weight[e] \in Nat /\ Scale \in Nat
  BY PrioritizeAssumption
<1>2. \A a, b, c \in Nat : a * b * c \in Nat
  OBVIOUS
<1> QED BY <1>1, <1>2 DEF finalscore, ScoreOf

\* It holds when prioritizeNodes is called.
LEMMA InvInit == Init => PrioritizeInv
<1> SUFFICES ASSUME Init PROVE PrioritizeInv
  OBVIOUS
<1>1. Running = {} /\ Cardinality(Running) = 0
  BY FS_EmptySet DEF Init, Running
<1>2. TypeOK
  BY <1>1 DEF Init, TypeOK, Running
<1>3. GoroutinesInv
  BY <1>1, PrioritizeAssumption DEF Init, GoroutinesInv, Labels
<1>4. MapInv
  <2>1. ASSUME NEW n \in Nodes PROVE Entry(n) = SumFunctionOnSet(ScoreOf(n), Added(n))
    <3>1. Added(n) = {} /\ Entry(n) = 0
      BY DEF Init, Added, Entry
    <3> QED BY <3>1, SumStep, FS_EmptySet
  <2> QED BY <2>1 DEF Init, MapInv
<1>5. CallerInv
  BY DEF Init, CallerInv
<1> QED BY <1>2, <1>3, <1>4, <1>5 DEF PrioritizeInv

\* The goroutines that run are finitely many.
LEMMA RunningFinite == IsFiniteSet(Running) /\ Cardinality(Running) \in Nat
<1>1. Running \subseteq Extenders
  BY DEF Running
<1> QED BY <1>1, PrioritizeAssumption, FS_Subset, FS_CardinalityType

\* A step that leaves the map alone and does not begin or end an addition keeps the
\* sums.
LEMMA MapKept ==
  ASSUME PrioritizeInv, UNCHANGED <<list, read, allNodeExtendersScores, answered>>,
         \A e \in Extenders : epc'[e] = "add" <=> epc[e] = "add"
  PROVE  \A n \in Nodes : Entry(n)' = SumFunctionOnSet(ScoreOf(n), Added(n))'
<1> SUFFICES ASSUME NEW n \in Nodes
             PROVE  Entry(n)' = SumFunctionOnSet(ScoreOf(n), Added(n))'
  OBVIOUS
<1>1. Added(n)' = Added(n)
  BY DEF PrioritizeInv, MapInv, TypeOK, Added
<1>2. Entry(n)' = Entry(n) /\ ScoreOf(n)' = ScoreOf(n)
  BY DEF Entry, ScoreOf, finalscore
<1>3. SumFunctionOnSet(ScoreOf(n), Added(n))' = SumFunctionOnSet(ScoreOf(n), Added(n))
  BY <1>1, <1>2
<1> QED BY <1>2, <1>3 DEF PrioritizeInv, MapInv

\* A goroutine that moves on while it runs leaves the WaitGroup right.
LEMMA RunningKept ==
  ASSUME GoroutinesInv, NEW e \in Extenders, e \in Running,
         NEW l \in {"lock", "read", "add", "wgDone"}, epc' = [epc EXCEPT ![e] = l]
  PROVE  Running' = Running
BY DEF GoroutinesInv, Running

--------------------------------------------------------------------------------
(* The calling goroutine                                                   *)

\* The score plugins run before there are goroutines.
LEMMA Step_score == PrioritizeInv /\ score => PrioritizeInv'
<1> SUFFICES ASSUME PrioritizeInv, score PROVE PrioritizeInv'
  OBVIOUS
<1> USE DEF score, goroutines, profile
<1>1. Running' = Running
  BY DEF Running
<1>2. TypeOK'
  BY PrioritizeAssumption DEF PrioritizeInv, TypeOK
<1>3. GoroutinesInv'
  BY <1>1 DEF PrioritizeInv, GoroutinesInv, Labels
<1>4. MapInv'
  <2>1. \A n \in Nodes : Entry(n)' = SumFunctionOnSet(ScoreOf(n), Added(n))'
    BY MapKept
  <2> QED BY <2>1 DEF PrioritizeInv, MapInv, Entry
<1>5. CallerInv'
  <2>1. nodesScores' \in [Nodes -> Nat]
    BY <1>2 DEF TypeOK
  <2> QED BY <2>1 DEF PrioritizeInv, CallerInv, TypeOK, FullScore
<1> QED BY <1>2, <1>3, <1>4, <1>5 DEF PrioritizeInv

\* A goroutine is started and counted at once.
LEMMA Step_spawn ==
  ASSUME NEW e \in Extenders, PrioritizeInv, spawn(e) PROVE PrioritizeInv'
<1> USE DEF spawn, profile
<1>1. CASE UNCHANGED <<wg, epc>>
  <2>1. Running' = Running
    BY <1>1 DEF Running
  <2>2. TypeOK'
    BY <1>1 DEF PrioritizeInv, TypeOK
  <2>3. GoroutinesInv'
    BY <1>1, <2>1 DEF PrioritizeInv, GoroutinesInv, Labels
  <2>4. MapInv'
    <3>1. \A n \in Nodes : Entry(n)' = SumFunctionOnSet(ScoreOf(n), Added(n))'
      BY <1>1, MapKept
    <3> QED BY <1>1, <3>1 DEF PrioritizeInv, MapInv, Entry
  <2>5. CallerInv'
    BY DEF PrioritizeInv, CallerInv
  <2> QED BY <2>2, <2>3, <2>4, <2>5 DEF PrioritizeInv
<1>2. CASE wg' = wg + 1 /\ epc' = [epc EXCEPT ![e] = "prioritize"]
  <2>0. epc[e] = "idle" /\ epc \in [Extenders -> Labels]
    BY DEF PrioritizeInv, GoroutinesInv
  <2>1. Running' = Running \cup {e} /\ e \notin Running
    BY <1>2, <2>0 DEF Running
  <2>2. Cardinality(Running)' = Cardinality(Running) + 1
    BY <2>1, RunningFinite, FS_AddElement
  <2>3. wg' = Cardinality(Running)'
    BY <1>2, <2>2 DEF PrioritizeInv, GoroutinesInv
  <2>4. TypeOK'
    BY <1>2, <2>3 DEF PrioritizeInv, TypeOK, Running
  <2>5. GoroutinesInv'
    BY <1>2, <2>0, <2>1, <2>3 DEF PrioritizeInv, GoroutinesInv, TypeOK, Labels
  <2>6. MapInv'
    <3>1. \A n \in Nodes : Entry(n)' = SumFunctionOnSet(ScoreOf(n), Added(n))'
      BY <1>2, <2>0, MapKept
    <3>2. e \notin answered
      BY <2>0 DEF PrioritizeInv, MapInv
    <3> QED BY <1>2, <2>0, <3>1, <3>2 DEF PrioritizeInv, MapInv, Entry
  <2>7. CallerInv'
    BY DEF PrioritizeInv, CallerInv
  <2> QED BY <2>4, <2>5, <2>6, <2>7 DEF PrioritizeInv
<1> QED BY <1>1, <1>2

\* wg.Wait returns when no goroutine runs.
LEMMA Step_wait == PrioritizeInv /\ wait => PrioritizeInv'
<1> SUFFICES ASSUME PrioritizeInv, wait PROVE PrioritizeInv'
  OBVIOUS
<1> USE DEF wait, goroutines, profile
<1>1. Running' = Running /\ Running = {}
  BY RunningFinite, FS_EmptySet DEF Running, PrioritizeInv, GoroutinesInv
<1>2. TypeOK'
  BY DEF PrioritizeInv, TypeOK
<1>3. GoroutinesInv'
  BY <1>1 DEF PrioritizeInv, GoroutinesInv, Labels
<1>4. MapInv'
  <2>1. \A n \in Nodes : Entry(n)' = SumFunctionOnSet(ScoreOf(n), Added(n))'
    BY MapKept
  <2> QED BY <2>1 DEF PrioritizeInv, MapInv, Entry
<1>5. CallerInv'
  BY DEF PrioritizeInv, CallerInv
<1> QED BY <1>2, <1>3, <1>4, <1>5 DEF PrioritizeInv

\* When nobody runs, everything that was answered is in the map, so the totals are full.
LEMMA Step_total == PrioritizeInv /\ total => PrioritizeInv'
<1> SUFFICES ASSUME PrioritizeInv, total PROVE PrioritizeInv'
  OBVIOUS
<1> USE DEF total, goroutines, profile
<1>1. Running' = Running /\ Running = {}
  BY DEF Running, PrioritizeInv, GoroutinesInv
<1>2. ASSUME NEW n \in Nodes PROVE Entry(n) \in Nat
  BY <1>2 DEF PrioritizeInv, TypeOK, Entry
<1>3. TypeOK'
  BY <1>2 DEF PrioritizeInv, TypeOK
<1>4. GoroutinesInv'
  BY <1>1 DEF PrioritizeInv, GoroutinesInv, Labels
<1>5. MapInv'
  <2>1. \A n \in Nodes : Entry(n)' = SumFunctionOnSet(ScoreOf(n), Added(n))'
    BY MapKept
  <2> QED BY <2>1 DEF PrioritizeInv, MapInv, Entry
<1>6. CallerInv'
  <2>1. ASSUME NEW n \in Nodes PROVE nodesScores'[n] = FullScore(n)'
    <3>1. Added(n) = answered
      BY <1>1 DEF PrioritizeInv, MapInv, TypeOK, Added, Running
    <3>2. Entry(n) = SumFunctionOnSet([e \in Extenders |-> finalscore(e, n)], answered)
      BY <3>1 DEF PrioritizeInv, MapInv, ScoreOf
    <3> QED BY <3>2, <1>2 DEF PrioritizeInv, CallerInv, FullScore, finalscore
  <2> QED BY <2>1 DEF CallerInv
<1> QED BY <1>3, <1>4, <1>5, <1>6 DEF PrioritizeInv

\* The choice of a best node changes nothing else.
LEMMA Step_select == PrioritizeInv /\ select => PrioritizeInv'
<1> SUFFICES ASSUME PrioritizeInv, select PROVE PrioritizeInv'
  OBVIOUS
<1> USE DEF select, goroutines, profile
<1>1. Running' = Running
  BY DEF Running
<1>2. TypeOK'
  BY DEF PrioritizeInv, TypeOK, Best
<1>3. GoroutinesInv'
  BY <1>1 DEF PrioritizeInv, GoroutinesInv, Labels
<1>4. MapInv'
  <2>1. \A n \in Nodes : Entry(n)' = SumFunctionOnSet(ScoreOf(n), Added(n))'
    BY MapKept
  <2> QED BY <2>1 DEF PrioritizeInv, MapInv, Entry
<1>5. CallerInv'
  BY DEF PrioritizeInv, CallerInv
<1> QED BY <1>2, <1>3, <1>4, <1>5 DEF PrioritizeInv

--------------------------------------------------------------------------------
(* The extenders' goroutines                                               *)

\* What holds of the caller is not touched by the goroutines while it waits.
LEMMA CallerKept ==
  ASSUME PrioritizeInv, UNCHANGED caller, NEW e \in Extenders, e \in Running
  PROVE  CallerInv'
<1>1. pc = "spawn" /\ UNCHANGED <<hasScorePlugins, extenders, pc, loop, nodesScores>>
  BY DEF PrioritizeInv, GoroutinesInv, caller, profile
<1> QED BY <1>1 DEF PrioritizeInv, CallerInv

\* An extender fails, or answers with a list that is not in the map yet.
LEMMA Step_callExtender ==
  ASSUME NEW e \in Extenders, PrioritizeInv, callExtender(e) PROVE PrioritizeInv'
<1> USE DEF callExtender, caller, profile
<1>0. /\ epc \in [Extenders -> Labels] /\ e \in Running /\ e \notin answered
      /\ e \in extenders /\ answered \subseteq Extenders
  BY DEF PrioritizeInv, GoroutinesInv, MapInv, Running, TypeOK
<1>1. Running' = Running
  BY <1>0, RunningKept DEF PrioritizeInv
<1>2. TypeOK'
  BY <1>0, <1>1 DEF PrioritizeInv, TypeOK, Running
<1>3. GoroutinesInv'
  BY <1>0, <1>1 DEF PrioritizeInv, GoroutinesInv, Labels
<1>4. CASE epc' = [epc EXCEPT ![e] = "wgDone"] /\ UNCHANGED <<list, answered>>
  <2>1. \A n \in Nodes : Entry(n)' = SumFunctionOnSet(ScoreOf(n), Added(n))'
    BY <1>0, <1>4, MapKept
  <2>2. MapInv'
    BY <1>0, <1>4, <2>1 DEF PrioritizeInv, MapInv, Entry
  <2> QED BY <1>0, <1>2, <1>3, <2>2, CallerKept DEF PrioritizeInv
<1>5. CASE /\ epc' = [epc EXCEPT ![e] = "lock"]
           /\ list' = [list EXCEPT ![e] = Nodes]
           /\ answered' = answered \cup {e}
  <2>1. ASSUME NEW n \in Nodes
        PROVE  Entry(n)' = SumFunctionOnSet(ScoreOf(n), Added(n))'
    <3>1. Added(n)' = Added(n)
      BY <1>0, <1>5 DEF PrioritizeInv, MapInv, Added
    <3>2. Entry(n)' = Entry(n) /\ ScoreOf(n)' = ScoreOf(n)
      BY DEF Entry, ScoreOf, finalscore
    <3>3. SumFunctionOnSet(ScoreOf(n), Added(n))' = SumFunctionOnSet(ScoreOf(n), Added(n))
      BY <3>1, <3>2
    <3> QED BY <3>2, <3>3 DEF PrioritizeInv, MapInv
  <2>2. MapInv'
    BY <1>0, <1>5, <2>1 DEF PrioritizeInv, MapInv, Entry
  <2> QED BY <1>0, <1>2, <1>3, <2>2, CallerKept DEF PrioritizeInv
<1> QED BY <1>4, <1>5

\* Taking and giving back the mutex.
LEMMA Step_lock ==
  ASSUME NEW e \in Extenders, PrioritizeInv, lock(e) PROVE PrioritizeInv'
<1> USE DEF lock, caller, profile
<1>0. epc \in [Extenders -> Labels] /\ e \in Running /\ e \in answered
  BY DEF PrioritizeInv, GoroutinesInv, MapInv, Running
<1>1. Running' = Running
  BY <1>0, RunningKept DEF PrioritizeInv
<1>2. TypeOK'
  BY <1>0, <1>1 DEF PrioritizeInv, TypeOK, Running
<1>3. GoroutinesInv'
  BY <1>0, <1>1, PrioritizeAssumption DEF PrioritizeInv, GoroutinesInv, Labels
<1>4. MapInv'
  <2>1. \A n \in Nodes : Entry(n)' = SumFunctionOnSet(ScoreOf(n), Added(n))'
    BY <1>0, MapKept
  <2> QED BY <1>0, <2>1 DEF PrioritizeInv, MapInv, Entry
<1> QED BY <1>0, <1>2, <1>3, <1>4, CallerKept DEF PrioritizeInv

\* Who has gone through all nodes leaves the mutex.
LEMMA Step_unlock ==
  ASSUME NEW e \in Extenders, PrioritizeInv, unlock(e) PROVE PrioritizeInv'
<1> USE DEF unlock, caller, profile
<1>0. epc \in [Extenders -> Labels] /\ e \in Running /\ e \in answered
  BY DEF PrioritizeInv, GoroutinesInv, MapInv, Running
<1>1. Running' = Running
  BY <1>0, RunningKept DEF PrioritizeInv
<1>2. TypeOK'
  BY <1>0, <1>1 DEF PrioritizeInv, TypeOK, Running
<1>3. GoroutinesInv'
  BY <1>0, <1>1, PrioritizeAssumption DEF PrioritizeInv, GoroutinesInv, Labels
<1>4. MapInv'
  <2>1. \A n \in Nodes : Entry(n)' = SumFunctionOnSet(ScoreOf(n), Added(n))'
    BY <1>0, MapKept
  <2> QED BY <1>0, <2>1 DEF PrioritizeInv, MapInv, Entry
<1> QED BY <1>0, <1>2, <1>3, <1>4, CallerKept DEF PrioritizeInv

\* wg.Done is called once by each goroutine, at its end.
LEMMA Step_wgDone ==
  ASSUME NEW e \in Extenders, PrioritizeInv, wgDone(e) PROVE PrioritizeInv'
<1> USE DEF wgDone, caller, profile
<1>0. epc \in [Extenders -> Labels] /\ e \in Running
  BY DEF PrioritizeInv, GoroutinesInv, Running
<1>1. Running' = Running \ {e}
  BY <1>0 DEF Running
<1>2. Cardinality(Running)' = Cardinality(Running) - 1
  BY <1>0, <1>1, RunningFinite, FS_RemoveElement
<1>3. wg' = Cardinality(Running)'
  BY <1>2 DEF PrioritizeInv, GoroutinesInv
<1>4. TypeOK'
  BY <1>3 DEF PrioritizeInv, TypeOK, Running
<1>5. GoroutinesInv'
  BY <1>0, <1>1, <1>3 DEF PrioritizeInv, GoroutinesInv, Labels
<1>6. MapInv'
  <2>1. \A n \in Nodes : Entry(n)' = SumFunctionOnSet(ScoreOf(n), Added(n))'
    BY <1>0, MapKept
  <2> QED BY <1>0, <2>1 DEF PrioritizeInv, MapInv, Entry
<1> QED BY <1>0, <1>4, <1>5, <1>6, CallerKept DEF PrioritizeInv

\* Looking up an entry leaves its value, and nobody else is at the map.
LEMMA Step_lookUp ==
  ASSUME NEW e \in Extenders, PrioritizeInv, lookUp(e) PROVE PrioritizeInv'
<1> USE DEF lookUp, caller, profile
<1>0. epc \in [Extenders -> Labels] /\ e \in Running /\ e \in answered
  BY DEF PrioritizeInv, GoroutinesInv, MapInv, Running
<1>1. Running' = Running
  BY <1>0, RunningKept DEF PrioritizeInv
<1>2. PICK n \in list[e] :
        /\ read' = [read EXCEPT ![e] = <<n, Entry(n)>>]
        /\ allNodeExtendersScores' = [allNodeExtendersScores EXCEPT ![n] = Entry(n)]
        /\ list' = [list EXCEPT ![e] = @ \ {n}]
  OBVIOUS
<1>3. n \in Nodes /\ Entry(n) \in Nat
  BY <1>2 DEF PrioritizeInv, MapInv, TypeOK, Entry
<1>4. TypeOK'
  BY <1>0, <1>1, <1>2, <1>3 DEF PrioritizeInv, TypeOK, Running
<1>5. GoroutinesInv'
  BY <1>0, <1>1 DEF PrioritizeInv, GoroutinesInv, Labels
<1>6. ASSUME NEW m \in Nodes PROVE Entry(m)' = Entry(m)
  BY <1>2, <1>3, PrioritizeAssumption DEF PrioritizeInv, TypeOK, Entry
<1>7. ASSUME NEW m \in Nodes
      PROVE  Entry(m)' = SumFunctionOnSet(ScoreOf(m), Added(m))'
  <2>1. Added(m)' = Added(m)
    BY <1>0, <1>2, <1>3 DEF PrioritizeInv, MapInv, TypeOK, Added
  <2>2. ScoreOf(m)' = ScoreOf(m)
    BY DEF ScoreOf, finalscore
  <2>3. SumFunctionOnSet(ScoreOf(m), Added(m))' = SumFunctionOnSet(ScoreOf(m), Added(m))
    BY <2>1, <2>2
  <2> QED BY <1>6, <2>3 DEF PrioritizeInv, MapInv
<1>8. MapInv'
  BY <1>0, <1>2, <1>3, <1>6, <1>7 DEF PrioritizeInv, MapInv, GoroutinesInv
<1> QED BY <1>0, <1>4, <1>5, <1>8, CallerKept DEF PrioritizeInv

\* Adding a score: the total read is still the entry's, so it grows by the score.
LEMMA Step_addScore ==
  ASSUME NEW e \in Extenders, PrioritizeInv, addScore(e) PROVE PrioritizeInv'
<1> USE DEF addScore, caller, profile
<1>0. epc \in [Extenders -> Labels] /\ e \in Running /\ e \in answered /\ answered \subseteq Extenders
  BY DEF PrioritizeInv, GoroutinesInv, MapInv, Running, TypeOK
<1>1. Running' = Running
  BY <1>0, RunningKept DEF PrioritizeInv
<1>2. PICK n \in Nodes :
        /\ read[e][1] = n /\ n \notin list[e] /\ read[e][2] = Entry(n) /\ Entry(n) \in Nat
        /\ finalscore(e, n) \in Nat
  BY <1>0, ScoreNat DEF PrioritizeInv, MapInv, TypeOK, Entry
<1>3. /\ allNodeExtendersScores'
           = [allNodeExtendersScores EXCEPT ![n] = Entry(n) + finalscore(e, n)]
      /\ UNCHANGED read
  BY <1>2
<1>4. TypeOK'
  <2>1. allNodeExtendersScores' \in [Nodes -> Nat \cup {None}]
    <3>1. Entry(n) + finalscore(e, n) \in Nat
      BY <1>2
    <3> QED BY <1>2, <1>3, <3>1 DEF PrioritizeInv, TypeOK
  <2> QED BY <1>0, <1>1, <2>1 DEF PrioritizeInv, TypeOK, Running
<1>5. GoroutinesInv'
  BY <1>0, <1>1 DEF PrioritizeInv, GoroutinesInv, Labels
<1>6. /\ Entry(n)' = Entry(n) + finalscore(e, n)
      /\ \A m \in Nodes : m # n => Entry(m)' = Entry(m)
  BY <1>2, <1>3, PrioritizeAssumption DEF PrioritizeInv, TypeOK, Entry
<1>7. ASSUME NEW m \in Nodes
      PROVE  Entry(m)' = SumFunctionOnSet(ScoreOf(m), Added(m))'
  <2>1. ScoreOf(m)' = ScoreOf(m)
    BY DEF ScoreOf, finalscore
  <2>2. CASE m # n
    <3>1. Added(m)' = Added(m)
      BY <1>0, <1>2, <2>2 DEF PrioritizeInv, MapInv, Added
    <3>2. SumFunctionOnSet(ScoreOf(m), Added(m))' = SumFunctionOnSet(ScoreOf(m), Added(m))
      BY <2>1, <3>1
    <3> QED BY <1>6, <2>2, <3>2 DEF PrioritizeInv, MapInv
  <2>3. CASE m = n
    <3>1. Added(m)' = Added(m) \cup {e} /\ e \notin Added(m) /\ Added(m) \subseteq Extenders
      BY <1>0, <1>2, <2>3 DEF PrioritizeInv, MapInv, Added
    <3>2. IsFiniteSet(Added(m))
      BY <3>1, PrioritizeAssumption, FS_Subset
    <3>3. \A x \in Added(m) \cup {e} : ScoreOf(m)[x] \in Nat
      BY <3>1, ScoreNat
    <3>4. SumFunctionOnSet(ScoreOf(m), Added(m) \cup {e})
            = SumFunctionOnSet(ScoreOf(m), Added(m)) + ScoreOf(m)[e]
      BY <3>1, <3>2, <3>3, SumAddElement
    <3>5. SumFunctionOnSet(ScoreOf(m), Added(m))' = SumFunctionOnSet(ScoreOf(m), Added(m) \cup {e})
      BY <2>1, <3>1
    <3>6. Entry(m) = SumFunctionOnSet(ScoreOf(m), Added(m)) /\ ScoreOf(m)[e] = finalscore(e, m)
      BY ScoreNat DEF PrioritizeInv, MapInv
    <3> QED BY <1>6, <2>3, <3>4, <3>5, <3>6
  <2> QED BY <2>2, <2>3
<1>8. ASSUME NEW d \in answered, epc'[d] = "add" PROVE FALSE
  BY <1>0, <1>8 DEF PrioritizeInv, GoroutinesInv, TypeOK
<1>9. MapInv'
  BY <1>0, <1>7, <1>8 DEF PrioritizeInv, MapInv
<1> QED BY <1>0, <1>4, <1>5, <1>9, CallerKept DEF PrioritizeInv

--------------------------------------------------------------------------------
(* Theorems                                                                *)

\* Every step of the caller and of the goroutines keeps the count of the WaitGroup,
\* the mutex and the sums in the map right.
THEOREM PrioritizeInvHolds == Spec => []PrioritizeInv
<1>1. PrioritizeInv /\ [Next]_vars => PrioritizeInv'
  <2> SUFFICES ASSUME PrioritizeInv, [Next]_vars PROVE PrioritizeInv'
    OBVIOUS
  <2>1. CASE Next
    BY <2>1, Step_score, Step_spawn, Step_wait, Step_total, Step_select, Step_callExtender,
       Step_lock, Step_lookUp, Step_addScore, Step_unlock, Step_wgDone
       DEF Next, Caller, Extender
  <2>2. CASE UNCHANGED vars
    <3> USE <2>2 DEF vars, caller, goroutines, profile
    <3>1. Running' = Running
      BY DEF Running
    <3>2. TypeOK'
      BY DEF PrioritizeInv, TypeOK
    <3>3. GoroutinesInv'
      BY <3>1 DEF PrioritizeInv, GoroutinesInv, Labels
    <3>4. MapInv'
      <4>1. \A n \in Nodes : Entry(n)' = SumFunctionOnSet(ScoreOf(n), Added(n))'
        BY MapKept
      <4> QED BY <4>1 DEF PrioritizeInv, MapInv, Entry
    <3>5. CallerInv'
      BY DEF PrioritizeInv, CallerInv, FullScore, finalscore
    <3> QED BY <3>2, <3>3, <3>4, <3>5 DEF PrioritizeInv
  <2> QED BY <2>1, <2>2
<1> QED BY <1>1, InvInit, PTL DEF Spec

\* Every variable keeps its type, and the WaitGroup counts the running goroutines.
THEOREM TypeCorrect == Spec => []TypeOK
<1>1. PrioritizeInv => TypeOK
  BY DEF PrioritizeInv
<1> QED BY <1>1, PrioritizeInvHolds, PTL

\* The total of each node is the sum of the scores of all extenders that answered, in
\* whatever order their goroutines come to the map and whichever fail.
THEOREM TotalsAreExact == Spec => []TotalsExact
<1>1. PrioritizeInv => TotalsExact
  BY DEF PrioritizeInv, CallerInv, TotalsExact
<1> QED BY <1>1, PrioritizeInvHolds, PTL

\* When prioritizeNodes reads the map, and when it returns, no goroutine is left.
THEOREM NoGoroutineLeft == Spec => []NobodyLeftBehind
<1>1. PrioritizeInv => NobodyLeftBehind
  BY DEF PrioritizeInv, GoroutinesInv, Running, NobodyLeftBehind
<1> QED BY <1>1, PrioritizeInvHolds, PTL
================================================================================
