-------------------------- MODULE ParallelFilterProofs --------------------------
(***************************************************************************)
(* Proofs about ParallelFilter, for any number of nodes, workers, pieces   *)
(* per chunk and candidates to find.                                       *)
(***************************************************************************)
EXTENDS ParallelFilter, FiniteSetTheorems, TLAPS

\* The node of a piece is a node, and two pieces are two nodes.
LEMMA NodeOfFacts ==
  /\ \A i \in Pieces : nodeOf(i) \in Pieces
  /\ \A i, j \in Pieces : nodeOf(i) = nodeOf(j) => i = j
<1>1. /\ NumAllNodes \in Nat \ {0} /\ NextStartNodeIndex \in Nat
  BY ParallelFilterAssumption
<1>2. ASSUME NEW i \in Pieces PROVE nodeOf(i) \in Pieces
  BY <1>1 DEF Pieces, nodeOf
<1>3. ASSUME NEW i \in Pieces, NEW j \in Pieces, nodeOf(i) = nodeOf(j), i < j PROVE FALSE
  <2> DEFINE N == NumAllNodes
             a == NextStartNodeIndex + i
             b == NextStartNodeIndex + j
  <2>1. a \in Nat /\ b \in Nat /\ N \in Nat \ {0} /\ b - a > 0 /\ b - a < N /\ a % N = b % N
    BY <1>1, <1>3 DEF Pieces, nodeOf
  <2> HIDE DEF a, b, N
  <2>2. a = N * (a \div N) + (a % N) /\ b = N * (b \div N) + (b % N)
    BY <2>1
  <2>3. (a \div N) \in Int /\ (b \div N) \in Int
    BY <2>1
  <2> DEFINE d == (b \div N) - (a \div N)
  <2>4. d \in Int /\ b - a = N * d
    BY <2>1, <2>2, <2>3
  <2> HIDE DEF d
  <2>5. CASE d =< 0
    BY <2>1, <2>4, <2>5
  <2>6. CASE d >= 1
    BY <2>1, <2>4, <2>6
  <2> QED BY <2>4, <2>5, <2>6
<1>4. ASSUME NEW i \in Pieces, NEW j \in Pieces, nodeOf(i) = nodeOf(j) PROVE i = j
  <2>1. i \in Int /\ j \in Int
    BY <1>1 DEF Pieces
  <2>2. ~(i < j) /\ ~(j < i)
    BY <1>3, <1>4
  <2> QED BY <2>1, <2>2
<1> QED BY <1>2, <1>4

\* Every node has a piece.
LEMMA NodeOfOnto == \A n \in Pieces : \E i \in Pieces : nodeOf(i) = n
<1> SUFFICES ASSUME NEW n \in Pieces PROVE \E i \in Pieces : nodeOf(i) = n
  OBVIOUS
<1> DEFINE N == NumAllNodes
           s == NextStartNodeIndex
           i == (n - s) % N
<1>1. N \in Nat \ {0} /\ s \in Nat /\ n \in 0..(N - 1)
  BY ParallelFilterAssumption DEF Pieces
<1> HIDE DEF N, s
<1>2. i \in 0..(N - 1) /\ n - s \in Int /\ n - s = N * ((n - s) \div N) + i
  BY <1>1
<1> DEFINE q == (n - s) \div N
<1>3. q \in Int
  BY <1>1
<1> HIDE DEF i, q
<1>4. s + i = N * (-q) + n
  BY <1>1, <1>2, <1>3 DEF q
<1>5. (s + i) % N = n
  BY <1>1, <1>2, <1>3, <1>4
<1> QED BY <1>2, <1>5 DEF Pieces, nodeOf, N, s

\* The number of slots is positive and fixed.
LEMMA LimitFacts ==
  ASSUME input \in Inputs
  PROVE  numNodesToFind \in Nat \ {0} /\ Slots = 1..numNodesToFind
BY ParallelFilterAssumption DEF Inputs, numNodesToFind, Slots

\* Finitely many workers overshoot.
LEMMA OverFacts ==
  /\ IsFiniteSet(Over) /\ Cardinality(Over) \in Nat
  /\ Cardinality(Over) = 0 <=> Over = {}
<1>1. IsFiniteSet(Over)
  BY ParallelFilterAssumption, FS_Subset DEF Over
<1> QED BY <1>1, FS_CardinalityType, FS_EmptySet

\* Before the search nothing is counted, stored or fetched.
LEMMA FilterInit == Init => FilterInv
<1> SUFFICES ASSUME Init PROVE FilterInv
  OBVIOUS
<1>1. TypeOK
  <2>1. 0 \in 0..NumAllNodes
    BY ParallelFilterAssumption
  <2>2. /\ wpc \in [Workers -> WorkerLabel] /\ at \in [Workers -> 0..NumAllNodes]
        /\ to \in [Workers -> 0..NumAllNodes] /\ length \in [Workers -> Nat]
        /\ feasibleNodes \in [Slots -> Pieces \cup {None}]
    BY <2>1 DEF Init, WorkerLabel
  <2> QED BY <2>1, <2>2 DEF Init, TypeOK
<1>2. ControlInv
  BY DEF Init, ControlInv
<1>3. CountInv
  <2>1. Over = {} /\ Cardinality(Over) = 0
    BY OverFacts DEF Init, Over
  <2>2. Granted = 0
    BY <2>1 DEF Init, Granted
  <2>3. numNodesToFind \in Nat \ {0}
    BY LimitFacts DEF Init
  <2> QED BY <2>1, <2>2, <2>3 DEF Init, CountInv, Slots
<1>4. PieceInv
  BY DEF Init, PieceInv, Owns
<1>5. SkipInv
  <2>1. \A i \in Pieces : Settled(i)
    BY DEF Init, Settled, Pieces
  <2> QED BY <2>1 DEF Init, SkipInv
<1> QED BY <1>1, <1>2, <1>3, <1>4, <1>5 DEF FilterInv

\* What every lemma below needs of the state before the step.
LEMMA StateFacts ==
  ASSUME FilterInv
  PROVE  /\ input \in Inputs /\ numNodesToFind \in Nat \ {0} /\ Slots = 1..numNodesToFind
         /\ NumAllNodes \in Nat \ {0} /\ ChunkSize \in Nat \ {0} /\ toProcess \in 0..NumAllNodes
         /\ feasibleNodesLen \in Nat /\ Cardinality(Over) \in Nat
         /\ Granted \in Nat /\ Granted =< numNodesToFind
         /\ feasibleNodesLen = Granted + Cardinality(Over)
         /\ wpc \in [Workers -> WorkerLabel] /\ at \in [Workers -> 0..NumAllNodes]
         /\ to \in [Workers -> 0..NumAllNodes] /\ length \in [Workers -> Nat]
         /\ feasibleNodes \in [Slots -> Pieces \cup {None}] /\ None \notin Pieces
         /\ errCh \in BOOLEAN /\ cancelled \in BOOLEAN /\ callerCancelled \in BOOLEAN
<1>1. input \in Inputs
  BY DEF FilterInv, TypeOK
<1>2. numNodesToFind \in Nat \ {0} /\ Slots = 1..numNodesToFind
  BY <1>1, LimitFacts
<1>3. Cardinality(Over) \in Nat
  BY OverFacts
<1>4. /\ feasibleNodesLen \in Nat /\ Granted \in 0..numNodesToFind
      /\ toProcess \in 0..NumAllNodes
      /\ wpc \in [Workers -> WorkerLabel] /\ at \in [Workers -> 0..NumAllNodes]
      /\ to \in [Workers -> 0..NumAllNodes] /\ length \in [Workers -> Nat]
      /\ feasibleNodes \in [Slots -> Pieces \cup {None}]
      /\ errCh \in BOOLEAN /\ cancelled \in BOOLEAN /\ callerCancelled \in BOOLEAN
  BY DEF FilterInv, TypeOK, CountInv
<1>5. feasibleNodesLen = Granted + Cardinality(Over)
  BY <1>3, <1>4 DEF Granted
<1>6. /\ NumAllNodes \in Nat \ {0} /\ ChunkSize \in Nat \ {0} /\ None \notin Pieces
  BY ParallelFilterAssumption DEF Pieces
<1> QED BY <1>1, <1>2, <1>3, <1>4, <1>5, <1>6

\* A step that keeps counter, slots and the workers between counting and storing
\* keeps the counting invariant.
LEMMA CountKept ==
  ASSUME FilterInv, UNCHANGED <<input, feasibleNodesLen, feasibleNodes, length>>,
         \A w \in Workers : \A l \in {"store", "enough", "uncount"} : wpc'[w] = l <=> wpc[w] = l
  PROVE  CountInv'
<1>1. Over' = Over
  BY DEF Over
<1>2. Granted' = Granted /\ numNodesToFind' = numNodesToFind /\ Slots' = Slots
  BY <1>1 DEF Granted, numNodesToFind, Slots
<1>3. \A w \in Workers : wpc'[w] = "store" <=> wpc[w] = "store"
  OBVIOUS
<1> QED BY <1>1, <1>2, <1>3 DEF FilterInv, CountInv

\* A fetched chunk belongs to the worker that fetched it.
LEMMA Step_fetch ==
  ASSUME FilterInv, NEW w \in Workers, fetch(w)
  PROVE  FilterInv'
<1>1. /\ pc = "until" /\ wpc[w] = "fetch"
      /\ UNCHANGED <<input, pc, length, feasibleNodesLen, feasibleNodes, result, errCh,
                     cancelled, callerCancelled, found>>
  BY DEF fetch, shared
<1>2. CASE toProcess < NumAllNodes
  <2>1. PICK end : /\ end = (IF toProcess + ChunkSize < NumAllNodes
                             THEN toProcess + ChunkSize ELSE NumAllNodes)
                   /\ to' = [to EXCEPT ![w] = end] /\ toProcess' = end
                   /\ at' = [at EXCEPT ![w] = toProcess]
                   /\ wpc' = [wpc EXCEPT ![w] = "piece"]
    BY <1>2, StateFacts DEF fetch, Goto
  <2>2. end \in 0..NumAllNodes /\ toProcess < end
    BY <1>2, <2>1, StateFacts
  <2>3. TypeOK'
    BY <1>1, <2>1, <2>2, StateFacts DEF FilterInv, TypeOK, WorkerLabel, Slots, numNodesToFind
  <2>4. ControlInv'
    BY <1>1, <2>1, StateFacts DEF ControlInv
  <2>5. CountInv'
    BY <1>1, <2>1, StateFacts, CountKept
  <2>6. \A v \in Workers : v # w => wpc'[v] = wpc[v] /\ at'[v] = at[v] /\ to'[v] = to[v]
    BY <2>1, StateFacts
  <2>7. wpc'[w] = "piece" /\ at'[w] = toProcess /\ to'[w] = end
    BY <2>1, StateFacts
  <2>8. \A v \in Workers : \A i \in Int :
          Owns(v, i)' <=> IF v = w THEN toProcess =< i /\ i < end ELSE Owns(v, i)
    BY <2>6, <2>7 DEF Owns
  <2>9. \A v \in Workers : \A i \in Int : Owns(v, i) => i < toProcess
    BY StateFacts DEF FilterInv, PieceInv, Owns
  <2>10. Slots' = Slots /\ numNodesToFind' = numNodesToFind
    BY <1>1 DEF Slots, numNodesToFind
  <2>11. Pieces \subseteq Int /\ \A k \in Slots : feasibleNodes[k] # None => feasibleNodes[k] \in Int
    BY StateFacts DEF Pieces
  <2>12. PieceInv'
    <3>1. \A v \in Workers :
            /\ to'[v] =< toProcess'
            /\ wpc'[v] \notin {"fetch", "piece", "exited"} => at'[v] < to'[v]
            /\ wpc'[v] \in {"count", "store"} => input.verdict[nodeOf(at'[v])] = "Success"
      <4>1. toProcess \in Int /\ end \in Int /\ \A v \in Workers : to[v] \in Int
        BY <2>2, StateFacts
      <4>2. \A v \in Workers : to[v] =< toProcess
        BY DEF FilterInv, PieceInv
      <4>3. \A v \in Workers : to'[v] =< toProcess'
        BY <2>1, <2>2, <2>6, <2>7, <4>1, <4>2
      <4> QED BY <2>6, <2>7, <4>3 DEF FilterInv, PieceInv
    <3>2. ASSUME NEW u \in Workers, NEW v \in Workers, NEW i \in Pieces,
                 Owns(u, i)', Owns(v, i)'
          PROVE  u = v
      <4>1. i \in Int /\ toProcess \in Int
        BY <2>11, StateFacts
      <4>2. u # w /\ v # w => Owns(u, i) /\ Owns(v, i)
        BY <2>8, <3>2, <4>1
      <4>3. u = w /\ v # w => FALSE
        BY <2>8, <2>9, <3>2, <4>1
      <4>4. v = w /\ u # w => FALSE
        BY <2>8, <2>9, <3>2, <4>1
      <4> QED BY <4>2, <4>3, <4>4 DEF FilterInv, PieceInv
    <3>3. \A k \in Slots : feasibleNodes[k] # None =>
            /\ feasibleNodes[k] < toProcess'
            /\ input.verdict[nodeOf(feasibleNodes[k])] = "Success"
            /\ \A v \in Workers : ~(Owns(v, feasibleNodes[k])')
      <4> SUFFICES ASSUME NEW k \in Slots, feasibleNodes[k] # None
                   PROVE  /\ feasibleNodes[k] < toProcess'
                          /\ input.verdict[nodeOf(feasibleNodes[k])] = "Success"
                          /\ \A v \in Workers : ~(Owns(v, feasibleNodes[k])')
        OBVIOUS
      <4>1. /\ feasibleNodes[k] < toProcess
            /\ input.verdict[nodeOf(feasibleNodes[k])] = "Success"
            /\ \A v \in Workers : ~Owns(v, feasibleNodes[k])
        BY DEF FilterInv, PieceInv
      <4>2. feasibleNodes[k] \in Int /\ toProcess \in Int /\ end \in Int /\ toProcess' = end
        BY <2>1, <2>2, <2>11, StateFacts
      <4>3. ASSUME NEW v \in Workers PROVE ~(Owns(v, feasibleNodes[k])')
        <5>1. v # w => ~(Owns(v, feasibleNodes[k])')
          BY <1>1, <2>6, <4>1 DEF Owns
        <5>2. v = w => ~(Owns(v, feasibleNodes[k])')
          BY <1>1, <2>7, <4>1, <4>2 DEF Owns
        <5> QED BY <5>1, <5>2
      <4>4. feasibleNodes[k] < toProcess'
        BY <2>2, <4>1, <4>2
      <4> QED BY <4>1, <4>3, <4>4
    <3> QED BY <1>1, <2>10, <3>1, <3>2, <3>3 DEF FilterInv, PieceInv, nodeOf
  <2>13. SkipInv'
    <3>1. Excused' <=> Excused
      BY <1>1, <2>10 DEF Excused
    <3>2. \A v \in Workers : /\ wpc'[v] = "cancel" => errCh
                             /\ wpc'[v] = "exited" => toProcess' >= NumAllNodes \/ Excused
      BY <2>1, <2>2, <2>6, <2>7, StateFacts, SMTT(30) DEF FilterInv, SkipInv
    <3>3. ASSUME ~Excused, NEW i \in Pieces
          PROVE  Settled(i)' \/ \E v \in Workers : Owns(v, i)'
      <4>1. Settled(i) \/ \E v \in Workers : Owns(v, i)
        BY <3>3 DEF FilterInv, SkipInv
      <4>2. CASE \E v \in Workers : Owns(v, i)
        <5>1. PICK v \in Workers : Owns(v, i)
          BY <4>2
        <5>2. v # w
          BY <1>1, <5>1 DEF Owns
        <5> QED BY <2>8, <2>11, <5>1, <5>2
      <4>3. CASE Settled(i)
        <5>1. i \in result \/ (\E k \in Slots : feasibleNodes[k] = i) => Settled(i)'
          BY <1>1, <2>10 DEF Settled
        <5>2. CASE i >= toProcess
          BY <2>1, <2>8, <2>11, <5>2, StateFacts, SMTT(30) DEF Settled
        <5> QED BY <4>3, <5>1, <5>2 DEF Settled
      <4> QED BY <4>1, <4>2, <4>3
    <3> QED BY <1>1, <3>1, <3>2, <3>3 DEF FilterInv, SkipInv
  <2> QED BY <2>3, <2>4, <2>5, <2>12, <2>13 DEF FilterInv
<1>3. CASE ~(toProcess < NumAllNodes)
  <2>1. wpc' = [wpc EXCEPT ![w] = "exited"] /\ UNCHANGED <<at, to, toProcess>>
        /\ toProcess >= NumAllNodes
    BY <1>3, StateFacts DEF fetch, Goto
  <2>2. TypeOK'
    BY <1>1, <2>1, StateFacts DEF FilterInv, TypeOK, WorkerLabel, Slots, numNodesToFind
  <2>3. ControlInv'
    BY <1>1, <2>1, StateFacts DEF ControlInv
  <2>4. CountInv'
    BY <1>1, <2>1, StateFacts, CountKept
  <2>5. \A v \in Workers : /\ v # w => wpc'[v] = wpc[v]
                           /\ \A i : Owns(v, i)' <=> Owns(v, i)
    BY <1>1, <2>1, StateFacts DEF Owns
  <2>6. Slots' = Slots /\ numNodesToFind' = numNodesToFind /\ wpc'[w] = "exited"
    BY <1>1, <2>1, StateFacts DEF Slots, numNodesToFind
  <2>7. PieceInv'
    <3>1. \A v \in Workers :
            /\ to'[v] =< toProcess'
            /\ wpc'[v] \notin {"fetch", "piece", "exited"} => at'[v] < to'[v]
            /\ wpc'[v] \in {"count", "store"} => input.verdict[nodeOf(at'[v])] = "Success"
      BY <2>1, <2>5, <2>6 DEF FilterInv, PieceInv
    <3> QED BY <1>1, <2>1, <2>5, <2>6, <3>1 DEF FilterInv, PieceInv, nodeOf
  <2>8. SkipInv'
    BY <1>1, <2>1, <2>5, <2>6 DEF FilterInv, SkipInv, Excused, Settled
  <2> QED BY <2>2, <2>3, <2>4, <2>7, <2>8 DEF FilterInv
<1> QED BY <1>2, <1>3

\* A worker that moves on within checkNode, or leaves, takes no piece from another.
LEMMA PieceStay ==
  ASSUME FilterInv, NEW w \in Workers, NEW l \in WorkerLabel,
         wpc[w] \notin {"fetch", "exited"}, wpc' = [wpc EXCEPT ![w] = l],
         l \notin {"fetch", "piece", "exited"} => at[w] < to[w],
         l \in {"count", "store"} => input.verdict[nodeOf(at[w])] = "Success",
         UNCHANGED <<input, toProcess, at, to, feasibleNodes>>
  PROVE  /\ PieceInv'
         /\ \A v \in Workers : v # w => wpc'[v] = wpc[v]
         /\ wpc'[w] = l
         /\ \A v \in Workers : \A i : Owns(v, i)' => Owns(v, i)
         /\ \A v \in Workers : \A i :
              (v # w \/ l \notin {"fetch", "exited"}) /\ Owns(v, i) => Owns(v, i)'
<1>1. wpc'[w] = l /\ \A v \in Workers : v # w => wpc'[v] = wpc[v]
  BY StateFacts
<1>2. \A v \in Workers : \A i : Owns(v, i)' => Owns(v, i)
  BY <1>1 DEF Owns
<1>3. \A v \in Workers : \A i :
        (v # w \/ l \notin {"fetch", "exited"}) /\ Owns(v, i) => Owns(v, i)'
  BY <1>1 DEF Owns
<1>4. Slots' = Slots
  BY DEF Slots, numNodesToFind
<1>5. \A v \in Workers :
        /\ to'[v] =< toProcess'
        /\ wpc'[v] \notin {"fetch", "piece", "exited"} => at'[v] < to'[v]
        /\ wpc'[v] \in {"count", "store"} => input.verdict[nodeOf(at'[v])] = "Success"
  BY <1>1 DEF FilterInv, PieceInv
<1>6. PieceInv'
  BY <1>2, <1>4, <1>5 DEF FilterInv, PieceInv, nodeOf
<1> QED BY <1>1, <1>2, <1>3, <1>6

\* A worker that is done with a piece gives up that piece only.
LEMMA Advance ==
  ASSUME FilterInv, NEW w \in Workers, NextPiece(w),
         wpc[w] \notin {"fetch", "piece", "exited"}, UNCHANGED <<toProcess, to>>
  PROVE  /\ wpc' \in [Workers -> WorkerLabel] /\ at' \in [Workers -> 0..NumAllNodes]
         /\ at[w] \in Pieces /\ at[w] < toProcess /\ Owns(w, at[w]) /\ wpc'[w] = "piece"
         /\ \A v \in Workers : v # w => wpc'[v] = wpc[v] /\ at'[v] = at[v]
         /\ \A v \in Workers : \A i \in Int : Owns(v, i)' <=> Owns(v, i) /\ ~(v = w /\ i = at[w])
         /\ \A v \in Workers :
              /\ to'[v] =< toProcess'
              /\ wpc'[v] \notin {"fetch", "piece", "exited"} => at'[v] < to'[v]
<1>1. wpc' = [wpc EXCEPT ![w] = "piece"] /\ at' = [at EXCEPT ![w] = @ + 1]
  BY DEF NextPiece, Goto
<1>2. /\ at[w] < to[w] /\ to[w] =< toProcess /\ \A v \in Workers : to[v] =< toProcess
      /\ \A v \in Workers :
           wpc[v] \notin {"fetch", "piece", "exited"} => at[v] < to[v]
  BY DEF FilterInv, PieceInv
<1>3. at[w] \in 0..NumAllNodes /\ to[w] \in 0..NumAllNodes /\ toProcess \in 0..NumAllNodes
      /\ NumAllNodes \in Nat \ {0}
  BY StateFacts
<1>4. at[w] \in Pieces /\ at[w] + 1 \in 0..NumAllNodes /\ at[w] < toProcess
  BY <1>2, <1>3 DEF Pieces
<1>5. wpc' \in [Workers -> WorkerLabel] /\ at' \in [Workers -> 0..NumAllNodes]
  BY <1>1, <1>4, StateFacts DEF WorkerLabel
<1>6. /\ wpc'[w] = "piece" /\ at'[w] = at[w] + 1
      /\ \A v \in Workers : v # w => wpc'[v] = wpc[v] /\ at'[v] = at[v]
  BY <1>1, StateFacts
<1>7. Owns(w, at[w])
  BY <1>2, <1>3 DEF Owns
<1>8. ASSUME NEW v \in Workers, NEW i \in Int
      PROVE  Owns(v, i)' <=> Owns(v, i) /\ ~(v = w /\ i = at[w])
  <2>1. CASE v # w
    BY <1>6, <2>1 DEF Owns
  <2>2. CASE v = w
    BY <1>3, <1>6, <2>2 DEF Owns
  <2> QED BY <2>1, <2>2
<1> QED BY <1>2, <1>4, <1>5, <1>6, <1>7, <1>8

\* The same, when no slot is written.
LEMMA PieceAdvance ==
  ASSUME FilterInv, NEW w \in Workers, NextPiece(w),
         wpc[w] \notin {"fetch", "piece", "exited"},
         UNCHANGED <<input, toProcess, to, feasibleNodes>>
  PROVE  PieceInv'
<1>1. Slots' = Slots /\ Pieces \subseteq Int
      /\ \A k \in Slots : feasibleNodes[k] # None => feasibleNodes[k] \in Int
  <2>1. Slots' = Slots
    BY DEF Slots, numNodesToFind
  <2>2. Pieces \subseteq Int
    BY StateFacts DEF Pieces
  <2> QED BY <2>1, <2>2, StateFacts
<1>2. \A v \in Workers : \A i \in Int : Owns(v, i)' => Owns(v, i)
  BY Advance
<1>3. \A v \in Workers :
        /\ to'[v] =< toProcess'
        /\ wpc'[v] \notin {"fetch", "piece", "exited"} => at'[v] < to'[v]
        /\ wpc'[v] \in {"count", "store"} => input.verdict[nodeOf(at'[v])] = "Success"
  BY Advance DEF FilterInv, PieceInv
<1> QED BY <1>1, <1>2, <1>3 DEF FilterInv, PieceInv, nodeOf

\* No piece is skipped without an excuse: a piece given up is settled or excused.
LEMMA SkipKept ==
  ASSUME FilterInv, NEW w \in Workers, Excused => Excused', cancelled' => Excused',
         errCh => errCh', UNCHANGED <<input, toProcess>>,
         \A v \in Workers : v # w => wpc'[v] = wpc[v],
         wpc'[w] = "cancel" => errCh',
         wpc'[w] = "exited" => toProcess >= NumAllNodes \/ Excused',
         ~Excused' => \A i \in Pieces : Settled(i) => Settled(i)',
         ~Excused' => \A i \in Pieces, v \in Workers :
           Owns(v, i) => Owns(v, i)' \/ Settled(i)'
  PROVE  SkipInv'
<1>1. \A v \in Workers : wpc'[v] = "cancel" => errCh'
  BY DEF FilterInv, SkipInv
<1>2. \A v \in Workers : wpc'[v] = "exited" => toProcess' >= NumAllNodes \/ Excused'
  BY DEF FilterInv, SkipInv
<1>3. ASSUME ~Excused', NEW i \in Pieces
      PROVE  Settled(i)' \/ \E v \in Workers : Owns(v, i)'
  <2>1. Settled(i) \/ \E v \in Workers : Owns(v, i)
    BY <1>3 DEF FilterInv, SkipInv
  <2> QED BY <1>3, <2>1
<1> QED BY <1>1, <1>2, <1>3 DEF SkipInv

\* A worker skips its piece only if the search is cancelled.
LEMMA Step_piece ==
  ASSUME FilterInv, NEW w \in Workers, piece(w)
  PROVE  FilterInv'
<1>1. /\ wpc[w] = "piece"
      /\ UNCHANGED <<input, pc, toProcess, at, to, length, feasibleNodesLen, feasibleNodes,
                     result, errCh, cancelled, callerCancelled, found>>
  BY DEF piece, shared
<1>2. PICK l \in {"fetch", "exited", "filter"} :
        /\ wpc' = [wpc EXCEPT ![w] = l]
        /\ l = "fetch" => at[w] >= to[w]
        /\ l = "filter" => at[w] < to[w]
        /\ l = "exited" => cancelled
  BY DEF piece, Goto
<1>3. /\ PieceInv' /\ wpc'[w] = l
      /\ \A v \in Workers : v # w => wpc'[v] = wpc[v]
      /\ \A v \in Workers : \A i :
           (v # w \/ l \notin {"fetch", "exited"}) /\ Owns(v, i) => Owns(v, i)'
  BY <1>1, <1>2, PieceStay DEF WorkerLabel
<1>4. TypeOK'
  <2>1. wpc' \in [Workers -> WorkerLabel]
    BY <1>2, StateFacts DEF WorkerLabel
  <2> QED BY <1>1, <2>1 DEF FilterInv, TypeOK, Slots, numNodesToFind
<1>5. ControlInv'
  <2>1. pc = "until"
    BY <1>1 DEF FilterInv, ControlInv
  <2> QED BY <1>1, <2>1 DEF ControlInv
<1>6. CountInv'
  BY <1>1, <1>3, CountKept
<1>7. SkipInv'
  <2>1. Excused' <=> Excused
    BY <1>1 DEF Excused, numNodesToFind
  <2>2. \A i : Settled(i) => Settled(i)'
    BY <1>1 DEF Settled, Slots, numNodesToFind
  <2>3. l = "exited" => Excused'
    BY <1>2, <2>1 DEF FilterInv, SkipInv
  <2>4. l = "fetch" => \A i \in Pieces : ~Owns(w, i)
    BY <1>2, StateFacts DEF Owns, Pieces
  <2>5. ~Excused' => \A i \in Pieces, v \in Workers : Owns(v, i) => Owns(v, i)'
    BY <1>3, <2>3, <2>4
  <2>6. cancelled' => Excused'
    BY <1>1, <2>1 DEF FilterInv, SkipInv
  <2> QED BY <1>1, <1>2, <1>3, <2>1, <2>2, <2>3, <2>5, <2>6, SkipKept
<1> QED BY <1>3, <1>4, <1>5, <1>6, <1>7 DEF FilterInv

\* A worker that is busy acts during Until.
LEMMA BusyControl ==
  ASSUME FilterInv, NEW w \in Workers, wpc[w] \notin {"fetch", "exited"}, UNCHANGED pc
  PROVE  ControlInv'
<1>1. pc = "until"
  BY DEF FilterInv, ControlInv
<1> QED BY <1>1 DEF ControlInv

\* The verdict decides where the worker goes on with its piece.
LEMMA Step_filter ==
  ASSUME FilterInv, NEW w \in Workers, filter(w)
  PROVE  FilterInv'
<1>1. /\ wpc[w] = "filter"
      /\ UNCHANGED <<input, pc, toProcess, to, length, feasibleNodesLen, feasibleNodes,
                     errCh, cancelled, callerCancelled, found>>
  BY DEF filter
<1>2. ControlInv'
  BY <1>1, BusyControl
<1>3. Slots' = Slots /\ numNodesToFind' = numNodesToFind /\ (Excused' <=> Excused)
  BY <1>1 DEF Slots, numNodesToFind, Excused
<1>4. cancelled' => Excused'
  BY <1>1, <1>3 DEF FilterInv, SkipInv
<1>5. CASE UNCHANGED <<at, result>>
  <2>1. PICK l \in {"count", "send"} :
          /\ wpc' = [wpc EXCEPT ![w] = l]
          /\ l = "count" => input.verdict[nodeOf(at[w])] = "Success"
    <3>1. CASE wpc' = [wpc EXCEPT ![w] = "piece"] /\ at' = [at EXCEPT ![w] = @ + 1]
      <4>1. at[w] \in Int /\ at'[w] = at[w] + 1 /\ at'[w] = at[w]
        BY <1>5, <3>1, StateFacts
      <4> QED BY <4>1
    <3> QED BY <3>1 DEF filter, Goto, NextPiece
  <2>2. at[w] < to[w]
    BY <1>1 DEF FilterInv, PieceInv
  <2>3. /\ PieceInv' /\ wpc'[w] = l
        /\ \A v \in Workers : v # w => wpc'[v] = wpc[v]
        /\ \A v \in Workers : \A i : Owns(v, i) => Owns(v, i)'
    BY <1>1, <1>5, <2>1, <2>2, PieceStay DEF WorkerLabel
  <2>4. TypeOK'
    <3>1. wpc' \in [Workers -> WorkerLabel]
      BY <2>1, StateFacts DEF WorkerLabel
    <3> QED BY <1>1, <1>3, <1>5, <3>1 DEF FilterInv, TypeOK
  <2>5. CountInv'
    BY <1>1, <2>1, <2>3, CountKept
  <2>6. \A i : Settled(i) => Settled(i)'
    BY <1>1, <1>3, <1>5 DEF Settled
  <2>7. SkipInv'
    BY <1>1, <1>3, <1>4, <2>1, <2>3, <2>6, SkipKept
  <2> QED BY <1>2, <2>3, <2>4, <2>5, <2>7 DEF FilterInv
<1>6. CASE NextPiece(w) /\ result' = result \cup {at[w]}
  <2>1. PieceInv'
    BY <1>1, <1>6, PieceAdvance
  <2>2. /\ wpc' \in [Workers -> WorkerLabel] /\ at' \in [Workers -> 0..NumAllNodes]
        /\ at[w] \in Pieces /\ wpc'[w] = "piece"
        /\ \A v \in Workers : v # w => wpc'[v] = wpc[v]
        /\ \A v \in Workers : \A i \in Int : Owns(v, i)' <=> Owns(v, i) /\ ~(v = w /\ i = at[w])
    BY <1>1, <1>6, Advance
  <2>3. TypeOK'
    BY <1>1, <1>3, <1>6, <2>2 DEF FilterInv, TypeOK
  <2>4. CountInv'
    BY <1>1, <2>2, CountKept
  <2>5. \A i : Settled(i) => Settled(i)'
    BY <1>1, <1>3, <1>6 DEF Settled
  <2>6. \A i \in Pieces : i = at[w] => Settled(i)'
    BY <1>6 DEF Settled
  <2>7. Pieces \subseteq Int
    BY StateFacts DEF Pieces
  <2>8. \A i \in Pieces, v \in Workers : Owns(v, i) => Owns(v, i)' \/ Settled(i)'
    BY <2>2, <2>6, <2>7
  <2>9. SkipInv'
    BY <1>1, <1>3, <1>4, <2>2, <2>5, <2>8, SkipKept
  <2> QED BY <1>2, <2>1, <2>3, <2>4, <2>9 DEF FilterInv
<1> QED BY <1>5, <1>6 DEF filter

\* An error excuses every piece skipped later.
LEMMA Step_send ==
  ASSUME FilterInv, NEW w \in Workers, send(w)
  PROVE  FilterInv'
<1>1. /\ wpc[w] = "send" /\ errCh' = TRUE /\ wpc' = [wpc EXCEPT ![w] = "cancel"]
      /\ UNCHANGED <<input, pc, toProcess, at, to, length, feasibleNodesLen, feasibleNodes,
                     result, cancelled, callerCancelled, found>>
  BY DEF send, Goto
<1>2. ControlInv'
  BY <1>1, BusyControl
<1>3. Slots' = Slots /\ numNodesToFind' = numNodesToFind /\ Excused'
  BY <1>1 DEF Slots, numNodesToFind, Excused
<1>4. at[w] < to[w]
  BY <1>1 DEF FilterInv, PieceInv
<1>5. /\ PieceInv' /\ wpc'[w] = "cancel"
      /\ \A v \in Workers : v # w => wpc'[v] = wpc[v]
  BY <1>1, <1>4, PieceStay DEF WorkerLabel
<1>6. TypeOK'
  <2>1. wpc' \in [Workers -> WorkerLabel]
    BY <1>1, StateFacts DEF WorkerLabel
  <2> QED BY <1>1, <1>3, <2>1 DEF FilterInv, TypeOK
<1>7. CountInv'
  BY <1>1, <1>5, CountKept
<1>8. SkipInv'
  BY <1>1, <1>3, <1>5, SkipKept
<1> QED BY <1>2, <1>5, <1>6, <1>7, <1>8 DEF FilterInv

\* The worker that cancels after an error has sent one.
LEMMA Step_cancel ==
  ASSUME FilterInv, NEW w \in Workers, cancel(w)
  PROVE  FilterInv'
<1>1. /\ wpc[w] = "cancel" /\ cancelled' = TRUE /\ NextPiece(w)
      /\ UNCHANGED <<input, pc, toProcess, to, length, feasibleNodesLen, feasibleNodes,
                     result, errCh, callerCancelled, found>>
  BY DEF cancel
<1>2. ControlInv'
  BY <1>1, BusyControl
<1>3. Slots' = Slots /\ numNodesToFind' = numNodesToFind
  BY <1>1 DEF Slots, numNodesToFind
<1>4. errCh /\ Excused'
  BY <1>1 DEF FilterInv, SkipInv, Excused
<1>5. PieceInv'
  BY <1>1, PieceAdvance
<1>6. /\ wpc' \in [Workers -> WorkerLabel] /\ at' \in [Workers -> 0..NumAllNodes]
      /\ wpc'[w] = "piece" /\ \A v \in Workers : v # w => wpc'[v] = wpc[v]
  BY <1>1, Advance
<1>7. TypeOK'
  BY <1>1, <1>3, <1>6 DEF FilterInv, TypeOK
<1>8. CountInv'
  BY <1>1, <1>6, CountKept
<1>9. SkipInv'
  BY <1>1, <1>4, <1>6, SkipKept
<1> QED BY <1>2, <1>5, <1>7, <1>8, <1>9 DEF FilterInv

\* The limit is a fixed number; only workers that overshoot are taken from the count.
LEMMA Step_count ==
  ASSUME FilterInv, NEW w \in Workers, count(w)
  PROVE  FilterInv'
<1> DEFINE more == feasibleNodesLen + 1 > numNodesToFind
           l == IF more THEN "enough" ELSE "store"
<1>1. /\ wpc[w] = "count" /\ feasibleNodesLen' = feasibleNodesLen + 1
      /\ length' = [length EXCEPT ![w] = feasibleNodesLen + 1]
      /\ wpc' = [wpc EXCEPT ![w] = l]
      /\ UNCHANGED <<input, pc, toProcess, at, to, feasibleNodes, result, errCh,
                     cancelled, callerCancelled, found>>
  BY DEF count, Goto
<1>2. ControlInv'
  BY <1>1, BusyControl
<1>3. Slots' = Slots /\ numNodesToFind' = numNodesToFind
  BY <1>1 DEF Slots, numNodesToFind
<1>4. at[w] < to[w] /\ input.verdict[nodeOf(at[w])] = "Success"
  BY <1>1 DEF FilterInv, PieceInv
<1>5. /\ PieceInv' /\ wpc'[w] = l
      /\ \A v \in Workers : v # w => wpc'[v] = wpc[v]
      /\ \A v \in Workers : \A i : Owns(v, i) => Owns(v, i)'
  BY <1>1, <1>4, PieceStay DEF WorkerLabel
<1>6. TypeOK'
  <2>1. wpc' \in [Workers -> WorkerLabel]
    BY <1>1, StateFacts DEF WorkerLabel
  <2>2. feasibleNodesLen' \in Nat /\ length' \in [Workers -> Nat]
    BY <1>1, StateFacts
  <2> QED BY <1>1, <1>3, <2>1, <2>2 DEF FilterInv, TypeOK
<1>7. Excused => Excused'
  BY <1>1, <1>3, StateFacts DEF Excused
<1>8. SkipInv'
  <2>1. \A i : Settled(i) => Settled(i)'
    BY <1>1, <1>3 DEF Settled
  <2>2. cancelled' => Excused'
    BY <1>1, <1>7 DEF FilterInv, SkipInv
  <2> QED BY <1>1, <1>5, <1>7, <2>1, <2>2, SkipKept
<1>9. w \notin Over
  BY <1>1 DEF Over
<1>10. \A v \in Workers : /\ v # w => length'[v] = length[v]
                          /\ v = w => length'[v] = feasibleNodesLen + 1
  BY <1>1, StateFacts
<1>11. CountInv'
  <2>1. CASE more
    <3>1. Over' = Over \cup {w}
      BY <1>5, <2>1 DEF Over
    <3>2. Cardinality(Over') = Cardinality(Over) + 1
      BY <1>9, <3>1, OverFacts, FS_AddElement
    <3>3. Granted' = Granted
      BY <1>1, <3>2, StateFacts, SMTT(30) DEF Granted
    <3>4. Granted = numNodesToFind
      <4>1. CASE Over = {}
        BY <2>1, <4>1, OverFacts, StateFacts
      <4>2. CASE Over # {}
        BY <4>2 DEF FilterInv, CountInv
      <4> QED BY <4>1, <4>2
    <3>5. \A v \in Workers : wpc'[v] = "store" <=> wpc[v] = "store" /\ v # w
      BY <1>1, <1>5, <2>1
    <3>6. \A v \in Workers : wpc'[v] = "store" => length'[v] = length[v]
      BY <1>10, <3>5
    <3>7. \A v \in Workers : wpc[v] = "store" => v # w
      BY <1>1
    <3> QED BY <1>1, <1>3, <3>3, <3>4, <3>5, <3>6, <3>7 DEF FilterInv, CountInv
  <2>2. CASE ~more
    <3>1. feasibleNodesLen < numNodesToFind
      BY <2>2, StateFacts
    <3>2. Over = {} /\ Granted = feasibleNodesLen
      <4>1. Over = {}
        <5>1. Over # {} => Granted = numNodesToFind
          BY DEF FilterInv, CountInv
        <5> QED BY <3>1, <5>1, StateFacts
      <4> QED BY <4>1, OverFacts, StateFacts
    <3>3. Over' = {}
      BY <1>5, <2>2, <3>2 DEF Over
    <3>4. Granted' = Granted + 1 /\ Granted + 1 \in 1..numNodesToFind
      <4>1. Cardinality(Over') = 0
        BY <3>3, FS_EmptySet
      <4>2. feasibleNodesLen \in Nat /\ numNodesToFind \in Nat
        BY StateFacts
      <4>3. Granted' = feasibleNodesLen + 1
        BY <1>1, <4>1, <4>2 DEF Granted
      <4> HIDE DEF more, l
      <4> QED BY <3>1, <3>2, <4>2, <4>3
    <3>5. \A v \in Workers : wpc'[v] = "store" <=> wpc[v] = "store" \/ v = w
      BY <1>5, <2>2
    <3>6. length'[w] = Granted + 1
      BY <1>10, <3>2
    <3>7. \A v \in Workers : v # w /\ wpc[v] = "store" => length[v] \in 1..Granted
      BY DEF FilterInv, CountInv
    <3>8. feasibleNodes[Granted + 1] = None /\ Granted + 1 \in Slots /\ Granted \in Nat
      BY <3>4, StateFacts, SMTT(30) DEF FilterInv, CountInv
    <3>9. \A k \in Slots : k > Granted' => feasibleNodes'[k] = None
      BY <1>1, <3>4, StateFacts, SMTT(30) DEF FilterInv, CountInv
    <3>10. ASSUME NEW k \in Slots, k =< Granted', feasibleNodes'[k] = None
           PROVE  \E v \in Workers : wpc'[v] = "store" /\ length'[v] = k
      <4>1. CASE k = Granted + 1
        BY <3>5, <3>6, <4>1
      <4>2. CASE k # Granted + 1
        <5>1. k =< Granted /\ feasibleNodes[k] = None
          BY <1>1, <3>4, <3>8, <3>10, <4>2, StateFacts, SMTT(30)
        <5>2. PICK v \in Workers : wpc[v] = "store" /\ length[v] = k
          BY <5>1 DEF FilterInv, CountInv
        <5>3. v # w
          BY <1>1, <5>2
        <5> QED BY <1>10, <3>5, <5>2, <5>3
      <4> QED BY <4>1, <4>2
    <3>11. ASSUME NEW v \in Workers, wpc'[v] = "store"
           PROVE  length'[v] \in 1..Granted' /\ feasibleNodes'[length'[v]] = None
      <4>1. CASE v = w
        BY <1>1, <3>4, <3>6, <3>8, <4>1
      <4>2. CASE v # w
        <5>1. wpc[v] = "store" /\ length'[v] = length[v]
          BY <1>10, <3>5, <3>11, <4>2
        <5>2. length[v] \in 1..Granted /\ feasibleNodes[length[v]] = None
          BY <5>1 DEF FilterInv, CountInv
        <5> QED BY <1>1, <3>4, <3>8, <5>1, <5>2
      <4> QED BY <4>1, <4>2
    <3>12. ASSUME NEW u \in Workers, NEW v \in Workers, wpc'[u] = "store",
                  wpc'[v] = "store", length'[u] = length'[v]
           PROVE  u = v
      <4>1. CASE u # w /\ v # w
        BY <1>10, <3>5, <3>12, <4>1 DEF FilterInv, CountInv
      <4>2. CASE u = w /\ v # w
        BY <1>10, <3>5, <3>6, <3>7, <3>8, <3>12, <4>2
      <4>3. CASE v = w /\ u # w
        BY <1>10, <3>5, <3>6, <3>7, <3>8, <3>12, <4>3
      <4> QED BY <4>1, <4>2, <4>3
    <3> QED BY <1>3, <3>3, <3>4, <3>9, <3>10, <3>11, <3>12 DEF CountInv
  <2> QED BY <2>1, <2>2
<1> QED BY <1>2, <1>5, <1>6, <1>8, <1>11 DEF FilterInv

\* A worker writes the slot it was granted, and nobody else does.
LEMMA Step_store ==
  ASSUME FilterInv, NEW w \in Workers, store(w)
  PROVE  FilterInv'
<1> DEFINE s == length[w]
<1>1. /\ wpc[w] = "store" /\ feasibleNodes' = [feasibleNodes EXCEPT ![s] = at[w]] /\ NextPiece(w)
      /\ UNCHANGED <<input, pc, toProcess, to, length, feasibleNodesLen, result, errCh,
                     cancelled, callerCancelled, found>>
  BY DEF store
<1>2. ControlInv'
  BY <1>1, BusyControl
<1>3. Slots' = Slots /\ numNodesToFind' = numNodesToFind /\ (Excused' <=> Excused)
  BY <1>1 DEF Slots, numNodesToFind, Excused
<1>4. /\ s \in 1..Granted /\ feasibleNodes[s] = None
      /\ at[w] < to[w] /\ input.verdict[nodeOf(at[w])] = "Success"
  BY <1>1 DEF FilterInv, CountInv, PieceInv
<1>5. /\ wpc' \in [Workers -> WorkerLabel] /\ at' \in [Workers -> 0..NumAllNodes]
      /\ at[w] \in Pieces /\ at[w] < toProcess /\ Owns(w, at[w]) /\ wpc'[w] = "piece"
      /\ \A v \in Workers : v # w => wpc'[v] = wpc[v] /\ at'[v] = at[v]
      /\ \A v \in Workers : \A i \in Int : Owns(v, i)' <=> Owns(v, i) /\ ~(v = w /\ i = at[w])
      /\ \A v \in Workers :
           /\ to'[v] =< toProcess'
           /\ wpc'[v] \notin {"fetch", "piece", "exited"} => at'[v] < to'[v]
  BY <1>1, Advance
<1>6. s \in Slots
  BY <1>4, StateFacts
<1> HIDE DEF s
<1>7. /\ feasibleNodes'[s] = at[w] /\ at[w] # None
      /\ \A k \in Slots : k # s => feasibleNodes'[k] = feasibleNodes[k]
  BY <1>1, <1>5, <1>6, StateFacts
<1>8. TypeOK'
  <2>1. feasibleNodes' \in [Slots -> Pieces \cup {None}]
    BY <1>1, <1>5, <1>6, StateFacts
  <2> QED BY <1>1, <1>3, <1>5, <2>1 DEF FilterInv, TypeOK
<1>9. CountInv'
  <2>1. Over' = Over
    BY <1>1, <1>5 DEF Over
  <2>2. Granted' = Granted
    BY <1>1, <2>1 DEF Granted
  <2>3. \A v \in Workers : wpc'[v] = "store" <=> wpc[v] = "store" /\ v # w
    BY <1>5
  <2>4. ASSUME NEW k \in Slots, k > Granted PROVE feasibleNodes'[k] = None
    <3>1. Granted \in Nat /\ s \in 1..Granted /\ k \in Int
      BY <1>4, StateFacts
    <3>2. k # s
      BY <2>4, <3>1
    <3>3. feasibleNodes[k] = None
      BY <2>4 DEF FilterInv, CountInv
    <3> QED BY <1>7, <3>2, <3>3
  <2>5. ASSUME NEW k \in Slots, k =< Granted, feasibleNodes'[k] = None
        PROVE  \E v \in Workers : wpc'[v] = "store" /\ length[v] = k
    <3>1. k # s /\ feasibleNodes[k] = None
      BY <1>7, <2>5
    <3>2. PICK v \in Workers : wpc[v] = "store" /\ length[v] = k
      BY <2>5, <3>1 DEF FilterInv, CountInv
    <3>3. v # w
      BY <3>1, <3>2 DEF s
    <3> QED BY <2>3, <3>2, <3>3
  <2>6. ASSUME NEW v \in Workers, wpc'[v] = "store"
        PROVE  length[v] \in 1..Granted /\ feasibleNodes'[length[v]] = None
    <3>1. wpc[v] = "store" /\ v # w
      BY <2>3, <2>6
    <3>2. length[v] \in 1..Granted /\ feasibleNodes[length[v]] = None
      BY <3>1 DEF FilterInv, CountInv
    <3>3. length[v] # s
      BY <1>1, <3>1 DEF FilterInv, CountInv, s
    <3>4. length[v] \in Slots
      BY <3>2, StateFacts
    <3> QED BY <1>7, <3>2, <3>3, <3>4
  <2> QED BY <1>1, <1>3, <2>1, <2>2, <2>3, <2>4, <2>5, <2>6 DEF FilterInv, CountInv
<1>10. Pieces \subseteq Int
  BY StateFacts DEF Pieces
<1>11. PieceInv'
  <2>1. \A v \in Workers :
          wpc'[v] \in {"count", "store"} => input.verdict[nodeOf(at'[v])] = "Success"
    BY <1>5 DEF FilterInv, PieceInv
  <2>2. \A u, v \in Workers, i \in Pieces : Owns(u, i)' /\ Owns(v, i)' => u = v
    BY <1>5, <1>10 DEF FilterInv, PieceInv
  <2>3. ASSUME NEW k \in Slots, feasibleNodes'[k] # None
        PROVE  /\ feasibleNodes'[k] < toProcess
               /\ input.verdict[nodeOf(feasibleNodes'[k])] = "Success"
               /\ \A v \in Workers : \A i \in Int : i = feasibleNodes'[k] => ~(Owns(v, i)')
    <3>1. CASE k = s
      <4>1. \A v \in Workers : Owns(v, at[w]) => v = w
        BY <1>5 DEF FilterInv, PieceInv
      <4> QED BY <1>4, <1>5, <1>7, <3>1, <4>1
    <3>2. CASE k # s
      <4>1. feasibleNodes'[k] = feasibleNodes[k] /\ feasibleNodes[k] # None
        BY <1>7, <2>3, <3>2
      <4>2. /\ feasibleNodes[k] < toProcess
            /\ input.verdict[nodeOf(feasibleNodes[k])] = "Success"
            /\ \A v \in Workers : ~Owns(v, feasibleNodes[k])
        BY <4>1 DEF FilterInv, PieceInv
      <4> QED BY <1>5, <4>1, <4>2
    <3> QED BY <3>1, <3>2
  <2>4. \A k \in Slots : feasibleNodes'[k] # None => feasibleNodes'[k] \in Int
    BY <1>8, <1>3, <1>10 DEF TypeOK
  <2>5. ASSUME NEW k \in Slots, NEW j \in Slots, feasibleNodes'[k] # None,
               feasibleNodes'[k] = feasibleNodes'[j]
        PROVE  k = j
    <3>1. \A m \in Slots : feasibleNodes[m] # at[w]
      BY <1>5, <1>7 DEF FilterInv, PieceInv
    <3>2. CASE k # s /\ j # s
      BY <1>7, <2>5, <3>2 DEF FilterInv, PieceInv
    <3>3. CASE k = s /\ j # s
      BY <1>7, <2>5, <3>1, <3>3
    <3>4. CASE j = s /\ k # s
      BY <1>7, <2>5, <3>1, <3>4
    <3> QED BY <3>2, <3>3, <3>4
  <2>6. \A k \in Slots : feasibleNodes'[k] # None =>
          \A v \in Workers : ~(Owns(v, feasibleNodes[k])')
    BY <2>3, <2>4 DEF Owns
  <2> QED BY <1>1, <1>3, <1>5, <2>1, <2>2, <2>3, <2>5, <2>6 DEF PieceInv, nodeOf
<1>12. SkipInv'
  <2>1. \A i \in Pieces : i = at[w] => Settled(i)'
    BY <1>3, <1>6, <1>7 DEF Settled
  <2>2. \A i \in Pieces : Settled(i) => Settled(i)'
    <3>1. \A k \in Slots, i \in Pieces : feasibleNodes[k] = i => feasibleNodes'[k] = i
      BY <1>4, <1>7, StateFacts
    <3> QED BY <1>1, <1>3, <3>1 DEF Settled
  <2>3. \A i \in Pieces, v \in Workers : Owns(v, i) => Owns(v, i)' \/ Settled(i)'
    BY <1>5, <1>10, <2>1
  <2>4. cancelled' => Excused'
    BY <1>1, <1>3 DEF FilterInv, SkipInv
  <2> QED BY <1>1, <1>3, <1>5, <2>2, <2>3, <2>4, SkipKept
<1> QED BY <1>2, <1>8, <1>9, <1>11, <1>12 DEF FilterInv

\* A worker that overshot cancels only when all slots are granted.
LEMMA Step_enough ==
  ASSUME FilterInv, NEW w \in Workers, enough(w)
  PROVE  FilterInv'
<1>1. /\ wpc[w] = "enough" /\ cancelled' = TRUE /\ wpc' = [wpc EXCEPT ![w] = "uncount"]
      /\ UNCHANGED <<input, pc, toProcess, at, to, length, feasibleNodesLen, feasibleNodes,
                     result, errCh, callerCancelled, found>>
  BY DEF enough, Goto
<1>2. ControlInv'
  BY <1>1, BusyControl
<1>3. Slots' = Slots /\ numNodesToFind' = numNodesToFind
  BY <1>1 DEF Slots, numNodesToFind
<1>4. at[w] < to[w]
  BY <1>1 DEF FilterInv, PieceInv
<1>5. /\ PieceInv' /\ wpc'[w] = "uncount"
      /\ \A v \in Workers : v # w => wpc'[v] = wpc[v]
  BY <1>1, <1>4, PieceStay DEF WorkerLabel
<1>6. TypeOK'
  <2>1. wpc' \in [Workers -> WorkerLabel]
    BY <1>1, StateFacts DEF WorkerLabel
  <2> QED BY <1>1, <1>3, <2>1 DEF FilterInv, TypeOK
<1>7. Over' = Over /\ w \in Over
  BY <1>1, <1>5 DEF Over
<1>8. CountInv'
  <2>1. Granted' = Granted
    BY <1>1, <1>7 DEF Granted
  <2>2. \A v \in Workers : wpc'[v] = "store" <=> wpc[v] = "store"
    BY <1>1, <1>5
  <2> QED BY <1>1, <1>3, <1>7, <2>1, <2>2 DEF FilterInv, CountInv
<1>9. Excused'
  <2>1. Granted = numNodesToFind
    BY <1>7 DEF FilterInv, CountInv
  <2> QED BY <1>1, <1>3, <2>1, StateFacts DEF Excused
<1>10. SkipInv'
  BY <1>1, <1>5, <1>9, SkipKept
<1> QED BY <1>2, <1>5, <1>6, <1>8, <1>10 DEF FilterInv

\* The count that is taken back is the worker's own: the granted slots stay.
LEMMA Step_uncount ==
  ASSUME FilterInv, NEW w \in Workers, uncount(w)
  PROVE  FilterInv' /\ feasibleNodesLen' >= numNodesToFind
<1>1. /\ wpc[w] = "uncount" /\ feasibleNodesLen' = feasibleNodesLen - 1 /\ NextPiece(w)
      /\ UNCHANGED <<input, pc, toProcess, to, length, feasibleNodes, result, errCh,
                     cancelled, callerCancelled, found>>
  BY DEF uncount
<1>2. ControlInv'
  BY <1>1, BusyControl
<1>3. Slots' = Slots /\ numNodesToFind' = numNodesToFind
  BY <1>1 DEF Slots, numNodesToFind
<1>4. PieceInv'
  BY <1>1, PieceAdvance
<1>5. /\ wpc' \in [Workers -> WorkerLabel] /\ at' \in [Workers -> 0..NumAllNodes]
      /\ wpc'[w] = "piece" /\ \A v \in Workers : v # w => wpc'[v] = wpc[v]
  BY <1>1, Advance
<1>6. Over' = Over \ {w} /\ w \in Over
  BY <1>1, <1>5 DEF Over
<1>7. Cardinality(Over') = Cardinality(Over) - 1 /\ Cardinality(Over') \in Nat
  <2>1. IsFiniteSet(Over \ {w}) /\ Cardinality(Over \ {w}) = Cardinality(Over) - 1
    BY <1>6, OverFacts, FS_RemoveElement
  <2>2. Cardinality(Over \ {w}) \in Nat
    BY <2>1, FS_CardinalityType
  <2> QED BY <1>6, <2>1, <2>2
<1>8. Granted' = Granted /\ Granted = numNodesToFind
  <2>1. Granted = numNodesToFind
    BY <1>6 DEF FilterInv, CountInv
  <2>2. Granted' = (feasibleNodesLen - 1) - (Cardinality(Over) - 1)
    BY <1>1, <1>7 DEF Granted
  <2> QED BY <2>1, <2>2, StateFacts
<1>9. feasibleNodesLen' \in Nat /\ feasibleNodesLen' >= numNodesToFind
  <2>1. feasibleNodesLen' = Granted + Cardinality(Over')
    BY <1>1, <1>7, StateFacts
  <2> QED BY <1>7, <1>8, <2>1, StateFacts
<1>10. TypeOK'
  BY <1>1, <1>3, <1>5, <1>9 DEF FilterInv, TypeOK
<1>11. CountInv'
  <2>1. \A v \in Workers : wpc'[v] = "store" <=> wpc[v] = "store"
    BY <1>1, <1>5
  <2> QED BY <1>1, <1>3, <1>8, <2>1 DEF FilterInv, CountInv
<1>12. SkipInv'
  <2>1. Excused'
    BY <1>3, <1>9 DEF Excused
  <2> QED BY <1>1, <1>5, <2>1, SkipKept
<1> QED BY <1>2, <1>4, <1>9, <1>10, <1>11, <1>12 DEF FilterInv

\* The calling goroutine's steps, and the caller giving up.
LEMMA Step_Caller ==
  ASSUME FilterInv, Caller
  PROVE  FilterInv'
<1>1. /\ UNCHANGED <<input, toProcess, wpc, at, to, length, feasibleNodesLen, feasibleNodes,
                     result, errCh, cancelled, callerCancelled>>
      /\ pc' \in {"until", "done"}
  BY DEF Caller, noFilterPlugins, until, return, shared
<1>2. Slots' = Slots /\ numNodesToFind' = numNodesToFind
  BY <1>1 DEF Slots, numNodesToFind
<1>3. TypeOK'
  BY <1>1, <1>2 DEF FilterInv, TypeOK
<1>4. CountInv'
  BY <1>1, CountKept
<1>5. PieceInv'
  BY <1>1, <1>2 DEF FilterInv, PieceInv, Owns, nodeOf
<1>6. SkipInv'
  BY <1>1, <1>2 DEF FilterInv, SkipInv, Owns, Excused, Settled
<1>7. ControlInv'
  <2>1. CASE noFilterPlugins \/ until
    BY <1>1, <2>1 DEF noFilterPlugins, until, FilterInv, ControlInv
  <2>2. CASE return
    BY <1>1, <2>2 DEF return, ControlInv, nodeOf
  <2> QED BY <2>1, <2>2 DEF Caller
<1> QED BY <1>3, <1>4, <1>5, <1>6, <1>7 DEF FilterInv

\* The caller giving up excuses every piece skipped later.
LEMMA Step_CallerCancels ==
  ASSUME FilterInv, CallerCancels
  PROVE  FilterInv'
<1>1. /\ UNCHANGED <<input, pc, toProcess, wpc, at, to, length, feasibleNodesLen,
                     feasibleNodes, result, errCh, found>>
      /\ pc = "until" /\ callerCancelled' = TRUE /\ cancelled' = TRUE
  BY DEF CallerCancels
<1>2. Slots' = Slots /\ numNodesToFind' = numNodesToFind
  BY <1>1 DEF Slots, numNodesToFind
<1>3. TypeOK'
  BY <1>1, <1>2 DEF FilterInv, TypeOK
<1>4. CountInv'
  BY <1>1, CountKept
<1>5. PieceInv'
  BY <1>1, <1>2 DEF FilterInv, PieceInv, Owns, nodeOf
<1>6. SkipInv'
  BY <1>1, <1>2 DEF FilterInv, SkipInv, Excused
<1>7. ControlInv'
  BY <1>1 DEF ControlInv
<1> QED BY <1>3, <1>4, <1>5, <1>6, <1>7 DEF FilterInv

\* Every step preserves the invariant of the search.
LEMMA FilterNext ==
  ASSUME FilterInv, [Next]_vars
  PROVE  FilterInv'
<1>1. CASE UNCHANGED vars
  <2>1. UNCHANGED <<input, pc, toProcess, wpc, at, to, length, feasibleNodesLen,
                    feasibleNodes, result, errCh, cancelled, callerCancelled, found>>
    BY <1>1 DEF vars, shared
  <2>2. Slots' = Slots /\ numNodesToFind' = numNodesToFind
    BY <2>1 DEF Slots, numNodesToFind
  <2>3. TypeOK' /\ ControlInv'
    BY <2>1, <2>2 DEF FilterInv, TypeOK, ControlInv, nodeOf
  <2>4. CountInv'
    BY <2>1, CountKept
  <2>5. PieceInv' /\ SkipInv'
    BY <2>1, <2>2 DEF FilterInv, PieceInv, SkipInv, Owns, nodeOf, Excused, Settled
  <2> QED BY <2>3, <2>4, <2>5 DEF FilterInv
<1>2. ASSUME NEW w \in Workers, Worker(w) PROVE FilterInv'
  BY <1>2, Step_fetch, Step_piece, Step_filter, Step_count, Step_store, Step_enough,
     Step_uncount, Step_send, Step_cancel DEF Worker
<1> QED BY <1>1, <1>2, Step_Caller, Step_CallerCancels DEF Next

\* The inductive invariant holds in every reachable state.
THEOREM FilterInvHolds == Spec => []FilterInv
<1>1. Init => FilterInv
  BY FilterInit
<1>2. FilterInv /\ [Next]_vars => FilterInv'
  BY FilterNext
<1> QED BY <1>1, <1>2, PTL DEF Spec

\* When the call is over nobody overshoots, so the counter is the number of
\* granted slots and each of them has been written.
LEMMA DoneFacts ==
  ASSUME FilterInv, pc = "done", input.hasFilterPlugins
  PROVE  /\ \A w \in Workers : wpc[w] = "exited"
         /\ feasibleNodesLen \in Nat /\ feasibleNodesLen =< numNodesToFind
         /\ DOMAIN found = 1..feasibleNodesLen /\ Len(found) = feasibleNodesLen
         /\ \A k \in 1..feasibleNodesLen :
              /\ k \in Slots /\ feasibleNodes[k] \in Pieces
              /\ found[k] = nodeOf(feasibleNodes[k])
         /\ \A k \in Slots : feasibleNodes[k] # None => k \in 1..feasibleNodesLen
<1>1. /\ \A w \in Workers : wpc[w] = "exited"
      /\ found = [k \in 1..feasibleNodesLen |->
                    IF feasibleNodes[k] = None THEN None ELSE nodeOf(feasibleNodes[k])]
  BY DEF FilterInv, ControlInv
<1>2. feasibleNodesLen = Granted
  <2>1. Over = {}
    BY <1>1 DEF Over
  <2> QED BY <2>1, OverFacts, StateFacts
<1>3. feasibleNodesLen \in Nat /\ feasibleNodesLen =< numNodesToFind
  BY <1>2, StateFacts
<1>4. DOMAIN found = 1..feasibleNodesLen /\ Len(found) = feasibleNodesLen
  <2>1. DOMAIN found = 1..feasibleNodesLen
    BY <1>1
  <2> DEFINE S == {found[k] : k \in 1..feasibleNodesLen}
  <2>2. found \in [1..feasibleNodesLen -> S]
    BY <1>1
  <2> HIDE DEF S
  <2>3. found \in Seq(S)
    BY <1>3, <2>2
  <2>4. Len(found) \in Nat /\ DOMAIN found = 1..Len(found)
    BY <2>3
  <2> QED BY <1>3, <2>1, <2>4
<1>5. ASSUME NEW k \in 1..feasibleNodesLen
      PROVE  /\ k \in Slots /\ feasibleNodes[k] \in Pieces
             /\ found[k] = nodeOf(feasibleNodes[k])
  <2>1. k \in Slots /\ k =< Granted
    BY <1>2, <1>3, StateFacts
  <2>2. feasibleNodes[k] # None
    BY <1>1, <2>1 DEF FilterInv, CountInv
  <2>3. feasibleNodes[k] \in Pieces
    BY <2>1, <2>2, StateFacts
  <2> QED BY <1>1, <2>1, <2>2, <2>3
<1>6. ASSUME NEW k \in Slots, feasibleNodes[k] # None PROVE k \in 1..feasibleNodesLen
  <2>1. ~(k > Granted)
    BY <1>6 DEF FilterInv, CountInv
  <2> QED BY <1>2, <1>3, <2>1, StateFacts
<1> QED BY <1>1, <1>3, <1>4, <1>5, <1>6

\* However the workers interleave, the search returns no nil node, no node twice,
\* no node the filters rejected and no more nodes than asked for.
THEOREM FilterResultSound == Spec => []ResultSound
<1>1. FilterInv => ResultSound
  <2> SUFFICES ASSUME FilterInv, pc = "done", input.hasFilterPlugins
               PROVE  /\ Len(found) =< numNodesToFind
                      /\ \A k \in DOMAIN found :
                           found[k] # None /\ input.verdict[found[k]] = "Success"
                      /\ \A k, l \in DOMAIN found : found[k] = found[l] => k = l
    BY DEF ResultSound
  <2>1. ASSUME NEW k \in DOMAIN found
        PROVE  found[k] # None /\ input.verdict[found[k]] = "Success"
    <3>1. k \in Slots /\ feasibleNodes[k] \in Pieces /\ found[k] = nodeOf(feasibleNodes[k])
      BY DoneFacts
    <3>2. found[k] \in Pieces /\ None \notin Pieces
      BY <3>1, NodeOfFacts, StateFacts
    <3>3. feasibleNodes[k] # None
      BY <3>1, <3>2
    <3> QED BY <3>1, <3>2, <3>3 DEF FilterInv, PieceInv
  <2>2. ASSUME NEW k \in DOMAIN found, NEW l \in DOMAIN found, found[k] = found[l]
        PROVE  k = l
    <3>1. /\ k \in Slots /\ feasibleNodes[k] \in Pieces /\ found[k] = nodeOf(feasibleNodes[k])
          /\ l \in Slots /\ feasibleNodes[l] \in Pieces /\ found[l] = nodeOf(feasibleNodes[l])
      BY DoneFacts
    <3>2. feasibleNodes[k] = feasibleNodes[l] /\ feasibleNodes[k] # None
      BY <2>2, <3>1, NodeOfFacts, StateFacts
    <3> QED BY <3>1, <3>2 DEF FilterInv, PieceInv
  <2> QED BY <2>1, <2>2, DoneFacts
<1> QED BY <1>1, FilterInvHolds, PTL

\* A search that comes back short, without an error and without its caller having
\* given up, has looked at every node.
THEOREM FilterSearchComplete == Spec => []SearchComplete
<1>1. FilterInv => SearchComplete
  <2> SUFFICES ASSUME FilterInv, pc = "done", input.hasFilterPlugins, ~errCh,
                      ~callerCancelled, Len(found) < numNodesToFind, NEW i \in Pieces
               PROVE  i \in result \/ \E k \in DOMAIN found : found[k] = nodeOf(i)
    BY DEF SearchComplete
  <2>1. ~Excused
    BY DoneFacts, StateFacts DEF Excused
  <2>2. PICK w \in Workers : TRUE
    BY ParallelFilterAssumption
  <2>3. toProcess >= NumAllNodes
    BY <2>1, DoneFacts DEF FilterInv, SkipInv
  <2>4. Settled(i)
    BY <2>1, DoneFacts DEF FilterInv, SkipInv, Owns
  <2>5. ~(i >= toProcess)
    BY <2>3, StateFacts DEF Pieces
  <2>6. CASE \E k \in Slots : feasibleNodes[k] = i
    <3>1. PICK k \in Slots : feasibleNodes[k] = i
      BY <2>6
    <3>2. k \in DOMAIN found
      BY <3>1, DoneFacts, StateFacts
    <3> QED BY <3>1, <3>2, DoneFacts
  <2> QED BY <2>4, <2>5, <2>6 DEF Settled
<1> QED BY <1>1, FilterInvHolds, PTL

\* The counter never falls below the limit once it has reached it.
THEOREM CounterStaysAtLimit == Spec => LimitStays
<1> DEFINE A == feasibleNodesLen >= numNodesToFind => feasibleNodesLen' >= numNodesToFind
<1>1. FilterInv /\ [Next]_vars => [A]_vars
  <2> SUFFICES ASSUME FilterInv, Next, feasibleNodesLen >= numNodesToFind
               PROVE  feasibleNodesLen' >= numNodesToFind
    OBVIOUS
  <2>1. CASE Caller \/ CallerCancels
    BY <2>1 DEF Caller, noFilterPlugins, until, return, CallerCancels, shared
  <2>2. ASSUME NEW w \in Workers, Worker(w) PROVE feasibleNodesLen' >= numNodesToFind
    <3>1. CASE uncount(w)
      BY <3>1, Step_uncount
    <3>2. CASE count(w)
      BY <3>2, StateFacts DEF count
    <3>3. CASE ~uncount(w) /\ ~count(w)
      BY <2>2, <3>3 DEF Worker, fetch, piece, filter, store, enough, send, cancel, shared
    <3> QED BY <3>1, <3>2, <3>3
  <2> QED BY <2>1, <2>2 DEF Next
<1>2. FilterInv /\ [Next]_vars => FilterInv'
  BY FilterNext
<1>3. Spec => [][A]_vars
  <2> HIDE DEF A
  <2> QED BY <1>1, <1>2, FilterInit, PTL DEF Spec
<1> QED BY <1>3 DEF LimitStays

\* No worker writes to a slot that has been written: a slot is granted to one worker.
THEOREM SlotsAreWrittenOnce == Spec => SlotsWrittenOnce
<1> DEFINE A == \A k \in Slots : feasibleNodes[k] # None => feasibleNodes'[k] = feasibleNodes[k]
<1>1. FilterInv /\ [Next]_vars => [A]_vars
  <2> SUFFICES ASSUME FilterInv, Next, NEW k \in Slots, feasibleNodes[k] # None
               PROVE  feasibleNodes'[k] = feasibleNodes[k]
    OBVIOUS
  <2>1. CASE Caller \/ CallerCancels
    BY <2>1 DEF Caller, noFilterPlugins, until, return, CallerCancels, shared
  <2>2. ASSUME NEW w \in Workers, Worker(w) PROVE feasibleNodes'[k] = feasibleNodes[k]
    <3>1. CASE store(w)
      <4>1. length[w] # k /\ feasibleNodes' = [feasibleNodes EXCEPT ![length[w]] = at[w]]
        BY <3>1 DEF store, FilterInv, CountInv
      <4> QED BY <4>1, StateFacts
    <3>2. CASE ~store(w)
      BY <2>2, <3>2 DEF Worker, fetch, piece, filter, count, enough, uncount, send, cancel, shared
    <3> QED BY <3>1, <3>2
  <2> QED BY <2>1, <2>2 DEF Next
<1>2. FilterInv /\ [Next]_vars => FilterInv'
  BY FilterNext
<1>3. Spec => [][A]_vars
  <2> HIDE DEF A
  <2> QED BY <1>1, <1>2, FilterInit, PTL DEF Spec
<1> QED BY <1>3 DEF SlotsWrittenOnce

\* Only rejected nodes get a rejection in the diagnosis.
LEMMA RejectionsSound == Spec => []RejectInv
<1>1. Init => RejectInv
  BY DEF Init, RejectInv
<1>2. FilterInv /\ RejectInv /\ [Next]_vars => RejectInv'
  <2> SUFFICES ASSUME FilterInv, RejectInv, [Next]_vars PROVE RejectInv'
    OBVIOUS
  <2>1. CASE Caller \/ CallerCancels \/ UNCHANGED vars
    BY <2>1 DEF Caller, noFilterPlugins, until, return, CallerCancels, shared, vars,
                RejectInv, nodeOf
  <2>2. ASSUME NEW w \in Workers, Worker(w) PROVE RejectInv'
    <3>1. CASE filter(w)
      <4>1. input' = input /\ input \in Inputs /\ at[w] \in Pieces
        <5>1. wpc[w] = "filter" /\ input' = input
          BY <3>1 DEF filter
        <5>2. at[w] < to[w] /\ to[w] \in 0..NumAllNodes /\ at[w] \in 0..NumAllNodes
          BY <5>1, StateFacts DEF FilterInv, PieceInv
        <5>3. at[w] \in Pieces
          BY <5>2, StateFacts DEF Pieces
        <5> QED BY <5>1, <5>3, StateFacts
      <4>2. \/ result' = result
            \/ /\ result' = result \cup {at[w]}
               /\ input.verdict[nodeOf(at[w])] = "Unschedulable"
        BY <3>1 DEF filter
      <4> QED BY <4>1, <4>2 DEF RejectInv, nodeOf
    <3>2. CASE ~filter(w)
      <4>1. result' = result /\ input' = input
        BY <2>2, <3>2 DEF Worker, fetch, piece, count, store, enough, uncount, send, cancel,
                          shared
      <4> QED BY <4>1 DEF RejectInv, nodeOf
    <3> QED BY <3>1, <3>2
  <2> QED BY <2>1, <2>2 DEF Next
<1> QED BY <1>1, <1>2, FilterInvHolds, PTL DEF Spec

\* A slice without repetitions has as many nodes as entries.
LEMMA FoundNodes ==
  ASSUME FilterInv, ResultSound, pc = "done", input.hasFilterPlugins
  PROVE  /\ Len(found) \in Nat /\ DOMAIN found = 1..Len(found)
         /\ Cardinality({found[k] : k \in DOMAIN found}) = Len(found)
<1> DEFINE F == {found[k] : k \in DOMAIN found}
<1>1. Len(found) \in Nat /\ DOMAIN found = 1..Len(found)
  BY DoneFacts
<1>2. IsFiniteSet(1..Len(found)) /\ Cardinality(1..Len(found)) = Len(found)
  <2>1. 1 \in Int /\ Len(found) \in Int
    BY <1>1
  <2>2. Cardinality(1..Len(found)) = IF 1 > Len(found) THEN 0 ELSE Len(found) - 1 + 1
    BY <2>1, FS_Interval
  <2> QED BY <1>1, <2>1, <2>2, FS_Interval
<1> DEFINE f == [k \in 1..Len(found) |-> found[k]]
<1>3. f \in Bijection(1..Len(found), F)
  <2>1. f \in [1..Len(found) -> F] /\ \A y \in F : \E k \in 1..Len(found) : f[k] = y
    BY <1>1
  <2>2. \A k, l \in 1..Len(found) : f[k] = f[l] => k = l
    BY <1>1 DEF ResultSound
  <2> QED BY <2>1, <2>2 DEF Bijection, Injection, Surjection, IsInjective
<1>4. Cardinality(F) = Len(found)
  <2> HIDE DEF f, F
  <2> QED BY <1>2, <1>3, FS_Bijection DEF ExistsBijection
<1> QED BY <1>1, <1>4

\* Every search ends in one of the outcomes that callers rely on.
THEOREM SearchMeetsContract == Spec => []MeetsContract
<1>1. FilterInv /\ ResultSound /\ SearchComplete /\ RejectInv => MeetsContract
  <2> SUFFICES ASSUME FilterInv, ResultSound, SearchComplete, RejectInv,
                      pc = "done", input.hasFilterPlugins
               PROVE  [found |-> {found[k] : k \in DOMAIN found},
                       rejected |-> {nodeOf(i) : i \in result},
                       error |-> errCh, interrupted |-> callerCancelled]
                        \in Outcomes(Pieces, input.verdict, numNodesToFind)
    BY DEF MeetsContract
  <2> DEFINE F == {found[k] : k \in DOMAIN found}
             R == {nodeOf(i) : i \in result}
  <2>1. F \subseteq {n \in Pieces : input.verdict[n] = "Success"}
    BY DoneFacts, NodeOfFacts DEF ResultSound
  <2>2. R \subseteq {n \in Pieces : input.verdict[n] = "Unschedulable"}
    BY NodeOfFacts DEF RejectInv, FilterInv, TypeOK
  <2>3. Cardinality(F) = Len(found) /\ Len(found) \in Nat /\ Len(found) =< numNodesToFind
    BY FoundNodes DEF ResultSound
  <2>4. errCh \in BOOLEAN /\ callerCancelled \in BOOLEAN /\ numNodesToFind \in Nat
    BY StateFacts
  <2>5. errCh \/ callerCancelled \/ Cardinality(F) = numNodesToFind \/ F \cup R = Pieces
    <3> SUFFICES ASSUME ~errCh, ~callerCancelled, Len(found) < numNodesToFind
                 PROVE  Pieces \subseteq F \cup R
      BY <2>1, <2>2, <2>3, <2>4
    <3>1. \A i \in Pieces : nodeOf(i) \in F \cup R
      BY DEF SearchComplete
    <3>2. \A n \in Pieces : \E i \in Pieces : nodeOf(i) = n
      BY NodeOfOnto
    <3> QED BY <3>1, <3>2
  <2> HIDE DEF F, R
  <2>6. [found |-> F, rejected |-> R, error |-> errCh, interrupted |-> callerCancelled]
          \in Outcomes(Pieces, input.verdict, numNodesToFind)
    <3>1. Pieces # {}
      BY ParallelFilterAssumption DEF Pieces
    <3> QED BY <2>1, <2>2, <2>3, <2>4, <2>5, <3>1 DEF Outcomes
  <2> QED BY <2>6 DEF F, R
<1> QED BY <1>1, FilterInvHolds, FilterResultSound, FilterSearchComplete, RejectionsSound, PTL
================================================================================
