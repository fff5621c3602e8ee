--------------------------------- MODULE SetSums --------------------------------
(***************************************************************************)
(* Sums over finite sets (SumFunctionOnSet of Functions): what loads of    *)
(* nodes and totals of scores are computed with.                           *)
(***************************************************************************)
EXTENDS Integers, FiniteSets, Functions, FiniteSetTheorems, WellFoundedInduction, TLAPS

\* A family of subsets of a finite set that contains each set all of whose smaller
\* subsets it contains, contains them all.
LEMMA SubsetInduction ==
  ASSUME NEW S, IsFiniteSet(S), NEW Q,
         \A T \in SUBSET S : (\A U \in SUBSET T : U # T => U \in Q) => T \in Q
  PROVE  \A T \in SUBSET S : T \in Q
<1> DEFINE Bad == {T \in SUBSET S : T \notin Q}
<1> SUFFICES ASSUME Bad # {} PROVE FALSE
  OBVIOUS
<1>1. IsWellFoundedOn(StrictSubsetOrdering(S), SUBSET S)
  <2>1. IsWellFoundedOn(StrictSubsetOrdering(S), FiniteSubsetsOf(S))
    BY FS_StrictSubsetOrderingWellFounded, Zenon
  <2>2. FiniteSubsetsOf(S) = SUBSET S
    BY FS_FiniteSubsetsOfFinite, Zenon
  <2> QED BY <2>1, <2>2, Zenon
<1>2. Bad \subseteq SUBSET S
  OBVIOUS
<1> HIDE DEF Bad
<1>3. PICK T \in Bad : \A U \in Bad : ~(<<U, T>> \in StrictSubsetOrdering(S))
  BY <1>1, <1>2, WFMin
<1>4. ASSUME NEW U \in SUBSET T, U # T PROVE U \in Q
  <2>1. T \in SUBSET S /\ U \in SUBSET S
    BY <1>2, <1>3
  <2>2. <<U, T>> \in StrictSubsetOrdering(S)
    BY <1>4, <2>1 DEF StrictSubsetOrdering
  <2> QED BY <1>3, <2>1, <2>2 DEF Bad
<1> QED BY <1>2, <1>3, <1>4 DEF Bad

--------------------------------------------------------------------------------
(* The sum is well defined                                                 *)

\* The element a fold takes next.
Pick(s) == CHOOSE x \in s : TRUE

\* g computes the sums of the subsets of S.
Sums(g, f, S) ==
  g = [s \in SUBSET S |-> IF s = {} THEN 0 ELSE f[Pick(s)] + g[s \ {Pick(s)}]]

\* SumFunctionOnSet is the value of such a function.
LEMMA SumUnfold ==
  ASSUME NEW f, NEW S
  PROVE  SumFunctionOnSet(f, S) = (CHOOSE g : Sums(g, f, S))[S]
BY DEF SumFunctionOnSet, FoldFunctionOnSet, MapThenFoldSet, Sums, Pick

\* What it says of one subset.
LEMMA SumsValue ==
  ASSUME NEW f, NEW S, NEW g, Sums(g, f, S), NEW T \in SUBSET S
  PROVE  /\ T = {} => g[T] = 0
         /\ T # {} => /\ Pick(T) \in T /\ T \ {Pick(T)} \in SUBSET S
                      /\ g[T] = f[Pick(T)] + g[T \ {Pick(T)}]
<1>1. T # {} => Pick(T) \in T
  BY DEF Pick
<1> HIDE DEF Pick
<1> QED BY <1>1 DEF Sums

\* All functions that compute sums agree where they are defined.
LEMMA SumsAgree ==
  ASSUME NEW f, NEW A, NEW B, NEW g, NEW h, Sums(g, f, A), Sums(h, f, B),
         NEW S, IsFiniteSet(S), S \subseteq A, S \subseteq B
  PROVE  \A T \in SUBSET S : g[T] = h[T]
<1> DEFINE Q == {T \in SUBSET S : g[T] = h[T]}
<1>1. ASSUME NEW T \in SUBSET S, \A U \in SUBSET T : U # T => U \in Q
      PROVE  T \in Q
  <2>1. T \in SUBSET A /\ T \in SUBSET B
    OBVIOUS
  <2>2. CASE T = {}
    <3>1. g[T] = 0 /\ h[T] = 0
      BY <2>1, <2>2, SumsValue, Zenon
    <3> QED BY <3>1
  <2>3. CASE T # {}
    <3>1. /\ Pick(T) \in T
          /\ g[T] = f[Pick(T)] + g[T \ {Pick(T)}]
          /\ h[T] = f[Pick(T)] + h[T \ {Pick(T)}]
      BY <2>1, <2>3, SumsValue
    <3>2. T \ {Pick(T)} \in Q
      BY <1>1, <3>1
    <3> QED BY <3>1, <3>2
  <2> QED BY <2>2, <2>3
<1> HIDE DEF Q
<1>2. \A T \in SUBSET S : T \in Q
  BY <1>1, SubsetInduction
<1> QED BY <1>2 DEF Q

\* Every finite set has one: the function for a set is put together from those for
\* its smaller subsets.
LEMMA SumsExist ==
  ASSUME NEW f, NEW S, IsFiniteSet(S)
  PROVE  \E g : Sums(g, f, S)
<1> DEFINE Q == {T \in SUBSET S : \E g : Sums(g, f, T)}
<1>1. ASSUME NEW T \in SUBSET S, \A U \in SUBSET T : U # T => U \in Q
      PROVE  T \in Q
  <2> DEFINE G(U) == CHOOSE g : Sums(g, f, U)
             val(U) == IF U = {} THEN 0 ELSE f[Pick(U)] + G(U \ {Pick(U)})[U \ {Pick(U)}]
             new == [U \in SUBSET T |-> val(U)]
  <2>1. ASSUME NEW U \in SUBSET T, U # T PROVE Sums(G(U), f, U)
    BY <1>1, <2>1
  <2>2. ASSUME NEW U \in SUBSET T, U # T PROVE val(U) = G(U)[U]
    <3>1. IsFiniteSet(U) /\ U \in SUBSET U
      BY FS_Subset
    <3>2. CASE U = {}
      BY <2>1, <2>2, <3>1, <3>2, SumsValue
    <3>3. CASE U # {}
      <4> DEFINE V == U \ {Pick(U)}
      <4>1. /\ Pick(U) \in U
            /\ G(U)[U] = f[Pick(U)] + G(U)[V]
        BY <2>1, <2>2, <3>1, <3>3, SumsValue
      <4>2. V \in SUBSET T /\ V # T /\ V \subseteq U /\ V \in SUBSET V /\ IsFiniteSet(V)
        BY <3>1, <4>1, FS_Subset
      <4>3. Sums(G(V), f, V) /\ Sums(G(U), f, U)
        BY <2>1, <2>2, <4>2
      <4>4. G(U)[V] = G(V)[V]
        <5> HIDE DEF G, V
        <5> QED BY <4>2, <4>3, SumsAgree
      <4> QED BY <3>3, <4>1, <4>4
    <3> QED BY <3>2, <3>3
  <2>3. ASSUME NEW U \in SUBSET T
        PROVE  new[U] = IF U = {} THEN 0 ELSE f[Pick(U)] + new[U \ {Pick(U)}]
    <3>1. CASE U = {}
      BY <3>1
    <3>2. CASE U # {}
      <4>1. Pick(U) \in U
        BY <3>2 DEF Pick
      <4> HIDE DEF Pick, val
      <4>2. U \ {Pick(U)} \in SUBSET T /\ U \ {Pick(U)} # T
        BY <4>1
      <4>3. new[U \ {Pick(U)}] = G(U \ {Pick(U)})[U \ {Pick(U)}]
        BY <2>2, <4>2
      <4>4. new[U] = val(U)
        OBVIOUS
      <4> QED BY <3>2, <4>3, <4>4 DEF val
    <3> QED BY <3>1, <3>2
  <2>4. Sums(new, f, T)
    <3>1. new = [U \in SUBSET T |-> new[U]]
      OBVIOUS
    <3> HIDE DEF new, Pick
    <3> QED BY <2>3, <3>1 DEF Sums
  <2> QED BY <2>4
<1> HIDE DEF Q
<1>2. \A T \in SUBSET S : T \in Q
  BY <1>1, SubsetInduction
<1> QED BY <1>2 DEF Q

--------------------------------------------------------------------------------
(* Sums of natural numbers                                                 *)

\* The empty sum, and a sum with the element the fold takes first.
LEMMA SumStep ==
  ASSUME NEW f, NEW S, IsFiniteSet(S)
  PROVE  /\ S = {} => SumFunctionOnSet(f, S) = 0
         /\ S # {} => /\ Pick(S) \in S
                      /\ SumFunctionOnSet(f, S)
                           = f[Pick(S)] + SumFunctionOnSet(f, S \ {Pick(S)})
<1> DEFINE g == CHOOSE g : Sums(g, f, S)
           T == S \ {Pick(S)}
           h == CHOOSE h : Sums(h, f, T)
<1>1. IsFiniteSet(T) /\ T \subseteq S /\ T \in SUBSET T /\ S \in SUBSET S
  BY FS_Subset
<1>2. Sums(g, f, S) /\ Sums(h, f, T)
  BY <1>1, SumsExist
<1>3. SumFunctionOnSet(f, S) = g[S] /\ SumFunctionOnSet(f, T) = h[T]
  BY SumUnfold
<1>4. g[T] = h[T]
  <2> HIDE DEF g, h, T
  <2> QED BY <1>1, <1>2, SumsAgree
<1>5. /\ S = {} => g[S] = 0
      /\ S # {} => Pick(S) \in S /\ g[S] = f[Pick(S)] + g[T]
  <2> HIDE DEF g, h
  <2> QED BY <1>1, <1>2, SumsValue
<1> QED BY <1>3, <1>4, <1>5

\* A sum of natural numbers is one.
LEMMA SumNat ==
  ASSUME NEW f, NEW S, IsFiniteSet(S), \A x \in S : f[x] \in Nat
  PROVE  SumFunctionOnSet(f, S) \in Nat
<1> DEFINE Q == {T \in SUBSET S : SumFunctionOnSet(f, T) \in Nat}
<1>1. ASSUME NEW T \in SUBSET S, \A U \in SUBSET T : U # T => U \in Q
      PROVE  T \in Q
  <2>1. IsFiniteSet(T)
    BY FS_Subset
  <2>2. CASE T = {}
    <3>1. SumFunctionOnSet(f, T) = 0
      BY <2>1, <2>2, SumStep, Zenon
    <3> QED BY <3>1
  <2>3. CASE T # {}
    <3>1. /\ Pick(T) \in T
          /\ SumFunctionOnSet(f, T) = f[Pick(T)] + SumFunctionOnSet(f, T \ {Pick(T)})
      BY <2>1, <2>3, SumStep
    <3>2. T \ {Pick(T)} \in Q
      BY <1>1, <3>1
    <3> QED BY <3>1, <3>2
  <2> QED BY <2>2, <2>3
<1> HIDE DEF Q
<1>2. \A T \in SUBSET S : T \in Q
  BY <1>1, SubsetInduction
<1> QED BY <1>2 DEF Q

\* Any element may be taken first: the order does not matter.
LEMMA SumAnyFirst ==
  ASSUME NEW f, NEW S, IsFiniteSet(S), \A x \in S : f[x] \in Nat
  PROVE  \A x \in S : SumFunctionOnSet(f, S) = f[x] + SumFunctionOnSet(f, S \ {x})
<1> DEFINE Sm(T) == SumFunctionOnSet(f, T)
           Q == {T \in SUBSET S : \A x \in T : Sm(T) = f[x] + Sm(T \ {x})}
<1>1. ASSUME NEW T \in SUBSET S, \A U \in SUBSET T : U # T => U \in Q
      PROVE  T \in Q
  <2> SUFFICES ASSUME NEW x \in T PROVE Sm(T) = f[x] + Sm(T \ {x})
    OBVIOUS
  <2> DEFINE c == Pick(T)
  <2>1. IsFiniteSet(T) /\ T # {}
    BY FS_Subset
  <2>2. c \in T /\ Sm(T) = f[c] + Sm(T \ {c})
    BY <2>1, SumStep
  <2> HIDE DEF c
  <2>3. CASE x = c
    BY <2>2, <2>3
  <2>4. CASE x # c
    <3>1. T \ {c} \in Q /\ T \ {x} \in Q
      BY <1>1, <2>2
    <3>2. Sm(T \ {c}) = f[x] + Sm((T \ {c}) \ {x}) /\ Sm(T \ {x}) = f[c] + Sm((T \ {x}) \ {c})
      BY <2>2, <2>4, <3>1
    <3>3. (T \ {c}) \ {x} = (T \ {x}) \ {c}
      OBVIOUS
    <3>4. Sm((T \ {c}) \ {x}) \in Nat /\ f[x] \in Nat /\ f[c] \in Nat
      BY <2>1, <2>2, SumNat, FS_Subset
    <3> HIDE DEF Sm, Q
    <3> QED BY <2>2, <3>2, <3>3, <3>4
  <2> QED BY <2>3, <2>4
<1> HIDE DEF Q
<1>2. \A T \in SUBSET S : T \in Q
  BY <1>1, SubsetInduction
<1> QED BY <1>2 DEF Q

\* One element more adds its value.
LEMMA SumAddElement ==
  ASSUME NEW f, NEW S, IsFiniteSet(S), NEW x, x \notin S, \A y \in S \cup {x} : f[y] \in Nat
  PROVE  SumFunctionOnSet(f, S \cup {x}) = SumFunctionOnSet(f, S) + f[x]
<1>1. IsFiniteSet(S \cup {x}) /\ (S \cup {x}) \ {x} = S
  BY FS_AddElement
<1>2. SumFunctionOnSet(f, S \cup {x}) = f[x] + SumFunctionOnSet(f, S)
  BY <1>1, SumAnyFirst
<1>3. SumFunctionOnSet(f, S) \in Nat /\ f[x] \in Nat
  BY SumNat
<1> QED BY <1>2, <1>3

\* Functions that agree on a set have the same sum over it.
LEMMA SumSame ==
  ASSUME NEW f, NEW g, NEW S, IsFiniteSet(S), \A x \in S : f[x] = g[x]
  PROVE  SumFunctionOnSet(f, S) = SumFunctionOnSet(g, S)
<1> DEFINE Q == {T \in SUBSET S : SumFunctionOnSet(f, T) = SumFunctionOnSet(g, T)}
<1>1. ASSUME NEW T \in SUBSET S, \A U \in SUBSET T : U # T => U \in Q
      PROVE  T \in Q
  <2>1. IsFiniteSet(T)
    BY FS_Subset
  <2>2. CASE T = {}
    <3>1. SumFunctionOnSet(f, T) = 0 /\ SumFunctionOnSet(g, T) = 0
      BY <2>1, <2>2, SumStep, Zenon
    <3> QED BY <3>1
  <2>3. CASE T # {}
    <3>1. /\ Pick(T) \in T
          /\ SumFunctionOnSet(f, T) = f[Pick(T)] + SumFunctionOnSet(f, T \ {Pick(T)})
          /\ SumFunctionOnSet(g, T) = g[Pick(T)] + SumFunctionOnSet(g, T \ {Pick(T)})
      BY <2>1, <2>3, SumStep
    <3>2. T \ {Pick(T)} \in Q
      BY <1>1, <3>1
    <3> QED BY <3>1, <3>2
  <2> QED BY <2>2, <2>3
<1> HIDE DEF Q
<1>2. \A T \in SUBSET S : T \in Q
  BY <1>1, SubsetInduction
<1> QED BY <1>2 DEF Q

\* The sum of a function with the values zero and one is the number of ones.
LEMMA SumOfOnes ==
  ASSUME NEW f, NEW S, IsFiniteSet(S), \A x \in S : f[x] \in {0, 1}
  PROVE  SumFunctionOnSet(f, S) = Cardinality({x \in S : f[x] > 0})
<1> DEFINE Ones(T) == {x \in T : f[x] > 0}
           Q == {T \in SUBSET S : SumFunctionOnSet(f, T) = Cardinality(Ones(T))}
<1>1. ASSUME NEW T \in SUBSET S, \A U \in SUBSET T : U # T => U \in Q
      PROVE  T \in Q
  <2>1. IsFiniteSet(T)
    BY FS_Subset
  <2>2. CASE T = {}
    <3>1. Ones(T) = {} /\ SumFunctionOnSet(f, T) = 0
      BY <2>1, <2>2, SumStep
    <3> QED BY <3>1, FS_EmptySet
  <2>3. CASE T # {}
    <3> DEFINE c == Pick(T)
               U == T \ {c}
    <3>1. c \in T /\ SumFunctionOnSet(f, T) = f[c] + SumFunctionOnSet(f, U)
      BY <2>1, <2>3, SumStep
    <3>2. U \in Q /\ U \in SUBSET T
      BY <1>1, <3>1
    <3>3. IsFiniteSet(Ones(U)) /\ Cardinality(Ones(U)) \in Nat /\ c \notin Ones(U)
      <4>1. Ones(U) \subseteq T
        OBVIOUS
      <4> QED BY <2>1, <4>1, FS_Subset, FS_CardinalityType
    <3> HIDE DEF c
    <3>4. CASE f[c] = 0
      <4>1. Ones(T) = Ones(U)
        BY <3>1, <3>4
      <4> QED BY <3>1, <3>2, <3>3, <3>4, <4>1
    <3>5. CASE f[c] = 1
      <4>1. Ones(T) = Ones(U) \cup {c}
        BY <3>1, <3>5
      <4>2. Cardinality(Ones(U) \cup {c}) = Cardinality(Ones(U)) + 1
        <5> HIDE DEF Ones
        <5> QED BY <3>3, FS_AddElement
      <4> HIDE DEF Ones
      <4> QED BY <3>1, <3>2, <3>3, <3>5, <4>1, <4>2
    <3> QED BY <3>1, <3>4, <3>5
  <2> QED BY <2>2, <2>3
<1> HIDE DEF Q
<1>2. \A T \in SUBSET S : T \in Q
  BY <1>1, SubsetInduction
<1> QED BY <1>2 DEF Q
================================================================================
