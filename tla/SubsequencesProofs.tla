-------------------------- MODULE SubsequencesProofs --------------------------
(* What a selection of the entries of a sequence keeps of it, and what a    *)
(* loop keeps.                                                             *)
EXTENDS Subsequences, SequenceTheorems, FiniteSetTheorems, WellFoundedInduction,
        TLAPS

LEMMA RankFacts ==
    ASSUME NEW places \in SUBSET Nat, IsFiniteSet(places)
    PROVE  /\ Cardinality(places) \in Nat
           /\ \A i \in places : Rank(places, i) \in 1 .. Cardinality(places)
           /\ \A i, j \in places : i < j => Rank(places, i) < Rank(places, j)
  <1> DEFINE Upto(i) == {j \in places : j <= i}
  <1>1. /\ Cardinality(places) \in Nat
        /\ \A i \in places : /\ IsFiniteSet(Upto(i)) /\ Cardinality(Upto(i)) \in Nat
                             /\ Cardinality(Upto(i)) <= Cardinality(places)
    BY FS_Subset, FS_CardinalityType
  <1>2. ASSUME NEW i \in places PROVE Cardinality(Upto(i)) # 0
    <2>1. i \in Upto(i)
      OBVIOUS
    <2> QED
      BY <1>1, <2>1, FS_EmptySet
  <1>3. ASSUME NEW i \in places, NEW j \in places, i < j
        PROVE  Cardinality(Upto(i)) < Cardinality(Upto(j))
    <2>0. i \in Nat /\ j \in Nat /\ \A k \in places : k \in Nat
      OBVIOUS
    <2>1. /\ j \in Upto(j) /\ j \notin Upto(i)
          /\ \A k \in Upto(i) : k \in Upto(j)
      <3>1. \A k \in places : k <= i => k <= j
        BY <1>3, <2>0
      <3>2. j <= j /\ ~ j <= i
        BY <1>3, <2>0
      <3> QED
        BY Zenon, <3>1, <3>2
    <2> DEFINE A == Upto(i)
               B == Upto(j)
    <2>2. /\ IsFiniteSet(B) /\ Cardinality(A) \in Nat /\ Cardinality(B) \in Nat
          /\ A \in SUBSET B /\ A # B
      BY <1>1, <2>1
    <2> HIDE DEF A, B
    <2>3. Cardinality(A) <= Cardinality(B) /\ (Cardinality(A) = Cardinality(B) => A = B)
      BY <2>2, FS_Subset
    <2>4. Cardinality(A) < Cardinality(B)
      BY <2>2, <2>3
    <2> QED
      BY <2>4 DEF A, B
  <1> QED
    BY <1>1, <1>2, <1>3 DEF Rank

LEMMA NthFacts ==
    ASSUME NEW places \in SUBSET Nat, IsFiniteSet(places), NEW n \in 1 .. Cardinality(places)
    PROVE  Nth(places, n) \in places /\ Rank(places, Nth(places, n)) = n
  <1> DEFINE rank == [i \in places |-> Rank(places, i)]
             top == Cardinality(places)
  <1>1. /\ top \in Nat /\ rank \in [places -> 1 .. top]
        /\ \A i, j \in places : i # j => rank[i] # rank[j]
    BY RankFacts
  <1>2. IsFiniteSet(1 .. top) /\ Cardinality(1 .. top) = top
    BY <1>1, FS_Interval
  <1> HIDE DEF rank
  <1>3. rank \in Injection(places, 1 .. top)
    BY <1>1 DEF Injection, IsInjective
  <1>4. {rank[i] : i \in places} = 1 .. top
    <2> DEFINE range == {rank[i] : i \in places}
    <2>1. range \subseteq 1 .. top
      BY <1>1
    <2>2. ExistsBijection(places, range)
      BY <1>1 DEF ExistsBijection, Bijection, Injection, Surjection, IsInjective
    <2> HIDE DEF range
    <2>3. Cardinality(range) = top
      BY <2>2, FS_Bijection
    <2>4. range = 1 .. top
      BY <1>2, <2>1, <2>3, FS_Subset
    <2> QED
      BY <2>4 DEF range
  <1>5. \E i \in places : Rank(places, i) = n
    BY <1>4 DEF rank
  <1> QED
    BY <1>5 DEF Nth

\* The entries selected are some of the sequence, each once, in its order.
LEMMA PickedEntries ==
    ASSUME NEW s, NEW places \in SUBSET Nat, IsFiniteSet(places)
    PROVE  /\ Cardinality(places) \in Nat
           /\ DOMAIN Picked(s, places) = 1 .. Cardinality(places)
           /\ \A n \in 1 .. Cardinality(places) :
                 /\ Nth(places, n) \in places
                 /\ Picked(s, places)[n] = s[Nth(places, n)]
           /\ \A m, n \in 1 .. Cardinality(places) : m < n => Nth(places, m) < Nth(places, n)
  <1>1. \A n \in 1 .. Cardinality(places) :
           Nth(places, n) \in places /\ Rank(places, Nth(places, n)) = n
    BY NthFacts
  <1>2. ASSUME NEW m \in 1 .. Cardinality(places), NEW n \in 1 .. Cardinality(places), m < n
        PROVE  Nth(places, m) < Nth(places, n)
    <2> DEFINE i == Nth(places, m)
               j == Nth(places, n)
    <2>1. /\ i \in places /\ Rank(places, i) = m
          /\ j \in places /\ Rank(places, j) = n
      BY <1>1
    <2> HIDE DEF i, j
    <2>2. ~ j < i
      BY <1>2, <2>1, RankFacts
    <2>3. i # j
      BY <1>2, <2>1
    <2>4. i \in Nat /\ j \in Nat
      BY <2>1
    <2> QED
      BY <2>2, <2>3, <2>4 DEF i, j
  <1> QED
    BY <1>1, <1>2, FS_CardinalityType DEF Picked

LEMMA PickedIsSeq ==
    ASSUME NEW S, NEW s \in Seq(S), NEW places \in SUBSET (1 .. Len(s))
    PROVE  /\ IsFiniteSet(places) /\ places \in SUBSET Nat
           /\ Picked(s, places) \in Seq(S)
           /\ Len(Picked(s, places)) = Cardinality(places)
  <1>1. Len(s) \in Nat /\ DOMAIN s = 1 .. Len(s) /\ \A i \in 1 .. Len(s) : s[i] \in S
    BY LenProperties, ElementOfSeq
  <1>2. IsFiniteSet(places) /\ places \in SUBSET Nat
    <2>1. IsFiniteSet(1 .. Len(s))
      BY <1>1, FS_Interval
    <2>2. IsFiniteSet(places)
      BY Zenon, <2>1, FS_Subset
    <2> QED
      BY <1>1, <2>2
  <1> DEFINE result == Picked(s, places)
             top == Cardinality(places)
  <1>3. top \in Nat /\ DOMAIN result = 1 .. top /\ \A n \in 1 .. top : result[n] \in S
    <2>1. /\ top \in Nat /\ DOMAIN result = 1 .. top
          /\ \A n \in 1 .. top : /\ Nth(places, n) \in places
                                 /\ result[n] = s[Nth(places, n)]
      BY <1>2, PickedEntries
    <2> HIDE DEF result, top
    <2> QED
      BY <1>1, <2>1
  <1>4. result \in [1 .. top -> S]
    BY <1>3 DEF Picked
  <1> HIDE DEF result, top
  <1>5. result \in Seq(S) /\ Len(result) = top
    BY <1>3, <1>4, SeqDef, LenProperties
  <1> QED
    BY <1>2, <1>5 DEF result, top

\* With all its places, it is the sequence.
LEMMA AllPicked ==
    ASSUME NEW S, NEW s \in Seq(S)
    PROVE  Picked(s, 1 .. Len(s)) = s
  <1> DEFINE top == Len(s)
  <1>1. top \in Nat /\ s \in [1 .. top -> S]
    BY LenProperties
  <1> HIDE DEF top
  <1>2. IsFiniteSet(1 .. top) /\ Cardinality(1 .. top) = top
    BY <1>1, FS_Interval
  <1>3. ASSUME NEW n \in 1 .. top PROVE Nth(1 .. top, n) = n
    <2> DEFINE i == Nth(1 .. top, n)
    <2>1. i \in 1 .. top /\ Rank(1 .. top, i) = n
      BY <1>1, <1>2, NthFacts
    <2> HIDE DEF i
    <2>2. {j \in 1 .. top : j <= i} = 1 .. i
      BY <1>1, <2>1
    <2>3. Cardinality(1 .. i) = i
      BY <1>1, <2>1, FS_Interval
    <2>4. i = n
      BY <2>1, <2>2, <2>3 DEF Rank
    <2> QED
      BY <2>4 DEF i
  <1>4. Picked(s, 1 .. top) = [n \in 1 .. top |-> s[n]]
    BY <1>2, <1>3 DEF Picked
  <1>5. Picked(s, 1 .. top) = s
    BY <1>1, <1>4
  <1> QED
    BY <1>5 DEF top

-----------------------------------------------------------------------------
(* Loops.                                                                  *)

\* A set of naturals has a least one, and one that every step stays in is all of them.
LEMMA LeastOfSet ==
  ASSUME NEW T \in SUBSET Nat, T # {}
  PROVE \E m \in T : \A k \in T : m <= k
  <1>1. PICK m \in T : \A k \in T : ~ (<<k, m>> \in OpToRel(<, Nat))
    BY NatLessThanWellFounded, WFMin, Zenon
  <1>2. ASSUME NEW k \in T PROVE m <= k
    <2>1. ~ (<<k, m>> \in OpToRel(<, Nat))
      BY <1>1
    <2>2. <<k, m>> \in OpToRel(<, Nat) <=> k < m
      BY DEF OpToRel
    <2>3. ~ (k < m)
      BY Zenon, <2>1, <2>2
    <2> QED
      BY <2>3
  <1> QED BY <1>2

LEMMA SetInduction ==
  ASSUME NEW S, 0 \in S, \A n \in Nat : n \in S => n + 1 \in S
  PROVE  Nat \subseteq S
  <1> DEFINE T == Nat \ S
  <1>1. SUFFICES ASSUME T # {} PROVE FALSE
    OBVIOUS
  <1>2. PICK m \in T : \A k \in T : m <= k
    BY <1>1, LeastOfSet
  <1>3. m - 1 \in Nat /\ m - 1 \in S
    BY <1>2
  <1> QED BY <1>2, <1>3

\* A loop of n rounds: what there is after each.
LoopOf(n, V, first, body) ==
    \E run \in [0 .. n -> V] : run[0] = first /\ \A k \in 1 .. n : run[k] = body[k][run[k - 1]]

\* A loop whose body is a function of its index and of what it has so far, runs.
LEMMA LoopRuns ==
  ASSUME NEW n \in Nat, NEW V, NEW first \in V, NEW body \in [1 .. n -> [V -> V]]
  PROVE  LoopOf(n, V, first, body)
  <1> DEFINE Upto(m) == \E run \in [0 .. m -> V] :
                           /\ run[0] = first
                           /\ \A k \in 1 .. m : run[k] = body[k][run[k - 1]]
             S == {m \in Nat : m <= n => Upto(m)}
  <1>1. 0 \in S
    <2>1. [k \in 0 .. 0 |-> first] \in [0 .. 0 -> V] /\ [k \in 0 .. 0 |-> first][0] = first
      OBVIOUS
    <2>2. \A k \in 1 .. 0 : FALSE
      OBVIOUS
    <2>3. Upto(0)
      BY Zenon, <2>1, <2>2
    <2> QED
      BY Zenon, <2>3
  <1>2. ASSUME NEW m \in Nat, m \in S PROVE m + 1 \in S
    <2> SUFFICES ASSUME m + 1 <= n PROVE Upto(m + 1)
      OBVIOUS
    <2>0. Upto(m)
      <3>1. m <= n
        OBVIOUS
      <3> QED
        BY Zenon, <1>2, <3>1
    <2>1. PICK run \in [0 .. m -> V] :
             run[0] = first /\ \A k \in 1 .. m : run[k] = body[k][run[k - 1]]
      BY Zenon, <2>0
    <2> DEFINE more == [k \in 0 .. m + 1 |-> IF k = m + 1 THEN body[m + 1][run[m]] ELSE run[k]]
    <2>2. body[m + 1][run[m]] \in V
      <3>1. body[m + 1] \in [V -> V] /\ run[m] \in V
        BY <1>2
      <3> QED
        BY <3>1
    <2>3. more \in [0 .. m + 1 -> V]
      BY <2>2
    <2>4. more[0] = first
      BY <2>1
    <2>5. ASSUME NEW k \in 1 .. m + 1 PROVE more[k] = body[k][more[k - 1]]
      <3>1. CASE k = m + 1
        BY <3>1
      <3>2. CASE k # m + 1
        BY <2>1, <3>2
      <3> QED
        BY <3>1, <3>2
    <2> HIDE DEF more
    <2> QED
      BY <2>3, <2>4, <2>5
  <1> HIDE DEF S
  <1>3. n \in S
    BY <1>1, <1>2, SetInduction
  <1> QED
    BY <1>3 DEF S, LoopOf

\* What a loop keeps, it has at the end.
LEMMA LoopKeeps ==
  ASSUME NEW n \in Nat, NEW S, 0 \in S, \A k \in 1 .. n : k - 1 \in S => k \in S
  PROVE  0 .. n \subseteq S
  <1> DEFINE T == {m \in Nat : m <= n => m \in S}
  <1>1. 0 \in T
    OBVIOUS
  <1>2. ASSUME NEW m \in Nat, m \in T PROVE m + 1 \in T
    <2>1. m + 1 <= n => m \in S /\ m + 1 \in 1 .. n /\ (m + 1) - 1 = m
      BY <1>2
    <2> QED
      BY <2>1
  <1> HIDE DEF T
  <1>3. Nat \subseteq T
    BY <1>1, <1>2, SetInduction
  <1> QED
    BY <1>3 DEF T
===============================================================================
