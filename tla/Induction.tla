----------------------------- MODULE Induction ------------------------------
(***************************************************************************)
(* Lemmas for the proofs about data: induction over the numbers as a fact  *)
(* about sets, the existence of functions that are defined along 0..n, and *)
(* the existence of sorted sequences.                                      *)
(***************************************************************************)
EXTENDS Integers, Sequences, FiniteSetTheorems, WellFoundedInduction, TLAPS

\* A set of numbers that holds 0, and the successor of each it holds, holds
\* them all: otherwise the least missing one would have a predecessor.
LEMMA EveryNumber ==
    ASSUME NEW S \in SUBSET Nat, 0 \in S, \A n \in S : n + 1 \in S
    PROVE  Nat \subseteq S
<1>1. SUFFICES ASSUME Nat \ S # {} PROVE FALSE
  OBVIOUS
<1>2. PICK x \in Nat \ S : \A y \in Nat \ S : <<y, x>> \notin OpToRel(<, Nat)
  BY <1>1, NatLessThanWellFounded, WFMin
<1>3. x # 0 /\ x - 1 \in Nat /\ x - 1 < x
  OBVIOUS
<1>4. <<x - 1, x>> \in OpToRel(<, Nat)
  BY <1>3 DEF OpToRel
<1>5. x - 1 \in S
  BY <1>2, <1>3, <1>4
<1>6. QED
  BY <1>3, <1>5

\* A set of numbers has a least one.
LEMMA LeastExists ==
    ASSUME NEW S \in SUBSET Nat, S # {}
    PROVE  \E x \in S : \A y \in S : x <= y
<1>1. PICK x \in S : \A y \in S : <<y, x>> \notin OpToRel(<, Nat)
  BY NatLessThanWellFounded, WFMin
<1>2. ASSUME NEW y \in S PROVE x <= y
  <2>1. ~(y < x)
    BY <1>1, <1>2 DEF OpToRel
  <2>2. QED
    BY <2>1
<1>3. QED
  BY <1>2

\* Of the places of a sequence, one has the lowest value.
LEMMA LowestExists ==
    ASSUME NEW n \in Nat, NEW I \in SUBSET (1..n), I # {}, NEW v \in [I -> Int]
    PROVE  \E i \in I : \A j \in I : v[i] <= v[j]
<1> DEFINE Low(m) == \A J \in SUBSET I : J # {} /\ J \subseteq 1..m =>
                         \E i \in J : \A j \in J : v[i] <= v[j]
           S == {m \in Nat : Low(m)}
<1>1. 0 \in S
  <2>1. 1..0 = {}
    OBVIOUS
  <2>2. QED
    BY <2>1
<1>2. ASSUME NEW m \in S PROVE m + 1 \in S
  <2>1. SUFFICES ASSUME NEW J \in SUBSET I, J # {}, J \subseteq 1..(m + 1)
                 PROVE  \E i \in J : \A j \in J : v[i] <= v[j]
    BY <1>2
  <2>2. CASE m + 1 \notin J
    BY <1>2, <2>1, <2>2, J \subseteq 1..m
  <2>3. CASE m + 1 \in J /\ J \ {m + 1} = {}
    BY <2>1, <2>3
  <2>4. CASE m + 1 \in J /\ J \ {m + 1} # {}
    <3>1. J \ {m + 1} \subseteq 1..m
      BY <1>2, <2>1
    <3>2. PICK i \in J \ {m + 1} : \A j \in J \ {m + 1} : v[i] <= v[j]
      BY <1>2, <2>1, <2>4, <3>1
    <3>3. v[i] \in Int /\ v[m + 1] \in Int /\ \A j \in J : v[j] \in Int
      BY <2>1, <2>4
    <3>4. CASE v[i] <= v[m + 1]
      BY <3>2, <3>4
    <3>5. CASE v[m + 1] < v[i]
      BY <2>4, <3>2, <3>3, <3>5
    <3>6. QED
      BY <3>3, <3>4, <3>5
  <2>5. QED
    BY <2>2, <2>3, <2>4
<1>3. n \in S
  BY <1>1, <1>2, EveryNumber
<1>4. QED
  BY <1>3

\* A function whose value at i is a step from its value at i - 1 ...
Along(f, n, V, base, step) ==
    /\ f \in [0..n -> V]
    /\ f[0] = base
    /\ \A i \in 1..n : f[i] = step[<<f[i - 1], i>>]

\* ... exists, whatever the step.
LEMMA DefinedAlong ==
    ASSUME NEW n \in Nat, NEW V, NEW base \in V, NEW step \in [V \X (1..n) -> V]
    PROVE  \E f : Along(f, n, V, base, step)
<1> DEFINE Upto(m, f) == f[0] = base /\ \A i \in 1..m : f[i] = step[<<f[i - 1], i>>]
           S == {m \in Nat : m <= n => \E f \in [0..m -> V] : Upto(m, f)}
<1>1. 0 \in S
  <2>1. [i \in 0..0 |-> base] \in [0..0 -> V] /\ Upto(0, [i \in 0..0 |-> base])
    OBVIOUS
  <2>2. QED
    BY <2>1
<1>2. ASSUME NEW m \in Nat, m \in S PROVE m + 1 \in S
  <2>1. SUFFICES ASSUME m + 1 <= n PROVE \E f \in [0..(m + 1) -> V] : Upto(m + 1, f)
    BY <1>2
  <2>2. PICK f \in [0..m -> V] : Upto(m, f)
    BY <1>2, <2>1
  <2>3. f[m] \in V /\ m + 1 \in 1..n
    BY <1>2, <2>1
  <2> DEFINE g == [i \in 0..(m + 1) |-> IF i = m + 1 THEN step[<<f[m], m + 1>>] ELSE f[i]]
  <2>4. step[<<f[m], m + 1>>] \in V
    BY <2>3
  <2>5. g \in [0..(m + 1) -> V]
    BY <2>2, <2>4, <1>2
  <2>6. g[0] = base
    BY <2>2, <1>2
  <2>7. ASSUME NEW i \in 1..(m + 1) PROVE g[i] = step[<<g[i - 1], i>>]
    <3>1. CASE i = m + 1
      <4>1. g[m + 1] = step[<<f[m], m + 1>>] /\ g[m] = f[m] /\ i - 1 = m
        BY <3>1, <1>2
      <4>2. QED
        BY <3>1, <4>1
    <3>2. CASE i \in 1..m
      <4>1. f[i] = step[<<f[i - 1], i>>]
        BY <2>2, <3>2
      <4>2. g[i] = f[i] /\ g[i - 1] = f[i - 1]
        BY <3>2, <1>2
      <4>3. QED
        BY <4>1, <4>2
    <3>3. QED
      BY <3>1, <3>2, <1>2
  <2>8. QED
    BY <2>5, <2>6, <2>7
<1>3. n \in S
  BY <1>1, <1>2, EveryNumber
<1>4. QED
  BY <1>3 DEF Along

\* The elements of a finite set can be put in the order of their numbers: the
\* place of an element is how many there are up to it.
LEMMA SortedExists ==
    ASSUME NEW S, IsFiniteSet(S), NEW key \in [S -> Nat],
           \A x, y \in S : key[x] = key[y] => x = y
    PROVE  \E s \in [1..Cardinality(S) -> S] :
               \A i, j \in DOMAIN s : i < j => key[s[i]] < key[s[j]]
<1> DEFINE n == Cardinality(S)
           UpTo(x) == {y \in S : key[y] <= key[x]}
           place == [x \in S |-> Cardinality(UpTo(x))]
<1>1. n \in Nat
  BY FS_CardinalityType
<1>2. ASSUME NEW x \in S PROVE IsFiniteSet(UpTo(x)) /\ place[x] \in 1..n
  <2>1. IsFiniteSet(UpTo(x)) /\ Cardinality(UpTo(x)) <= n
    BY FS_Subset, UpTo(x) \in SUBSET S
  <2>2. Cardinality(UpTo(x)) # 0
    BY <2>1, FS_EmptySet, x \in UpTo(x)
  <2>3. Cardinality(UpTo(x)) \in Nat
    BY <2>1, FS_CardinalityType
  <2>4. QED
    BY <1>1, <2>1, <2>2, <2>3
<1>3. ASSUME NEW x \in S, NEW y \in S, key[x] < key[y] PROVE place[x] < place[y]
  <2>1. UpTo(x) \in SUBSET UpTo(y) /\ y \in UpTo(y) /\ y \notin UpTo(x)
    BY <1>3
  <2>2. Cardinality(UpTo(x)) <= Cardinality(UpTo(y)) /\ Cardinality(UpTo(y)) # Cardinality(UpTo(x))
    BY <1>2, <2>1, FS_Subset
  <2>3. QED
    BY <1>2, <2>2
<1>4. place \in Injection(S, 1..n)
  <2>1. place \in [S -> 1..n]
    BY <1>2
  <2>2. ASSUME NEW x \in S, NEW y \in S, place[x] = place[y] PROVE x = y
    <3>1. key[x] < key[y] \/ key[y] < key[x] \/ key[x] = key[y]
      OBVIOUS
    <3>2. place[x] \in Nat /\ place[y] \in Nat
      BY <1>2
    <3>3. QED
      BY <1>3, <2>2, <3>1, <3>2
  <2>3. QED
    BY <2>1, <2>2 DEF Injection, IsInjective
<1>5. place \in Surjection(S, 1..n)
  <2>1. IsFiniteSet(1..n) /\ Cardinality(1..n) = n
    BY <1>1, FS_Interval
  <2>2. QED
    BY <1>4, <2>1, FS_Injection
<1> DEFINE s == [i \in 1..n |-> CHOOSE x \in S : place[x] = i]
<1>6. ASSUME NEW i \in 1..n PROVE s[i] \in S /\ place[s[i]] = i
  <2>1. \E x \in S : place[x] = i
    BY <1>5 DEF Surjection
  <2>2. QED
    BY <2>1
<1>7. s \in [1..n -> S]
  BY <1>6
<1> HIDE DEF place, s
<1>8. ASSUME NEW i \in 1..n, NEW j \in 1..n, i < j PROVE key[s[i]] < key[s[j]]
  <2>1. s[i] \in S /\ s[j] \in S /\ place[s[i]] < place[s[j]]
    BY <1>6, <1>8
  <2>2. ~(key[s[j]] < key[s[i]])
    BY <1>1, <1>3, <1>6, <1>8, <2>1
  <2>3. key[s[j]] # key[s[i]]
    BY <1>1, <1>6, <1>8, <2>1
  <2>4. QED
    BY <2>1, <2>2, <2>3
<1>9. QED
  BY <1>1, <1>7, <1>8
=============================================================================
