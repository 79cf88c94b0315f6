------------------------------ MODULE Counting ------------------------------
(***************************************************************************)
(* Facts that the proofs share: least elements, cardinalities, remainders, *)
(* occurrences in sequences, induction over 0..n, the folds of sequences   *)
(* and that n elements can be sorted.                                      *)
(***************************************************************************)
EXTENDS Integers, Sequences, FiniteSets, SequencesExt, TLAPS, FiniteSetTheorems,
        FunctionTheorems, WellFoundedInduction

(* A nonempty set of natural numbers has a least element. *)
LEMMA LeastNatural ==
  ASSUME NEW S \in SUBSET Nat, S # {}
  PROVE  \E i \in S : \A j \in S : i <= j
<1>. DEFINE R == {ss \in Nat \X Nat : ss[1] < ss[2]}
<1>1. IsWellFoundedOn(R, Nat)
  BY NatLessThanWellFounded DEF OpToRel
<1>2. PICK x \in S : \A y \in S : <<y, x>> \notin R
  <2> HIDE DEF R
  <2> QED BY <1>1, WFMin
<1>3. \A y \in S : ~(y < x)
  BY <1>2
<1> QED BY <1>3

(* The numbers from 1 to n are n numbers. *)
LEMMA CountTo ==
  ASSUME NEW n \in Nat
  PROVE  IsFiniteSet(1 .. n) /\ Cardinality(1 .. n) = n
<1>1. n \in Int /\ 1 \in Int
  OBVIOUS
<1>2. /\ IsFiniteSet(1 .. n)
      /\ Cardinality(1 .. n) = IF 1 > n THEN 0 ELSE n - 1 + 1
  BY <1>1, FS_Interval, Zenon
<1>3. (IF 1 > n THEN 0 ELSE n - 1 + 1) = n
  OBVIOUS
<1> QED BY <1>2, <1>3

(* The image of a set under a function that keeps its members apart has as *)
(* many members as the set.                                                *)
LEMMA ImageCount ==
  ASSUME NEW S, IsFiniteSet(S), NEW f,
         \A i, j \in S : f[i] = f[j] => i = j
  PROVE  Cardinality({f[i] : i \in S}) = Cardinality(S)
<1>. DEFINE T == {f[i] : i \in S}
            g == [i \in S |-> f[i]]
<1>1. g \in [S -> T] /\ (\A i \in S : g[i] = f[i])
  OBVIOUS
<1>2. \A e \in T : \E i \in S : g[i] = e
  OBVIOUS
<1>3. \A i, j \in S : g[i] = g[j] => i = j
  BY <1>1
<1>. HIDE DEF g, T
<1>4. g \in Surjection(S, T) /\ g \in Injection(S, T)
  BY <1>1, <1>2, <1>3, Zenon DEF Surjection, Injection, IsInjective
<1>5. Cardinality(T) = Cardinality(S)
  BY <1>4, FS_Surjection
<1>. QED
  BY <1>5 DEF T

(* The image of a finite set is finite and has no more members than it.    *)
LEMMA ImageAtMost ==
  ASSUME NEW S, IsFiniteSet(S), NEW f
  PROVE  /\ IsFiniteSet({f[i] : i \in S})
         /\ Cardinality({f[i] : i \in S}) <= Cardinality(S)
<1>. DEFINE T == {f[i] : i \in S}
            g == [i \in S |-> f[i]]
<1>1. g \in [S -> T] /\ (\A e \in T : \E i \in S : g[i] = e)
  OBVIOUS
<1>. HIDE DEF g, T
<1>2. g \in Surjection(S, T)
  BY <1>1, Zenon DEF Surjection
<1>3. IsFiniteSet(T) /\ Cardinality(T) <= Cardinality(S)
  BY <1>2, FS_Surjection
<1>. QED
  BY <1>3 DEF T

-----------------------------------------------------------------------------
(* Induction, and folds of sequences.                                      *)

(* A set that holds 0, and each number's successor as long as it is at     *)
(* most n, holds every number up to n.                                     *)
LEMMA CountUp ==
  ASSUME NEW n \in Nat, NEW S, 0 \in S,
         \A m \in 0 .. n - 1 : m \in S => m + 1 \in S
  PROVE  \A m \in 0 .. n : m \in S
<1>. DEFINE missing == {m \in 0 .. n : m \notin S}
<1>1. SUFFICES ASSUME missing # {}
               PROVE  FALSE
  OBVIOUS
<1>2. PICK least \in missing : \A m \in missing : least <= m
  <2>1. missing \in SUBSET Nat
    OBVIOUS
  <2>. HIDE DEF missing
  <2>. QED
    BY <1>1, <2>1, LeastNatural
<1>3. least # 0 /\ least - 1 \in 0 .. n - 1 /\ least - 1 \notin missing
  BY <1>2
<1>. QED
  BY <1>2, <1>3

LEMMA MaxTo ==
  ASSUME NEW m \in Nat, NEW s \in SUBSET (1 .. m + 1), m + 1 \in s
  PROVE  Max(s) = m + 1
<1>1. \A i \in s : i \in Int /\ i <= m + 1
  OBVIOUS
<1>2. \A j \in s : (\A i \in s : j >= i) => j = m + 1
  BY <1>1
<1>. QED
  BY <1>1, <1>2 DEF Max

LEMMA LastTo ==
  ASSUME NEW m \in Nat
  PROVE  1 .. m + 1 # {} /\ Max(1 .. m + 1) = m + 1 /\ (1 .. m + 1) \ {m + 1} = 1 .. m
<1>1. m + 1 \in 1 .. m + 1
  OBVIOUS
<1>2. Max(1 .. m + 1) = m + 1
  BY <1>1, MaxTo
<1>3. \A i : i \in (1 .. m + 1) \ {m + 1} <=> i \in 1 .. m
  OBVIOUS
<1>. QED
  BY <1>1, <1>2, <1>3

(* A nonempty set of such numbers has a greatest.                          *)
LEMMA MaxIn ==
  ASSUME NEW n \in Nat, NEW s \in SUBSET (1 .. n), s # {}
  PROVE  Max(s) \in s /\ \A i \in s : i <= Max(s)
<1>. DEFINE below == {n - i : i \in s}
<1>1. PICK least \in below : \A b \in below : least <= b
  <2>1. \A i \in s : n - i \in Nat
    OBVIOUS
  <2>2. below \in SUBSET Nat
    BY <2>1
  <2>3. below # {}
    OBVIOUS
  <2>. HIDE DEF below
  <2>. QED
    BY <2>2, <2>3, LeastNatural
<1>2. n - least \in s /\ \A i \in s : n - least >= i
  BY <1>1
<1>. QED
  BY <1>2 DEF Max

(* A set of such numbers that holds all below each of its members.         *)
LEMMA InitialCount ==
  ASSUME NEW n \in Nat, NEW s \in SUBSET (1 .. n),
         \A i \in s : \A j \in 1 .. i : j \in s
  PROVE  s = 1 .. Cardinality(s)
<1>1. CASE s = {}
  <2>1. Cardinality(s) = 0
    BY <1>1, FS_EmptySet
  <2>. QED
    BY <1>1, <2>1
<1>2. CASE s # {}
  <2>1. PICK m \in s : \A i \in s : i <= m
    BY <1>2, MaxIn
  <2>2. m \in Nat /\ \A i \in 1 .. m : i \in s
    <3>1. m \in 1 .. n
      BY <2>1
    <3>. QED
      BY <2>1, <3>1
  <2>3. s = 1 .. m
    <3>1. \A i \in s : i \in 1 .. m
      BY <2>1, <2>2
    <3>2. s \subseteq 1 .. m /\ 1 .. m \subseteq s
      BY <2>2, <3>1, Zenon
    <3>. QED
      BY <3>2, Zenon
  <2>. QED
    BY <2>2, <2>3, CountTo
<1>. QED
  BY <1>1, <1>2

(* The recursion by which the library folds a sequence of n elements, the  *)
(* last of them first: g[<<k, v>>] stands for the value v with the k-th    *)
(* element folded in.                                                      *)
Folds(F, n, base, g) ==
  \A s \in SUBSET (1 .. n) :
    F[s] = IF s = {} THEN base ELSE g[<<Max(s), F[s \ {Max(s)}]>>]

LEMMA FoldExists ==
  ASSUME NEW n \in Nat, NEW V, NEW base \in V, NEW g \in [(1 .. n) \X V -> V]
  PROVE  \E F \in [SUBSET (1 .. n) -> V] : Folds(F, n, base, g)
<1>. USE DEF Folds
<1>. DEFINE Solves(F, m) == Folds(F, m, base, g)
            S == {m \in 0 .. n : \E F \in [SUBSET (1 .. m) -> V] : Solves(F, m)}
<1>1. ASSUME NEW m \in 0 .. n, m = 0
      PROVE  m \in S
  <2>. DEFINE F == [s \in SUBSET (1 .. m) |-> base]
  <2>1. F \in [SUBSET (1 .. m) -> V]
    OBVIOUS
  <2>2. \A s \in SUBSET (1 .. m) : s = {} /\ F[s] = base
    BY <1>1
  <2>3. Solves(F, m)
    BY <2>2
  <2>. HIDE DEF F, Solves
  <2>. QED
    BY <2>1, <2>3
<1>2. ASSUME NEW m \in 0 .. n - 1, m \in S
      PROVE  m + 1 \in S
  <2>1. PICK E \in [SUBSET (1 .. m) -> V] : Solves(E, m)
    BY <1>2
  <2>. DEFINE F == [s \in SUBSET (1 .. m + 1) |->
                      IF m + 1 \in s THEN g[<<m + 1, E[s \ {m + 1}]>>] ELSE E[s]]
  <2>2. ASSUME NEW s \in SUBSET (1 .. m + 1), m + 1 \in s
        PROVE  /\ Max(s) = m + 1 /\ s \ {m + 1} \in SUBSET (1 .. m)
               /\ E[s \ {m + 1}] \in V
               /\ F[s] = g[<<m + 1, E[s \ {m + 1}]>>]
    <3>1. s \ {m + 1} \in SUBSET (1 .. m)
      OBVIOUS
    <3>2. Max(s) = m + 1
      BY <2>2, MaxTo
    <3>. QED
      BY <2>2, <3>1, <3>2
  <2>3. ASSUME NEW s \in SUBSET (1 .. m + 1), m + 1 \notin s
        PROVE  s \in SUBSET (1 .. m) /\ F[s] = E[s]
    BY <2>3
  <2>4. F \in [SUBSET (1 .. m + 1) -> V]
    <3>1. ASSUME NEW s \in SUBSET (1 .. m + 1)
          PROVE  F[s] \in V
      <4>1. CASE m + 1 \in s
        <5>1. <<m + 1, E[s \ {m + 1}]>> \in (1 .. n) \X V
          BY <2>2, <4>1
        <5>. QED
          BY <2>2, <4>1, <5>1
      <4>2. CASE m + 1 \notin s
        BY <2>3, <4>2
      <4>. QED
        BY <4>1, <4>2
    <3>. QED
      BY <3>1
  <2>5. Solves(F, m + 1)
    <3>. SUFFICES ASSUME NEW s \in SUBSET (1 .. m + 1)
                  PROVE  F[s] = IF s = {} THEN base ELSE g[<<Max(s), F[s \ {Max(s)}]>>]
      OBVIOUS
    <3>1. CASE m + 1 \in s
      <4>1. /\ F[s] = g[<<m + 1, E[s \ {m + 1}]>>] /\ Max(s) = m + 1
            /\ s \ {m + 1} \in SUBSET (1 .. m)
        BY <2>2, <3>1
      <4>2. s \ {m + 1} \in SUBSET (1 .. m + 1) /\ m + 1 \notin s \ {m + 1}
        OBVIOUS
      <4>3. F[s \ {m + 1}] = E[s \ {m + 1}]
        BY <2>3, <4>2
      <4>. QED
        BY <3>1, <4>1, <4>3
    <3>2. CASE m + 1 \notin s /\ s # {}
      <4>1. s \in SUBSET (1 .. m) /\ F[s] = E[s]
        BY <2>3, <3>2
      <4>2. E[s] = g[<<Max(s), E[s \ {Max(s)}]>>]
        BY <2>1, <3>2, <4>1
      <4>3. s \ {Max(s)} \in SUBSET (1 .. m + 1) /\ m + 1 \notin s \ {Max(s)}
        BY <3>2
      <4>4. F[s \ {Max(s)}] = E[s \ {Max(s)}]
        BY <2>3, <4>3
      <4>. QED
        BY <3>2, <4>1, <4>2, <4>4
    <3>3. CASE s = {}
      <4>1. F[s] = E[s] /\ s \in SUBSET (1 .. m)
        BY <2>3, <3>3
      <4>. QED
        BY <2>1, <3>3, <4>1
    <3>. QED
      BY <3>1, <3>2, <3>3
  <2>. HIDE DEF F, Solves
  <2>6. m + 1 \in 0 .. n
    OBVIOUS
  <2>. QED
    BY <2>4, <2>5, <2>6
<1>3. n \in S
  <2>. HIDE DEF S
  <2>1. 0 \in S
    BY <1>1
  <2>. QED
    BY <1>2, <2>1, CountUp
<1>. QED
  BY <1>3

-----------------------------------------------------------------------------
(* Sorting.                                                                *)

(* A function on 1..n that keeps its arguments apart and stays in 1..n     *)
(* takes every value there.                                                *)
LEMMA OntoItself ==
  ASSUME NEW n \in Nat, NEW f \in [1 .. n -> 1 .. n],
         \A i, j \in 1 .. n : f[i] = f[j] => i = j
  PROVE  \A k \in 1 .. n : \E i \in 1 .. n : f[i] = k
<1>. DEFINE T == {f[i] : i \in 1 .. n}
<1>1. IsFiniteSet(1 .. n) /\ T \in SUBSET (1 .. n)
  BY CountTo
<1>2. Cardinality(T) = Cardinality(1 .. n)
  BY <1>1, ImageCount
<1>3. T = 1 .. n
  <2>. HIDE DEF T
  <2>. QED
    BY <1>1, <1>2, FS_Subset
<1>. QED
  BY <1>3

(* There is an order of n elements in which their keys go down.            *)
LEMMA SortingExists ==
  ASSUME NEW n \in Nat, NEW key \in [1 .. n -> Int]
  PROVE  \E p \in [1 .. n -> 1 .. n] :
           /\ \A i \in 1 .. n : \E j \in 1 .. n : p[j] = i
           /\ \A i, j \in 1 .. n : i < j => key[p[i]] >= key[p[j]]
<1>. DEFINE Before(i, j) == key[i] > key[j] \/ (key[i] = key[j] /\ i < j)
            Ahead(i)     == {j \in 1 .. n : Before(j, i)}
            rank         == [i \in 1 .. n |-> Cardinality(Ahead(i)) + 1]
<1>1. ASSUME NEW i \in 1 .. n
      PROVE  /\ IsFiniteSet(Ahead(i)) /\ Cardinality(Ahead(i)) \in Nat
             /\ Cardinality(Ahead(i)) < n
  <2>1. Ahead(i) \in SUBSET ((1 .. n) \ {i}) /\ i \in 1 .. n
    OBVIOUS
  <2>2. IsFiniteSet(1 .. n) /\ Cardinality(1 .. n) = n
    BY CountTo
  <2>. HIDE DEF Ahead
  <2>3. IsFiniteSet((1 .. n) \ {i}) /\ Cardinality((1 .. n) \ {i}) = n - 1
    BY <2>2, FS_RemoveElement
  <2>4. IsFiniteSet(Ahead(i)) /\ Cardinality(Ahead(i)) <= n - 1
    BY <2>1, <2>3, FS_Subset
  <2>. QED
    BY <2>4, FS_CardinalityType
<1>2. ASSUME NEW i \in 1 .. n, NEW j \in 1 .. n, Before(i, j)
      PROVE  rank[i] < rank[j]
  <2>1. Ahead(i) \in SUBSET Ahead(j) /\ i \in Ahead(j) /\ i \notin Ahead(i)
    BY <1>2
  <2>. HIDE DEF Ahead
  <2>2. /\ IsFiniteSet(Ahead(j)) /\ Cardinality(Ahead(j)) \in Nat
        /\ Cardinality(Ahead(i)) \in Nat
    BY <1>1
  <2>3. /\ Cardinality(Ahead(i)) <= Cardinality(Ahead(j))
        /\ Cardinality(Ahead(i)) # Cardinality(Ahead(j))
    BY <2>1, <2>2, FS_Subset
  <2>. QED
    BY <2>2, <2>3
<1>3. rank \in [1 .. n -> 1 .. n]
  <2>. HIDE DEF Ahead
  <2>. QED
    BY <1>1
<1>4. \A i, j \in 1 .. n : i = j \/ Before(i, j) \/ Before(j, i)
  OBVIOUS
<1>. HIDE DEF rank
<1>5. ASSUME NEW i \in 1 .. n, NEW j \in 1 .. n, rank[i] = rank[j]
      PROVE  i = j
  <2>1. rank[i] \in Int /\ rank[j] \in Int /\ ~(rank[i] < rank[j]) /\ ~(rank[j] < rank[i])
    BY <1>3, <1>5
  <2>2. ~ Before(i, j) /\ ~ Before(j, i)
    <3>. HIDE DEF Before
    <3>. QED
      BY <1>2, <2>1
  <2>. QED
    BY <1>4, <2>2
<1>6. \A k \in 1 .. n : \E i \in 1 .. n : rank[i] = k
  BY <1>3, <1>5, OntoItself
<1>. DEFINE p == [k \in 1 .. n |-> CHOOSE i \in 1 .. n : rank[i] = k]
<1>7. \A k \in 1 .. n : p[k] \in 1 .. n /\ rank[p[k]] = k
  BY <1>6
<1>8. p \in [1 .. n -> 1 .. n]
  BY <1>7
<1>. HIDE DEF p
<1>9. \A i \in 1 .. n : \E j \in 1 .. n : p[j] = i
  <2>1. ASSUME NEW i \in 1 .. n
        PROVE  rank[i] \in 1 .. n /\ p[rank[i]] = i
    <3>1. rank[i] \in 1 .. n
      BY <1>3
    <3>. QED
      BY <1>5, <1>7, <3>1
  <2>. QED
    BY <2>1
<1>10. ASSUME NEW i \in 1 .. n, NEW j \in 1 .. n, i < j
       PROVE  key[p[i]] >= key[p[j]]
  <2>1. /\ p[i] \in 1 .. n /\ p[j] \in 1 .. n /\ rank[p[i]] = i /\ rank[p[j]] = j
        /\ key[p[i]] \in Int /\ key[p[j]] \in Int
    BY <1>7
  <2>2. ~ Before(p[j], p[i])
    <3>. HIDE DEF Before
    <3>. QED
      BY <1>2, <1>10, <2>1
  <2>. QED
    BY <2>1, <2>2
<1>. QED
  BY <1>8, <1>9, <1>10

-----------------------------------------------------------------------------
(* Indices and clocks that wrap.                                           *)

(* A number that is at most one round off is brought back by one round.    *)
LEMMA WrapOnce ==
  ASSUME NEW m \in Nat \ {0}, NEW x \in Int
  PROVE  /\ x % m \in 0 .. m - 1
         /\ 0 <= x /\ x < m => x % m = x
         /\ -m <= x /\ x < 0 => x % m = x + m
         /\ m <= x /\ x < 2 * m => x % m = x - m
<1>1. x % m \in 0 .. m - 1
  OBVIOUS
<1>2. ASSUME 0 <= x, x < m
      PROVE  x % m = x
  BY <1>2
<1>3. ASSUME -m <= x, x < 0
      PROVE  x % m = x + m
  BY <1>3
<1>4. ASSUME m <= x, x < 2 * m
      PROVE  x % m = x - m
  BY <1>4
<1>. QED
  BY <1>1, <1>2, <1>3, <1>4

-----------------------------------------------------------------------------
(* Occurrences in a sequence.                                              *)

(* How often x occurs in the first n places of q. *)
Occurrences(q, x, n) == Cardinality({k \in 1 .. n : q[k] = x})

LEMMA OccurrencesFinite ==
  ASSUME NEW n \in Nat, NEW q, NEW x
  PROVE  /\ IsFiniteSet({k \in 1 .. n : q[k] = x})
         /\ Occurrences(q, x, n) \in Nat
<1>1. IsFiniteSet(1 .. n)
  BY CountTo
<1>2. {k \in 1 .. n : q[k] = x} \subseteq 1 .. n
  OBVIOUS
<1>. QED
  BY <1>1, <1>2, FS_Subset, FS_CardinalityType DEF Occurrences

(* One place more counts one more if it holds x. *)
LEMMA OccurrencesNext ==
  ASSUME NEW n \in Nat, NEW q, NEW x
  PROVE  Occurrences(q, x, n + 1) = Occurrences(q, x, n) + (IF q[n + 1] = x THEN 1 ELSE 0)
<1>. DEFINE S == {k \in 1 .. n : q[k] = x}
            T == {k \in 1 .. n + 1 : q[k] = x}
<1>1. IsFiniteSet(S) /\ Cardinality(S) \in Nat
  BY OccurrencesFinite DEF Occurrences
<1>2. CASE q[n + 1] = x
  <2>1. T = S \cup {n + 1} /\ n + 1 \notin S
    BY <1>2
  <2>2. Cardinality(S \cup {n + 1}) = Cardinality(S) + 1
    BY <1>1, <2>1, FS_AddElement
  <2>. QED
    BY <1>2, <2>1, <2>2 DEF Occurrences
<1>3. CASE q[n + 1] # x
  <2>1. T = S
    BY <1>3
  <2>. QED
    BY <1>1, <1>3, <2>1 DEF Occurrences
<1>. QED
  BY <1>2, <1>3 DEF Occurrences

(* Counting from the second place on leaves out the first. *)
LEMMA OccurrencesShifted ==
  ASSUME NEW n \in Nat, NEW q, NEW r, NEW x,
         \A k \in 1 .. n : r[k] = q[k + 1]
  PROVE  Occurrences(q, x, n + 1) = Occurrences(r, x, n) + (IF q[1] = x THEN 1 ELSE 0)
<1>. DEFINE S == {k \in 1 .. n : r[k] = x}
            T == {k \in 1 .. n + 1 : q[k] = x}
            f == [k \in 1 .. n |-> k + 1]
            U == {f[k] : k \in S}
<1>1. IsFiniteSet(S) /\ Cardinality(S) \in Nat
  BY OccurrencesFinite DEF Occurrences
<1>2. \A i, j \in S : f[i] = f[j] => i = j
  OBVIOUS
<1>3. Cardinality(U) = Cardinality(S)
  <2>. HIDE DEF f, S
  <2>. QED BY <1>1, <1>2, ImageCount
<1>4. U = {k \in 2 .. n + 1 : q[k] = x}
  <2>1. \A k \in S : f[k] \in 2 .. n + 1 /\ q[f[k]] = x
    OBVIOUS
  <2>2. ASSUME NEW k \in 2 .. n + 1, q[k] = x
        PROVE  k \in U
    <3>1. k - 1 \in S /\ f[k - 1] = k
      BY <2>2
    <3>. QED
      BY <3>1
  <2>. QED
    BY <2>1, <2>2
<1>5. IsFiniteSet(U)
  <2>1. U \subseteq 1 .. n + 1
    BY <1>4
  <2>2. IsFiniteSet(1 .. n + 1)
    BY CountTo
  <2>. QED
    BY <2>1, <2>2, FS_Subset
<1>6. CASE q[1] = x
  <2>1. T = U \cup {1} /\ 1 \notin U
    BY <1>4, <1>6
  <2>2. Cardinality(U \cup {1}) = Cardinality(U) + 1
    BY <1>5, <2>1, FS_AddElement
  <2>. QED
    BY <1>1, <1>3, <1>6, <2>1, <2>2 DEF Occurrences
<1>7. CASE q[1] # x
  <2>1. T = U
    BY <1>4, <1>7
  <2>. QED
    BY <1>1, <1>3, <1>7, <2>1 DEF Occurrences
<1>. QED
  BY <1>6, <1>7 DEF Occurrences

(* No more in fewer places, and at least one up to a place that holds x.   *)
LEMMA OccurrencesBounds ==
  ASSUME NEW n \in Nat, NEW i \in 0 .. n, NEW q, NEW x
  PROVE  /\ Occurrences(q, x, i) <= Occurrences(q, x, n)
         /\ i > 0 /\ q[i] = x => Occurrences(q, x, i) >= 1
<1>. DEFINE S == {k \in 1 .. i : q[k] = x}
            T == {k \in 1 .. n : q[k] = x}
<1>1. i \in Nat
  OBVIOUS
<1>2. IsFiniteSet(S) /\ IsFiniteSet(T)
  BY <1>1, OccurrencesFinite, ZenonT(60)
<1>3. S \subseteq T
  OBVIOUS
<1>4. Cardinality(S) <= Cardinality(T)
  BY <1>2, <1>3, FS_Subset
<1>5. ASSUME i > 0, q[i] = x
      PROVE  Cardinality(S) >= 1
  <2>1. {i} \subseteq S
    BY <1>5
  <2>2. Cardinality({i}) = 1
    BY FS_Singleton
  <2>3. Cardinality({i}) <= Cardinality(S)
    BY <1>2, <2>1, FS_Subset
  <2>4. Cardinality(S) \in Nat
    BY <1>2, FS_CardinalityType
  <2>. QED
    BY <2>2, <2>3, <2>4
<1>. QED
  BY <1>4, <1>5 DEF Occurrences

(* What stands in the places that are counted is all that matters.         *)
LEMMA OccurrencesSame ==
  ASSUME NEW n \in Nat, NEW q, NEW r, NEW x, \A k \in 1 .. n : q[k] = r[k]
  PROVE  Occurrences(q, x, n) = Occurrences(r, x, n)
<1>1. {k \in 1 .. n : q[k] = x} = {k \in 1 .. n : r[k] = x}
  OBVIOUS
<1>. QED
  BY <1>1 DEF Occurrences

=============================================================================
