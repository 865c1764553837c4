---------------------------- MODULE StackLemmas ----------------------------
(* Facts about the sequences that the models use as stacks, about sets of   *)
(* numbers in their order, about the parts of a sequence, and about totals. *)
EXTENDS Integers, Sequences, SequencesExt, Ordered, Addition, SequenceTheorems, FiniteSetTheorems, TLAPS

(* What Front and Last give of a non-empty sequence, and what appending and *)
(* updating leave alone. *)
LEMMA SeqFacts ==
    ASSUME NEW S, NEW s \in Seq(S), s # <<>>
    PROVE  /\ Len(s) \in Nat \ {0}
           /\ Last(s) = s[Len(s)]
           /\ Last(s) \in S
           /\ Front(s) \in Seq(S)
           /\ Len(Front(s)) = Len(s) - 1
           /\ \A i \in 1..(Len(s) - 1) : Front(s)[i] = s[i]
<1>1. Len(s) \in Nat \ {0}
  BY EmptySeq
<1>2. Last(s) = s[Len(s)] /\ Last(s) \in S
  BY <1>1, ElementOfSeq DEF Last
<1>3. ASSUME NEW n \in Nat, n <= Len(s)
      PROVE  /\ SubSeq(s, 1, n) \in Seq(S)
             /\ Len(SubSeq(s, 1, n)) = n
             /\ \A i \in 1..n : SubSeq(s, 1, n)[i] = s[i]
  BY <1>3
<1>4. Len(s) - 1 \in Nat /\ Len(s) - 1 <= Len(s)
  BY <1>1
<1>5. /\ Front(s) \in Seq(S)
      /\ Len(Front(s)) = Len(s) - 1
      /\ \A i \in 1..(Len(s) - 1) : Front(s)[i] = s[i]
  BY <1>3, <1>4, Zenon DEF Front
<1> QED
  BY <1>1, <1>2, <1>5

LEMMA AppendFacts ==
    ASSUME NEW S, NEW s \in Seq(S), NEW x \in S
    PROVE  /\ Append(s, x) \in Seq(S)
           /\ Append(s, x) # <<>>
           /\ Len(Append(s, x)) = Len(s) + 1
           /\ Len(s) \in Nat
           /\ Append(s, x)[Len(s) + 1] = x
           /\ \A i \in 1..Len(s) : Append(s, x)[i] = s[i]
           /\ Last(Append(s, x)) = x
  BY DEF Last

-----------------------------------------------------------------------------
(* Natural numbers one after the other: a set that has 0 and the next of    *)
(* each of its numbers has all of them, or the map to the next number would *)
(* be an injection of the numbers below one that it lacks into fewer.       *)
LEMMA Induct ==
    ASSUME NEW S \in SUBSET Nat, 0 \in S, \A n \in S : n + 1 \in S
    PROVE  Nat \subseteq S
<1> SUFFICES ASSUME NEW n \in Nat, n \notin S PROVE FALSE
  OBVIOUS
<1> DEFINE D == {k \in S : k < n}
           f == [k \in D |-> k + 1]
<1>0. n # 0 /\ n > 0
  OBVIOUS
<1>1. 0 \in D /\ IsFiniteSet(0..n) /\ D \in SUBSET (0..n)
  <2>1. IsFiniteSet(0..n)
    BY FS_Interval
  <2>2. 0 \in D
    BY <1>0
  <2>3. D \in SUBSET (0..n)
    <3>1. \A k \in Nat : k < n => k \in 0..n
      OBVIOUS
    <3> QED
      BY <3>1
  <2> QED
    BY <2>1, <2>2, <2>3
<1>2. IsFiniteSet(D)
  BY <1>1, FS_Subset
<1>3. \A k \in D : k + 1 \in D \ {0}
  OBVIOUS
<1>4. f \in [D -> D \ {0}]
  BY <1>3, Zenon
<1>5. \A j, k \in D : f[j] = f[k] => j = k
  OBVIOUS
<1>6. f \in Injection(D, D \ {0})
  BY <1>4, <1>5 DEF Injection, IsInjective
<1>7. IsFiniteSet(D \ {0}) /\ Cardinality(D \ {0}) = Cardinality(D) - 1
  BY <1>1, <1>2, FS_RemoveElement
<1>8. Cardinality(D) <= Cardinality(D \ {0})
  BY <1>6, <1>7, FS_Injection
<1>9. Cardinality(D) \in Nat
  BY <1>2, FS_CardinalityType
<1> QED
  BY <1>7, <1>8, <1>9

(* Ascending lists a finite set of numbers, in their order. *)
LEMMA AscendingFacts ==
    ASSUME NEW S \in SUBSET Int, IsFiniteSet(S)
    PROVE  /\ Cardinality(S) \in Nat
           /\ Ascending(S) \in [1..Cardinality(S) -> S]
           /\ \A i, j \in 1..Cardinality(S) : i < j => Ascending(S)[i] < Ascending(S)[j]
           /\ \A x \in S : \E k \in 1..Cardinality(S) : Ascending(S)[k] = x
<1> DEFINE n == Cardinality(S)
           up(x) == {y \in S : y <= x}
           r == [x \in S |-> Cardinality(up(x))]
<1>1. n \in Nat
  BY FS_CardinalityType
<1>2. ASSUME NEW x \in S PROVE IsFiniteSet(up(x)) /\ r[x] \in 1..n
  <2>1. up(x) \in SUBSET S /\ x \in up(x)
    OBVIOUS
  <2>2. IsFiniteSet(up(x)) /\ Cardinality(up(x)) <= n
    BY <2>1, FS_Subset
  <2>3. Cardinality(up(x)) \in Nat /\ Cardinality(up(x)) # 0
    BY <2>1, <2>2, FS_CardinalityType, FS_EmptySet
  <2> QED
    BY <2>2, <2>3, <1>1
<1>3. ASSUME NEW x \in S, NEW z \in S, x < z PROVE r[x] < r[z]
  <2>1. up(x) \in SUBSET up(z) /\ up(x) # up(z)
    <3>1. x \in Int /\ z \in Int
      OBVIOUS
    <3>2. \A y \in S : y \in Int /\ (y <= x => y <= z)
      BY <1>3, <3>1
    <3>3. z \in up(z) /\ z \notin up(x)
      BY <1>3, <3>1
    <3>4. \A y \in up(x) : y \in up(z)
      BY <3>2
    <3> QED
      BY <3>3, <3>4
  <2>2. IsFiniteSet(up(z)) /\ IsFiniteSet(up(x))
    BY <1>2
  <2>3. Cardinality(up(x)) <= Cardinality(up(z)) /\ Cardinality(up(z)) # Cardinality(up(x))
    BY <2>1, <2>2, FS_Subset
  <2>4. Cardinality(up(x)) \in Nat /\ Cardinality(up(z)) \in Nat
    BY <2>2, FS_CardinalityType
  <2> QED
    BY <2>3, <2>4
<1>4. r \in [S -> 1..n] /\ \A x, z \in S : r[x] = r[z] => x = z
  <2>1. r \in [S -> 1..n]
    BY <1>2
  <2>2. ASSUME NEW x \in S, NEW z \in S, x # z PROVE r[x] # r[z]
    <3>1. r[x] \in Int /\ r[z] \in Int
      BY <1>2
    <3>2. CASE x < z
      BY <1>3, <3>1, <3>2
    <3>3. CASE z < x
      BY <1>3, <3>1, <3>3
    <3> QED
      BY <2>2, <3>2, <3>3
  <2> QED
    BY <2>1, <2>2
<1>5. r \in Injection(S, 1..n)
  BY <1>4 DEF Injection, IsInjective
<1>6. IsFiniteSet(1..n) /\ Cardinality(1..n) = n
  BY <1>1, FS_Interval
<1>7. r \in Surjection(S, 1..n)
  BY <1>5, <1>6, FS_Injection
<1>8. \A k \in 1..n : \E x \in S : r[x] = k
  BY <1>7 DEF Surjection
<1> DEFINE s == Ascending(S)
<1>9. ASSUME NEW k \in 1..n PROVE s[k] \in S /\ r[s[k]] = k
  <2>1. s[k] = CHOOSE x \in S : Cardinality(up(x)) = k
    BY DEF Ascending
  <2>2. \E x \in S : Cardinality(up(x)) = k
    BY <1>8
  <2>3. s[k] \in S /\ Cardinality(up(s[k])) = k
    BY <2>1, <2>2
  <2> QED
    BY <2>3
<1>10. s \in [1..n -> S]
  <2>1. s = [k \in 1..n |-> CHOOSE x \in S : Cardinality(up(x)) = k]
    BY Zenon DEF Ascending
  <2> QED
    BY <1>9, <2>1
<1> HIDE DEF r, s
<1>11. ASSUME NEW i \in 1..n, NEW j \in 1..n, i < j PROVE s[i] < s[j]
  <2>1. s[i] \in Int /\ s[j] \in Int
    BY <1>9
  <2>2. s[i] # s[j]
    BY <1>9, <1>11
  <2>3. ~ (s[j] < s[i])
    <3> SUFFICES ASSUME s[j] < s[i] PROVE FALSE
      OBVIOUS
    <3>1. r[s[j]] < r[s[i]]
      BY <1>3, <1>9
    <3> QED
      BY <3>1, <1>9, <1>11, <1>1
  <2> QED
    BY <2>1, <2>2, <2>3
<1>12. ASSUME NEW x \in S PROVE \E k \in 1..n : s[k] = x
  <2>1. r[x] \in 1..n
    BY <1>2
  <2>2. s[r[x]] \in S /\ r[s[r[x]]] = r[x]
    BY <2>1, <1>9
  <2>3. s[r[x]] = x
    BY <2>2, <1>4
  <2> QED
    BY <2>1, <2>3
<1>13. n = Cardinality(S) /\ s = Ascending(S)
  BY DEF s
<1> QED
  BY <1>1, <1>10, <1>11, <1>12, <1>13

(* A set of numbers that is finite and not empty has a least one. *)
LEMMA LeastOf ==
    ASSUME NEW S \in SUBSET Int, IsFiniteSet(S), S # {}
    PROVE  \E m \in S : \A x \in S : m <= x
<1> DEFINE n == Cardinality(S)
           a == Ascending(S)
<1>1. /\ n \in Nat /\ a \in [1..n -> S]
      /\ \A i, j \in 1..n : i < j => a[i] < a[j]
      /\ \A x \in S : \E k \in 1..n : a[k] = x
  BY AscendingFacts, Zenon
<1> HIDE DEF n, a
<1>2. 1 \in 1..n
  <2>1. PICK x \in S : TRUE
    OBVIOUS
  <2>2. PICK k \in 1..n : a[k] = x
    BY <1>1, <2>1
  <2> QED
    BY <1>1, <2>2
<1>3. a[1] \in S
  BY <1>1, <1>2
<1>4. ASSUME NEW x \in S PROVE a[1] <= x
  <2>1. PICK k \in 1..n : a[k] = x
    BY <1>1
  <2>2. 1 < k => a[1] < a[k]
    BY <1>1, <1>2
  <2>3. a[1] \in Int /\ x \in Int
    BY <1>3
  <2>4. CASE k = 1
    BY <2>1, <2>3, <2>4
  <2>5. CASE k # 1
    BY <1>1, <2>1, <2>2, <2>3, <2>5
  <2> QED
    BY <2>4, <2>5
<1> QED
  BY <1>3, <1>4

(* Picked lists what a sequence has at some positions, in their order. *)
LEMMA PickedFacts ==
    ASSUME NEW T, NEW s \in Seq(T), NEW K \in SUBSET (1..Len(s))
    PROVE  /\ Picked(s, K) \in Seq(T)
           /\ Len(Picked(s, K)) = Cardinality(K) /\ Cardinality(K) \in Nat
           /\ \A k \in 1..Cardinality(K) :
                 Ascending(K)[k] \in K /\ Picked(s, K)[k] = s[Ascending(K)[k]]
           /\ \A i, j \in 1..Cardinality(K) : i < j => Ascending(K)[i] < Ascending(K)[j]
           /\ \A x \in K : \E k \in 1..Cardinality(K) : Ascending(K)[k] = x
<1>1. IsFiniteSet(1..Len(s)) /\ K \in SUBSET Int
  BY FS_Interval
<1>2. IsFiniteSet(K)
  BY <1>1, FS_Subset
<1>3. /\ Cardinality(K) \in Nat
      /\ Ascending(K) \in [1..Cardinality(K) -> K]
      /\ \A i, j \in 1..Cardinality(K) : i < j => Ascending(K)[i] < Ascending(K)[j]
      /\ \A x \in K : \E k \in 1..Cardinality(K) : Ascending(K)[k] = x
  BY <1>1, <1>2, AscendingFacts, Zenon
<1> DEFINE n == Cardinality(K)
           a == Ascending(K)
<1> HIDE DEF n, a
<1>4. \A k \in 1..n : a[k] \in K
  BY <1>3, Zenon DEF n, a
<1>5. Picked(s, K) = [k \in 1..n |-> s[a[k]]]
  BY Zenon DEF Picked, n, a
<1>6. n \in Nat
  BY <1>3 DEF n
<1>7. \A k \in 1..n : s[a[k]] \in T
  <2>1. \A k \in 1..n : a[k] \in 1..Len(s)
    BY <1>4
  <2> QED
    BY <2>1, ElementOfSeq, Zenon
<1>8. Picked(s, K) \in Seq(T) /\ Len(Picked(s, K)) = n
  BY <1>5, <1>6, <1>7, IsASeq
<1>9. \A k \in 1..n : Picked(s, K)[k] = s[a[k]]
  BY <1>5
<1> QED
  BY <1>3, <1>4, <1>8, <1>9, Zenon DEF n, a

(* The values of a function on 1..n that takes none twice.                  *)
NoneTwice(f, n) == \A i, j \in 1..n : f[i] = f[j] => i = j
ValuesIn(f, n) == {f[i] : i \in 1..n}

LEMMA CountValues ==
    ASSUME NEW n \in Nat, NEW f, NoneTwice(f, n)
    PROVE  IsFiniteSet(ValuesIn(f, n)) /\ Cardinality(ValuesIn(f, n)) = n
<1> USE DEF NoneTwice, ValuesIn
<1> DEFINE V == {f[i] : i \in 1..n}
           b == [i \in 1..n |-> f[i]]
<1>1. b \in [1..n -> V] /\ \A i, j \in 1..n : b[i] = b[j] => i = j
  OBVIOUS
<1>2. \A v \in V : \E i \in 1..n : b[i] = v
  OBVIOUS
<1>3. b \in Bijection(1..n, V)
  BY <1>1, <1>2, Zenon DEF Bijection, Injection, Surjection, IsInjective
<1>4. ExistsBijection(1..n, V)
  BY <1>3, Zenon DEF ExistsBijection
<1> QED
  BY <1>4, FS_CountingElements, FS_NatBijection, Zenon

(* What two lists have in common in what they hold and its order, they have *)
(* in common.                                                               *)
LEMMA SameOrder ==
    ASSUME NEW m \in Nat, NEW n \in Nat, NEW f, NEW g,
           NoneTwice(f, m), NoneTwice(g, n), ValuesIn(f, m) = ValuesIn(g, n),
           \A i, j \in 1..m, k, l \in 1..n : f[i] = g[k] /\ f[j] = g[l] /\ i < j => k < l
    PROVE  m = n /\ \A i \in 1..m : f[i] = g[i]
<1>1. m = n
  <2>1. Cardinality(ValuesIn(f, m)) = m /\ Cardinality(ValuesIn(g, n)) = n
    BY CountValues, Zenon
  <2> QED
    BY <2>1, Zenon
<1>2. ASSUME NEW i \in 1..m PROVE f[i] = g[i]
  <2>1. PICK k \in 1..n : g[k] = f[i]
    BY DEF ValuesIn
  <2>2. ASSUME NEW j \in 1..i PROVE \E l \in 1..k : g[l] = f[j]
    <3>0. j \in 1..m
      OBVIOUS
    <3>1. PICK l \in 1..n : g[l] = f[j]
      BY <3>0 DEF ValuesIn
    <3>2. l <= k
      BY <2>1, <3>1 DEF NoneTwice
    <3> QED
      BY <3>1, <3>2
  <2>3. ASSUME NEW l \in 1..k PROVE \E j \in 1..i : f[j] = g[l]
    <3>0. l \in 1..n
      OBVIOUS
    <3>1. PICK j \in 1..m : f[j] = g[l]
      BY <3>0 DEF ValuesIn
    <3>2. j <= i
      BY <2>1, <3>0, <3>1 DEF NoneTwice
    <3> QED
      BY <3>1, <3>2
  <2>4. ValuesIn(f, i) = ValuesIn(g, k)
    BY <2>2, <2>3 DEF ValuesIn
  <2>5. i \in Nat /\ k \in Nat /\ 1..i \subseteq 1..m /\ 1..k \subseteq 1..n
    OBVIOUS
  <2>6. Cardinality(ValuesIn(f, i)) = i
    <3>1. NoneTwice(f, i)
      BY <2>5 DEF NoneTwice
    <3> QED
      BY <2>5, <3>1, CountValues, Zenon
  <2>7. Cardinality(ValuesIn(g, k)) = k
    <3>1. NoneTwice(g, k)
      BY <2>5 DEF NoneTwice
    <3> QED
      BY <2>5, <3>1, CountValues, Zenon
  <2> QED
    BY <2>1, <2>4, <2>6, <2>7
<1> QED
  BY <1>1, <1>2

(* A number above all of a set comes last of the set and it.                *)
LEMMA AscendingGrows ==
    ASSUME NEW S \in SUBSET Int, IsFiniteSet(S), NEW n \in Int, \A x \in S : x < n
    PROVE  /\ IsFiniteSet(S \cup {n})
           /\ Cardinality(S \cup {n}) = Cardinality(S) + 1
           /\ Cardinality(S) \in Nat
           /\ Ascending(S \cup {n})[Cardinality(S) + 1] = n
           /\ \A k \in 1..Cardinality(S) : Ascending(S \cup {n})[k] = Ascending(S)[k]
<1> DEFINE U == S \cup {n}
           m == Cardinality(S)
           a == Ascending(S)
           f == Ascending(U)
           g == [k \in 1..(m + 1) |-> IF k = m + 1 THEN n ELSE a[k]]
<1>1. /\ m \in Nat /\ a \in [1..m -> S]
      /\ \A i, j \in 1..m : i < j => a[i] < a[j]
      /\ \A x \in S : \E k \in 1..m : a[k] = x
  BY AscendingFacts
<1>2. IsFiniteSet(U) /\ Cardinality(U) = m + 1 /\ U \in SUBSET Int
  BY <1>1, FS_AddElement
<1>3. /\ f \in [1..(m + 1) -> U]
      /\ \A i, j \in 1..(m + 1) : i < j => f[i] < f[j]
      /\ \A x \in U : \E k \in 1..(m + 1) : f[k] = x
  BY <1>2, AscendingFacts
<1> HIDE DEF a, f, U, m
<1>4. /\ g[m + 1] = n /\ m + 1 \in 1..(m + 1)
      /\ \A k \in 1..m : g[k] = a[k] /\ k \in 1..(m + 1) /\ a[k] \in S /\ k # m + 1
      /\ \A k \in 1..(m + 1) : k = m + 1 \/ k \in 1..m
  BY <1>1
<1> HIDE DEF g
<1>5. \A i, j \in 1..(m + 1) : i < j => g[i] < g[j]
  <2> SUFFICES ASSUME NEW i \in 1..(m + 1), NEW j \in 1..(m + 1), i < j PROVE g[i] < g[j]
    OBVIOUS
  <2>1. i \in 1..m
    BY <1>1
  <2>2. CASE j = m + 1
    BY <1>4, <2>1, <2>2
  <2>3. CASE j \in 1..m
    BY <1>1, <1>4, <2>1, <2>3
  <2> QED
    BY <1>4, <2>2, <2>3
<1>6. \A k \in 1..(m + 1) : g[k] \in U /\ f[k] \in U /\ g[k] \in Int /\ f[k] \in Int
  <2>1. \A k \in 1..(m + 1) : g[k] \in U
    BY <1>4 DEF U
  <2> QED
    BY <1>2, <1>3, <2>1
<1>7. NoneTwice(f, m + 1) /\ NoneTwice(g, m + 1)
  <2>1. ASSUME NEW h, \A i, j \in 1..(m + 1) : i < j => h[i] < h[j],
               \A k \in 1..(m + 1) : h[k] \in Int
        PROVE  NoneTwice(h, m + 1)
    <3> SUFFICES ASSUME NEW i \in 1..(m + 1), NEW j \in 1..(m + 1), h[i] = h[j], i # j PROVE FALSE
      BY DEF NoneTwice
    <3>1. i < j \/ j < i
      BY <1>1
    <3>2. h[i] < h[j] \/ h[j] < h[i]
      BY <2>1, <3>1
    <3> QED
      BY <2>1, <3>2
  <2>2. NoneTwice(f, m + 1)
    BY <1>3, <1>6, <2>1
  <2>3. NoneTwice(g, m + 1)
    BY <1>5, <1>6, <2>1
  <2> QED
    BY <2>2, <2>3
<1>8. ValuesIn(f, m + 1) = U /\ ValuesIn(g, m + 1) = U
  <2>1. ValuesIn(f, m + 1) = U
    BY <1>3, <1>6 DEF ValuesIn
  <2>2. \A x \in U : \E k \in 1..(m + 1) : g[k] = x
    BY <1>1, <1>4 DEF U
  <2>3. ValuesIn(g, m + 1) = U
    BY <1>6, <2>2 DEF ValuesIn
  <2> QED
    BY <2>1, <2>3
<1>9. \A i, j \in 1..(m + 1), k, l \in 1..(m + 1) : f[i] = g[k] /\ f[j] = g[l] /\ i < j => k < l
  <2> SUFFICES ASSUME NEW i \in 1..(m + 1), NEW j \in 1..(m + 1), NEW k \in 1..(m + 1), NEW l \in 1..(m + 1),
                      f[i] = g[k], f[j] = g[l], i < j, ~(k < l)
               PROVE  FALSE
    OBVIOUS
  <2>1. f[i] < f[j]
    BY <1>3
  <2>2. k = l \/ l < k
    BY <1>1
  <2>3. g[k] = g[l] \/ g[l] < g[k]
    BY <1>5, <2>2
  <2> QED
    BY <1>6, <2>1, <2>3
<1>10. \A i \in 1..(m + 1) : f[i] = g[i]
  <2> DEFINE p == m + 1
  <2>1. p \in Nat
    BY <1>1
  <2>2. NoneTwice(f, p) /\ NoneTwice(g, p) /\ ValuesIn(f, p) = ValuesIn(g, p)
    BY <1>7, <1>8
  <2>3. \A i, j \in 1..p, k, l \in 1..p : f[i] = g[k] /\ f[j] = g[l] /\ i < j => k < l
    BY <1>9
  <2> HIDE DEF p
  <2>4. \A i \in 1..p : f[i] = g[i]
    BY <2>1, <2>2, <2>3, SameOrder
  <2> QED
    BY <2>4 DEF p
<1>11. /\ IsFiniteSet(U) /\ Cardinality(U) = m + 1 /\ m \in Nat
       /\ f[m + 1] = n /\ \A k \in 1..m : f[k] = a[k]
  BY <1>1, <1>2, <1>4, <1>10
<1> QED
  BY <1>11 DEF a, f, U, m

-----------------------------------------------------------------------------
(* Lists.                                                                   *)

LEMMA ListFacts ==
    ASSUME NEW s, IsList(s)
    PROVE  /\ Len(s) \in Nat /\ DOMAIN s = 1..Len(s)
           /\ s = [i \in 1..Len(s) |-> s[i]]
  BY DEF IsList

LEMMA ListOf ==
    ASSUME NEW n \in Nat, NEW s, s = [i \in 1..n |-> s[i]]
    PROVE  IsList(s) /\ Len(s) = n /\ DOMAIN s = 1..n
<1> DEFINE T == {s[i] : i \in 1..n}
<1>1. s \in [1..n -> T] /\ DOMAIN s = 1..n
  BY Zenon
<1>2. s \in Seq(T) /\ Len(s) = n
  BY <1>1
<1> QED
  BY <1>1, <1>2 DEF IsList

LEMMA ListSeq ==
    ASSUME NEW T, NEW s \in Seq(T)
    PROVE  IsList(s) /\ Len(s) \in Nat /\ DOMAIN s = 1..Len(s)
<1>1. Len(s) \in Nat /\ s \in [1..Len(s) -> T] /\ DOMAIN s = 1..Len(s)
  BY LenProperties
<1>2. s = [i \in 1..Len(s) |-> s[i]]
  BY <1>1
<1> QED
  BY <1>1, <1>2, ListOf

LEMMA ListAppend ==
    ASSUME NEW s, IsList(s), NEW x
    PROVE  /\ IsList(Append(s, x))
           /\ DOMAIN Append(s, x) = 1..(Len(s) + 1)
           /\ Append(s, x)[Len(s) + 1] = x
           /\ \A i \in 1..Len(s) : Append(s, x)[i] = s[i]
<1> DEFINE T == {s[i] : i \in DOMAIN s} \cup {x}
<1>1. s \in Seq(T) /\ x \in T
  BY DEF IsList
<1>2. /\ Append(s, x) \in Seq(T)
      /\ Len(Append(s, x)) = Len(s) + 1
      /\ Append(s, x)[Len(s) + 1] = x
      /\ \A i \in 1..Len(s) : Append(s, x)[i] = s[i]
  BY <1>1, AppendFacts
<1>3. Len(s) \in Nat /\ DOMAIN Append(s, x) = 1..(Len(s) + 1)
  BY <1>1, <1>2
<1>4. IsList(Append(s, x))
  BY <1>2, ListSeq
<1> QED
  BY <1>2, <1>3, <1>4

LEMMA ListPicked ==
    ASSUME NEW s, IsList(s), NEW K \in SUBSET DOMAIN s
    PROVE  /\ IsList(Picked(s, K))
           /\ Len(Picked(s, K)) = Cardinality(K) /\ Cardinality(K) \in Nat
           /\ \A k \in 1..Cardinality(K) :
                 Ascending(K)[k] \in K /\ Picked(s, K)[k] = s[Ascending(K)[k]]
           /\ \A i, j \in 1..Cardinality(K) : i < j => Ascending(K)[i] < Ascending(K)[j]
           /\ \A x \in K : \E k \in 1..Cardinality(K) : Ascending(K)[k] = x
<1> DEFINE T == {s[i] : i \in DOMAIN s}
<1>1. s \in Seq(T) /\ K \in SUBSET (1..Len(s))
  BY ListFacts DEF IsList
<1> HIDE DEF T
<1>2. /\ Picked(s, K) \in Seq(T)
      /\ Len(Picked(s, K)) = Cardinality(K) /\ Cardinality(K) \in Nat
      /\ \A k \in 1..Cardinality(K) :
            Ascending(K)[k] \in K /\ Picked(s, K)[k] = s[Ascending(K)[k]]
      /\ \A i, j \in 1..Cardinality(K) : i < j => Ascending(K)[i] < Ascending(K)[j]
      /\ \A x \in K : \E k \in 1..Cardinality(K) : Ascending(K)[k] = x
  BY <1>1, PickedFacts
<1>3. IsList(Picked(s, K))
  BY <1>2, ListSeq
<1> QED
  BY <1>2, <1>3

LEMMA NoList == IsList(<<>>) /\ DOMAIN <<>> = {} /\ Len(<<>>) = 0
  BY ListSeq DEF IsList

(* Pages.                                                                   *)
LEMMA ListEqual ==
    ASSUME NEW s, NEW t, IsList(s), IsList(t), Len(s) = Len(t), \A i \in 1..Len(s) : s[i] = t[i]
    PROVE  s = t
<1>1. s = [i \in 1..Len(s) |-> s[i]] /\ t = [i \in 1..Len(s) |-> t[i]]
  BY ListFacts
<1> QED
  BY <1>1

(* A part of a list. *)
LEMMA ListPart ==
    ASSUME NEW s, IsList(s), NEW a \in Nat, NEW b \in Nat, b <= Len(s)
    PROVE  LET t == SubSeq(s, a + 1, b)
           IN  /\ IsList(t) /\ Len(t) = IF a < b THEN b - a ELSE 0
               /\ \A i \in 1..Len(t) : t[i] = s[a + i]
<1> DEFINE T == {s[i] : i \in DOMAIN s}
           t == SubSeq(s, a + 1, b)
           n == Len(s)
<1>1. n \in Nat /\ DOMAIN s = 1..n
  BY ListFacts
<1>2. \A i \in (a + 1)..b : s[i] \in T
  <2> HIDE DEF n
  <2> SUFFICES ASSUME NEW i \in (a + 1)..b PROVE i \in DOMAIN s
    OBVIOUS
  <2> QED
    BY <1>1 DEF n
<1> HIDE DEF T, n
<1>3. a + 1 \in Int /\ b \in Int
  OBVIOUS
<1>4. /\ t \in Seq(T)
      /\ Len(t) = IF a + 1 <= b THEN b - (a + 1) + 1 ELSE 0
      /\ \A i \in 1..(b - (a + 1) + 1) : t[i] = s[(a + 1) + i - 1]
  BY <1>2, <1>3, SubSeqProperties
<1> HIDE DEF t
<1>5. Len(t) = IF a < b THEN b - a ELSE 0
  BY <1>4
<1>6. ASSUME NEW i \in 1..Len(t) PROVE t[i] = s[a + i]
  <2>1. i \in 1..(b - (a + 1) + 1) /\ (a + 1) + i - 1 = a + i
    BY <1>5
  <2> QED
    BY <1>4, <2>1
<1> QED
  BY <1>4, <1>5, <1>6, ListSeq DEF t

(* Inserting in front of a place, and the parts of a list.                  *)
LEMMA InsertAtFacts ==
    ASSUME NEW s, IsList(s), NEW m \in 0..Len(s), NEW x
    PROVE  LET t == InsertAt(s, m + 1, x)
           IN  /\ IsList(t) /\ Len(t) = Len(s) + 1
               /\ \A i \in 1..m : t[i] = s[i]
               /\ t[m + 1] = x
               /\ \A i \in (m + 2)..(Len(s) + 1) : t[i] = s[i - 1]
<1> DEFINE n == Len(s)
           T == {s[i] : i \in DOMAIN s} \cup {x}
           a == SubSeq(s, 1, m)
           b == <<x>>
           c == SubSeq(s, m + 1, n)
           t == (a \o b) \o c
<1>1. n \in Nat /\ DOMAIN s = 1..n /\ \A i \in 1..n : s[i] \in T
  BY ListFacts
<1> HIDE DEF n, T
<1>2. m \in Int /\ m + 1 \in Int /\ n \in Int /\ m <= n /\ 0 <= m
  BY <1>1 DEF n
<1>3. a \in Seq(T) /\ Len(a) = m /\ \A i \in 1..m : a[i] = s[i]
  <2>1. \A i \in 1..m : s[i] \in T
    BY <1>1, <1>2
  <2>2. /\ SubSeq(s, 1, m) \in Seq(T)
        /\ Len(SubSeq(s, 1, m)) = IF 1 <= m THEN m - 1 + 1 ELSE 0
        /\ \A i \in 1..(m - 1 + 1) : SubSeq(s, 1, m)[i] = s[1 + i - 1]
    BY <1>2, <2>1, SubSeqProperties
  <2> QED
    BY <1>2, <2>2
<1>4. c \in Seq(T) /\ Len(c) = n - m /\ \A i \in 1..(n - m) : c[i] = s[m + i]
  <2>1. \A i \in (m + 1)..n : s[i] \in T
    BY <1>1, <1>2
  <2>2. /\ SubSeq(s, m + 1, n) \in Seq(T)
        /\ Len(SubSeq(s, m + 1, n)) = IF m + 1 <= n THEN n - (m + 1) + 1 ELSE 0
        /\ \A i \in 1..(n - (m + 1) + 1) : SubSeq(s, m + 1, n)[i] = s[(m + 1) + i - 1]
    BY <1>2, <2>1, SubSeqProperties
  <2>3. \A i \in 1..(n - m) : i \in 1..(n - (m + 1) + 1) /\ (m + 1) + i - 1 = m + i
    BY <1>2
  <2> QED
    BY <1>2, <2>2, <2>3
<1>5. b \in Seq(T) /\ Len(b) = 1 /\ b[1] = x
  BY DEF T
<1> HIDE DEF a, b, c
<1>6. /\ a \o b \in Seq(T) /\ Len(a \o b) = m + 1
      /\ \A i \in 1..(m + 1) : (a \o b)[i] = IF i <= m THEN a[i] ELSE b[i - m]
  <2>1. /\ a \o b \in Seq(T) /\ Len(a \o b) = Len(a) + Len(b)
        /\ \A i \in 1..(Len(a) + Len(b)) : (a \o b)[i] = IF i <= Len(a) THEN a[i] ELSE b[i - Len(a)]
    BY <1>3, <1>5, ConcatProperties, Zenon
  <2> QED
    BY <1>3, <1>5, <2>1, Zenon
<1>7. /\ t \in Seq(T) /\ Len(t) = n + 1
      /\ \A i \in 1..(n + 1) : t[i] = IF i <= m + 1 THEN (a \o b)[i] ELSE c[i - (m + 1)]
  <2> DEFINE u == a \o b
  <2>1. u \in Seq(T) /\ Len(u) = m + 1
    BY <1>6
  <2> HIDE DEF u
  <2>2. /\ u \o c \in Seq(T) /\ Len(u \o c) = Len(u) + Len(c)
        /\ \A i \in 1..(Len(u) + Len(c)) : (u \o c)[i] = IF i <= Len(u) THEN u[i] ELSE c[i - Len(u)]
    BY <1>4, <2>1, ConcatProperties, Zenon
  <2>3. Len(u) + Len(c) = n + 1
    BY <1>2, <1>4, <2>1
  <2> QED
    BY <2>1, <2>2, <2>3, Zenon DEF u
<1>8. t = InsertAt(s, m + 1, x)
  <2>1. InsertAt(s, m + 1, x) = (SubSeq(s, 1, (m + 1) - 1) \o <<x>>) \o SubSeq(s, m + 1, Len(s))
    BY Zenon DEF InsertAt
  <2>2. (m + 1) - 1 = m
    BY <1>2
  <2> QED
    BY <2>1, <2>2, Zenon DEF a, b, c, n
<1> HIDE DEF t
<1>9. \A i \in 1..m : t[i] = s[i]
  BY <1>2, <1>3, <1>6, <1>7
<1>10. t[m + 1] = x
  <2>1. m + 1 \in 1..(n + 1) /\ m + 1 \in 1..(m + 1) /\ ~(m + 1 <= m) /\ (m + 1) - m = 1
    BY <1>2
  <2> QED
    BY <1>2, <1>5, <1>6, <1>7, <2>1, SMTT(30)
<1>11. ASSUME NEW i \in (m + 2)..(n + 1) PROVE t[i] = s[i - 1]
  <2>1. i \in 1..(n + 1) /\ ~(i <= m + 1) /\ i - (m + 1) \in 1..(n - m) /\ m + (i - (m + 1)) = i - 1
    BY <1>2
  <2> QED
    BY <1>4, <1>7, <2>1
<1>12. IsList(t)
  BY <1>7, ListSeq
<1> QED
  BY <1>7, <1>8, <1>9, <1>10, <1>11, <1>12 DEF n

(* The greatest of a set of places, and 0 if there is none.                 *)
LEMMA LastPlace ==
    ASSUME NEW n \in Nat, NEW K \in SUBSET (1..n)
    PROVE  LET m == IF K = {} THEN 0 ELSE Max(K)
           IN  m \in 0..n /\ (m = 0 \/ m \in K) /\ \A k \in K : k <= m
<1>1. CASE K = {}
  BY <1>1
<1>2. CASE K # {}
  <2> DEFINE N == {n - k : k \in K}
  <2>0. \A k \in K : n - k \in 0..n
    OBVIOUS
  <2>1. N \in SUBSET (0..n) /\ IsFiniteSet(0..n) /\ N # {} /\ N \in SUBSET Int
    <3>1. N \in SUBSET (0..n)
      BY <2>0
    <3>2. N # {}
      BY <1>2
    <3>3. IsFiniteSet(0..n)
      BY FS_Interval
    <3>4. 0..n \in SUBSET Int
      OBVIOUS
    <3> HIDE DEF N
    <3> QED
      BY <3>1, <3>2, <3>3, <3>4
  <2>2. IsFiniteSet(N)
    BY <2>1, FS_Subset
  <2>3. PICK x \in N : \A y \in N : x <= y
    BY <2>1, <2>2, LeastOf
  <2>4. PICK k \in K : x = n - k
    OBVIOUS
  <2>5. \A l \in K : k >= l
    <3> SUFFICES ASSUME NEW l \in K PROVE k >= l
      OBVIOUS
    <3>1. n - l \in N
      OBVIOUS
    <3>2. n - k <= n - l
      BY <2>3, <2>4, <3>1
    <3>3. l \in Int /\ k \in Int
      OBVIOUS
    <3> QED
      BY <3>2, <3>3
  <2>6. Max(K) \in K /\ \A l \in K : Max(K) >= l
    BY <2>5 DEF Max
  <2>7. Max(K) \in 1..n /\ \A l \in K : l \in 1..n
    BY <2>6
  <2> QED
    BY <1>2, <2>6, <2>7
<1> QED
  BY <1>1, <1>2

(* One list after the other. *)
Joins(parts, g) ==
    g[1] = parts[1] /\ \A i \in 2..Len(parts) : g[i] = g[i - 1] \o parts[i]

LEMMA FlattenFacts ==
    ASSUME NEW n \in Nat \ {0}, NEW parts, Len(parts) = n, NEW g, Joins(parts, g)
    PROVE  FlattenSeq(parts) = g[n]
<1>0. g[1] = parts[1] /\ \A i \in 2..n : g[i] = g[i - 1] \o parts[i]
  BY DEF Joins
<1> DEFINE Nth(f, i) == IF i = 1 THEN parts[i] ELSE f[i - 1] \o parts[i]
           h == [i \in 1..n |-> g[i]]
           f == CHOOSE f : f = [i \in 1..n |-> Nth(f, i)]
<1>1. h = [i \in 1..n |-> Nth(h, i)]
  <2>1. ASSUME NEW i \in 1..n PROVE h[i] = Nth(h, i)
    <3>1. CASE i = 1
      BY <1>0, <3>1
    <3>2. CASE i # 1
      <4>1. i \in 2..n /\ i - 1 \in 1..n
        BY <3>2
      <4> QED
        BY <1>0, <3>2, <4>1
    <3> QED
      BY <3>1, <3>2
  <2> QED
    BY <2>1
<1>2. f = [i \in 1..n |-> Nth(f, i)]
  <2> HIDE DEF h, Nth
  <2> QED
    BY <1>1
<1>3. FlattenSeq(parts) = f[n]
  BY DEF FlattenSeq
<1> HIDE DEF f
<1> DEFINE S == {i \in Nat : i \in 1..n => f[i] = g[i]}
<1>4. 0 \in S
  OBVIOUS
<1>5. ASSUME NEW i \in S PROVE i + 1 \in S
  <2>1. CASE i = 0
    <3>1. 1 \in 1..n /\ i + 1 = 1
      BY <2>1
    <3>2. f[1] = parts[1]
      BY <1>2, <3>1
    <3> QED
      BY <1>0, <3>1, <3>2
  <2>2. CASE i # 0 /\ i + 1 \in 1..n
    <3>1. i \in 1..n /\ i + 1 \in 2..n /\ (i + 1) - 1 = i /\ i + 1 # 1
      BY <2>2
    <3>2. f[i + 1] = f[i] \o parts[i + 1]
      BY <1>2, <2>2, <3>1
    <3>3. g[i + 1] = g[i] \o parts[i + 1]
      <4>1. g[i + 1] = g[(i + 1) - 1] \o parts[i + 1]
        BY <1>0, <3>1
      <4> QED
        BY <3>1, <4>1
    <3>4. f[i] = g[i]
      BY <1>5, <3>1
    <3>5. f[i + 1] = g[i + 1]
      BY <3>2, <3>3, <3>4
    <3> QED
      BY <3>5
  <2> QED
    BY <2>1, <2>2
<1>6. S \in SUBSET Nat
  OBVIOUS
<1> HIDE DEF S
<1>7. n \in S
  BY <1>4, <1>5, <1>6, Induct
<1> QED
  BY <1>3, <1>7 DEF S

LEMMA PickedAll ==
    ASSUME NEW s, IsList(s)
    PROVE  Picked(s, DOMAIN s) = s
<1> DEFINE n == Len(s)
           K == 1..n
<1>1. n \in Nat /\ DOMAIN s = K
  BY ListFacts
<1>2. Cardinality(K) = n
  <2>1. 1 \in Int /\ n \in Int
    BY <1>1
  <2>2. Cardinality(K) = IF 1 > n THEN 0 ELSE n - 1 + 1
    BY <2>1, FS_Interval, Zenon
  <2> QED
    BY <1>1, <2>2
<1>3. ASSUME NEW x \in K PROVE Cardinality({y \in K : y <= x}) = x
  <2>1. {y \in K : y <= x} = 1..x
    BY <1>1
  <2>2. x \in Int /\ 1 \in Int /\ x > 0
    BY <1>1
  <2>3. Cardinality(1..x) = IF 1 > x THEN 0 ELSE x - 1 + 1
    BY <2>2, FS_Interval, Zenon
  <2>4. Cardinality(1..x) = x
    BY <2>2, <2>3
  <2> QED
    BY <2>1, <2>4
<1>4. ASSUME NEW k \in K PROVE Ascending(K)[k] = k
  <2> DEFINE At(x) == Cardinality({y \in K : y <= x})
  <2>1. Ascending(K)[k] = CHOOSE x \in K : At(x) = k
    BY <1>2 DEF Ascending
  <2>2. \A x \in K : At(x) = x
    BY <1>3
  <2> HIDE DEF At, K
  <2>3. (CHOOSE x \in K : At(x) = k) = k
    BY <2>2
  <2> QED
    BY <2>1, <2>3
<1> HIDE DEF K
<1>5. /\ IsList(Picked(s, K)) /\ Len(Picked(s, K)) = n
      /\ \A k \in 1..n : Picked(s, K)[k] = s[Ascending(K)[k]]
  <2>1. K \in SUBSET DOMAIN s
    BY <1>1
  <2>2. PICK c : c = Cardinality(K)
    OBVIOUS
  <2>3. /\ IsList(Picked(s, K)) /\ Len(Picked(s, K)) = c
        /\ \A k \in 1..c : Picked(s, K)[k] = s[Ascending(K)[k]]
    BY <2>1, <2>2, ListPicked
  <2> QED
    BY <1>2, <2>2, <2>3
<1>6. \A k \in 1..n : Picked(s, K)[k] = s[k]
  BY <1>4, <1>5 DEF K
<1>7. Picked(s, K) = s
  BY <1>5, <1>6, ListEqual
<1> QED
  BY <1>1, <1>7

-----------------------------------------------------------------------------
(* Totals.                                                                  *)

(* Sums of numbers of which some may be NaN. *)
Sums == {{}} \cup {{n} : n \in Int}

LEMMA PlusFacts ==
    /\ \A a, b \in Sums : Plus(a, b) \in Sums /\ Plus(a, b) = Plus(b, a)
    /\ \A a, b, c \in Sums : Plus(Plus(a, b), c) = Plus(a, Plus(b, c))
    /\ \A a \in Sums : Plus(a, {0}) = a
    /\ \A m, n \in Int : Plus({m}, {n}) = {m + n}
    /\ \A n \in Int : {n} \in Sums
<1>1. \A m, n \in Int : Plus({m}, {n}) = {m + n}
  BY DEF Plus
<1>2. \A a : Plus(a, {}) = {} /\ Plus({}, a) = {}
  BY DEF Plus
<1>3. \A a : a \in Sums <=> (a = {} \/ \E n \in Int : a = {n})
  BY DEF Sums
<1>4. \A n \in Int : {n} \in Sums
  BY <1>3
<1>5. {} \in Sums
  BY <1>3
<1>6. ASSUME NEW a \in Sums, NEW b \in Sums PROVE Plus(a, b) \in Sums /\ Plus(a, b) = Plus(b, a)
  <2>1. CASE a = {} \/ b = {}
    BY <1>2, <1>5, <2>1
  <2>2. CASE \E m, n \in Int : a = {m} /\ b = {n}
    <3>1. PICK m \in Int, n \in Int : a = {m} /\ b = {n}
      BY <2>2
    <3>2. m + n = n + m /\ m + n \in Int
      OBVIOUS
    <3>3. Plus(a, b) = {m + n} /\ Plus(b, a) = {n + m}
      BY <1>1, <3>1
    <3> QED
      BY <1>4, <3>2, <3>3
  <2> QED
    BY <1>3, <2>1, <2>2
<1>7. ASSUME NEW a \in Sums, NEW b \in Sums, NEW c \in Sums PROVE Plus(Plus(a, b), c) = Plus(a, Plus(b, c))
  <2>1. CASE a = {} \/ b = {} \/ c = {}
    BY <1>2, <2>1
  <2>2. CASE \E m, n, k \in Int : a = {m} /\ b = {n} /\ c = {k}
    <3>1. PICK m \in Int, n \in Int, k \in Int : a = {m} /\ b = {n} /\ c = {k}
      BY <2>2
    <3>2. m + n \in Int /\ n + k \in Int /\ (m + n) + k = m + (n + k)
      OBVIOUS
    <3>3. Plus(Plus(a, b), c) = {(m + n) + k} /\ Plus(a, Plus(b, c)) = {m + (n + k)}
      BY <1>1, <3>1, <3>2
    <3> QED
      BY <3>2, <3>3
  <2> QED
    BY <1>3, <2>1, <2>2
<1>8. ASSUME NEW a \in Sums PROVE Plus(a, {0}) = a
  <2>1. CASE a = {}
    BY <1>2, <2>1
  <2>2. CASE \E m \in Int : a = {m}
    <3>1. PICK m \in Int : a = {m}
      BY <2>2
    <3>2. m + 0 = m /\ 0 \in Int
      OBVIOUS
    <3> QED
      BY <1>1, <3>1, <3>2
  <2> QED
    BY <1>3, <2>1, <2>2
<1> QED
  BY <1>1, <1>4, <1>6, <1>7, <1>8

(* A total, one part after the other.                                       *)
Accrues(parts, t) ==
    t[0] = {0} /\ \A i \in 1..Len(parts) : t[i] = Plus(t[i - 1], parts[i])

LEMMA TotalBy ==
    ASSUME NEW parts, Len(parts) \in Nat, NEW t, Accrues(parts, t)
    PROVE  Total(parts) = t[Len(parts)]
<1> DEFINE n == Len(parts)
           Nth(f, i) == IF i = 0 THEN {0} ELSE Plus(f[i - 1], parts[i])
           h == [i \in 0..n |-> t[i]]
           f == CHOOSE f : f = [i \in 0..n |-> Nth(f, i)]
<1>0. t[0] = {0} /\ \A i \in 1..n : t[i] = Plus(t[i - 1], parts[i])
  BY DEF Accrues
<1>1. h = [i \in 0..n |-> Nth(h, i)]
  <2>1. ASSUME NEW i \in 0..n PROVE h[i] = Nth(h, i)
    <3>1. CASE i = 0
      BY <1>0, <3>1
    <3>2. CASE i # 0
      <4>1. i \in 1..n /\ i - 1 \in 0..n
        BY <3>2
      <4> QED
        BY <1>0, <3>2, <4>1
    <3> QED
      BY <3>1, <3>2
  <2> QED
    BY <2>1
<1>2. f = [i \in 0..n |-> Nth(f, i)]
  <2> HIDE DEF h, Nth
  <2> QED
    BY <1>1
<1>3. Total(parts) = f[n]
  BY DEF Total
<1> HIDE DEF f
<1> DEFINE S == {i \in Nat : i \in 0..n => f[i] = t[i]}
<1>4. 0 \in S
  <2>1. 0 \in 0..n
    OBVIOUS
  <2> QED
    BY <1>0, <1>2, <2>1
<1>5. ASSUME NEW i \in S PROVE i + 1 \in S
  <2>1. CASE i + 1 \in 0..n
    <3>1. i \in 0..n /\ i + 1 \in 1..n /\ (i + 1) - 1 = i /\ i + 1 # 0
      BY <2>1
    <3>2. f[i + 1] = Plus(f[i], parts[i + 1])
      BY <1>2, <2>1, <3>1
    <3>3. t[i + 1] = Plus(t[i], parts[i + 1])
      <4>1. t[i + 1] = Plus(t[(i + 1) - 1], parts[i + 1])
        BY <1>0, <3>1
      <4> QED
        BY <3>1, <4>1
    <3>4. f[i] = t[i]
      BY <1>5, <3>1
    <3>5. f[i + 1] = t[i + 1]
      BY <3>2, <3>3, <3>4
    <3> QED
      BY <3>5
  <2> QED
    BY <2>1
<1>6. S \in SUBSET Nat
  OBVIOUS
<1> HIDE DEF S
<1>7. n \in S
  BY <1>4, <1>5, <1>6, Induct
<1> QED
  BY <1>3, <1>7 DEF S

LEMMA TotalRuns ==
    ASSUME NEW parts, Len(parts) \in Nat
    PROVE  \E t : Accrues(parts, t)
<1> DEFINE S == {n \in Nat : \E t : /\ t[0] = {0}
                                    /\ \A i \in 1..n : t[i] = Plus(t[i - 1], parts[i])}
<1>1. 0 \in S
  <2> DEFINE t == [i \in {0} |-> {0}]
  <2>1. t[0] = {0} /\ \A i \in 1..0 : t[i] = Plus(t[i - 1], parts[i])
    OBVIOUS
  <2> HIDE DEF t
  <2> QED
    BY <2>1
<1>2. ASSUME NEW n \in S PROVE n + 1 \in S
  <2>1. PICK t : t[0] = {0} /\ \A i \in 1..n : t[i] = Plus(t[i - 1], parts[i])
    OBVIOUS
  <2> DEFINE u == [i \in 0..(n + 1) |-> IF i = n + 1 THEN Plus(t[n], parts[n + 1]) ELSE t[i]]
  <2>2. n \in Nat
    OBVIOUS
  <2>3. u[0] = {0}
    BY <2>1, <2>2
  <2>4. ASSUME NEW i \in 1..(n + 1) PROVE u[i] = Plus(u[i - 1], parts[i])
    <3>1. CASE i = n + 1
      BY <2>2, <3>1
    <3>2. CASE i \in 1..n
      BY <2>1, <2>2, <3>2
    <3> QED
      BY <2>2, <3>1, <3>2
  <2> HIDE DEF u
  <2> QED
    BY <2>2, <2>3, <2>4
<1>3. S \in SUBSET Nat
  OBVIOUS
<1> HIDE DEF S
<1>4. Len(parts) \in S
  BY <1>1, <1>2, <1>3, Induct
<1> QED
  BY <1>4 DEF S, Accrues

LEMMA TotalAppend ==
    ASSUME NEW parts, NEW more, Len(parts) \in Nat, Len(more) = Len(parts) + 1,
           \A i \in 1..Len(parts) : more[i] = parts[i]
    PROVE  Total(more) = Plus(Total(parts), more[Len(parts) + 1])
<1> DEFINE n == Len(parts)
<1>1. n \in Nat /\ Len(more) \in Nat
  OBVIOUS
<1>2. PICK t : Accrues(more, t)
  BY <1>1, TotalRuns
<1>3. t[0] = {0} /\ \A i \in 1..(n + 1) : t[i] = Plus(t[i - 1], more[i])
  BY <1>2 DEF Accrues
<1>4. Accrues(parts, t)
  <2>1. \A i \in 1..n : i \in 1..(n + 1)
    BY <1>1
  <2> QED
    BY <1>3, <2>1 DEF Accrues
<1>5. Total(more) = t[n + 1] /\ Total(parts) = t[n]
  BY <1>1, <1>2, <1>4, TotalBy
<1>6. t[n + 1] = Plus(t[n], more[n + 1])
  <2>1. n + 1 \in 1..(n + 1) /\ (n + 1) - 1 = n
    BY <1>1
  <2> QED
    BY <1>3, <2>1
<1> QED
  BY <1>5, <1>6

LEMMA TotalNone ==
    ASSUME NEW parts, Len(parts) = 0
    PROVE  Total(parts) = {0}
<1> DEFINE t == [i \in {0} |-> {0}]
<1>1. t[0] = {0} /\ \A i \in 1..0 : t[i] = Plus(t[i - 1], parts[i])
  OBVIOUS
<1> HIDE DEF t
<1>2. Accrues(parts, t)
  BY <1>1 DEF Accrues
<1> QED
  BY <1>1, <1>2, TotalBy

LEMMA TotalZeros ==
    ASSUME NEW parts, Len(parts) \in Nat, \A i \in 1..Len(parts) : parts[i] = {0}
    PROVE  Total(parts) = {0}
<1> DEFINE t == [i \in 0..Len(parts) |-> {0}]
<1>1. \A i \in 0..Len(parts) : t[i] = {0}
  OBVIOUS
<1>2. Plus({0}, {0}) = {0}
  <2>1. 0 \in Int /\ {0} \in Sums
    BY PlusFacts
  <2> QED
    BY <2>1, PlusFacts
<1> HIDE DEF t
<1>3. ASSUME NEW i \in 1..Len(parts) PROVE t[i] = Plus(t[i - 1], parts[i])
  <2>1. i \in 0..Len(parts) /\ i - 1 \in 0..Len(parts)
    OBVIOUS
  <2> QED
    BY <1>1, <1>2, <2>1
<1>4. Accrues(parts, t)
  BY <1>1, <1>3 DEF Accrues
<1> QED
  BY <1>1, <1>4, TotalBy

LEMMA TotalOnes ==
    ASSUME NEW parts, Len(parts) \in Nat, \A i \in 1..Len(parts) : parts[i] = {1}
    PROVE  Total(parts) = {Len(parts)}
<1> DEFINE t == [i \in 0..Len(parts) |-> {i}]
<1>1. \A i \in 0..Len(parts) : t[i] = {i}
  OBVIOUS
<1> HIDE DEF t
<1>3. ASSUME NEW i \in 1..Len(parts) PROVE t[i] = Plus(t[i - 1], parts[i])
  <2>1. i \in 0..Len(parts) /\ i - 1 \in 0..Len(parts) /\ i - 1 \in Int /\ 1 \in Int /\ (i - 1) + 1 = i
    OBVIOUS
  <2>2. Plus({i - 1}, {1}) = {(i - 1) + 1}
    BY <2>1, PlusFacts
  <2> QED
    BY <1>1, <2>1, <2>2
<1>4. Accrues(parts, t)
  BY <1>1, <1>3 DEF Accrues
<1> QED
  BY <1>1, <1>4, TotalBy

LEMMA TotalSums ==
    ASSUME NEW parts, Len(parts) \in Nat, \A i \in 1..Len(parts) : parts[i] \in Sums,
           NEW t, Accrues(parts, t)
    PROVE  \A i \in 0..Len(parts) : t[i] \in Sums
<1> DEFINE S == {i \in Nat : i \in 0..Len(parts) => t[i] \in Sums}
<1>1. 0 \in S
  BY PlusFacts DEF Accrues
<1>2. ASSUME NEW i \in S, i + 1 \in 0..Len(parts) PROVE t[i + 1] \in Sums
  <2>1. i \in 0..Len(parts) /\ i + 1 \in 1..Len(parts) /\ (i + 1) - 1 = i
    BY <1>2
  <2>2. t[i + 1] = Plus(t[(i + 1) - 1], parts[i + 1])
    BY <2>1 DEF Accrues
  <2>3. t[i] \in Sums /\ parts[i + 1] \in Sums
    BY <2>1
  <2> QED
    BY <2>1, <2>2, <2>3, PlusFacts
<1>3. S \in SUBSET Nat /\ \A i \in S : i + 1 \in S
  BY <1>2
<1> HIDE DEF S
<1>4. Nat \subseteq S
  BY <1>1, <1>3, Induct
<1> QED
  BY <1>4 DEF S

LEMMA TotalIsSum ==
    ASSUME NEW parts, Len(parts) \in Nat, \A i \in 1..Len(parts) : parts[i] \in Sums
    PROVE  Total(parts) \in Sums
<1>1. PICK t : Accrues(parts, t)
  BY TotalRuns
<1>2. Total(parts) = t[Len(parts)] /\ Len(parts) \in 0..Len(parts)
  BY <1>1, TotalBy
<1> QED
  BY <1>1, <1>2, TotalSums

(* What is added to one part is added to the total.                         *)
LEMMA TotalChange ==
    ASSUME NEW n \in Nat, NEW parts, NEW more, Len(parts) = n, Len(more) = n, NEW k \in 1..n,
           NEW p \in Sums,
           \A i \in 1..n : parts[i] \in Sums,
           more[k] = Plus(parts[k], p), \A i \in 1..n : i # k => more[i] = parts[i]
    PROVE  Total(more) = Plus(Total(parts), p)
<1>1. PICK t : Accrues(parts, t)
  BY TotalRuns
<1>2. t[0] = {0} /\ \A i \in 1..n : t[i] = Plus(t[i - 1], parts[i])
  BY <1>1 DEF Accrues
<1>3. \A i \in 0..n : t[i] \in Sums
  BY <1>1, TotalSums
<1> DEFINE u == [i \in 0..n |-> IF i < k THEN t[i] ELSE Plus(t[i], p)]
<1>4. \A i \in 0..n : u[i] = IF i < k THEN t[i] ELSE Plus(t[i], p)
  OBVIOUS
<1> HIDE DEF u
<1>5. ASSUME NEW i \in 1..n PROVE u[i] = Plus(u[i - 1], more[i])
  <2>1. i \in 0..n /\ i - 1 \in 0..n
    OBVIOUS
  <2>2. t[i - 1] \in Sums /\ parts[i] \in Sums /\ t[i] = Plus(t[i - 1], parts[i])
    BY <1>2, <1>3, <2>1
  <2> DEFINE a == t[i - 1]
             b == parts[i]
  <2>3. Plus(Plus(a, b), p) = Plus(a, Plus(b, p)) /\ Plus(Plus(a, p), b) = Plus(Plus(a, b), p)
    <3> HIDE DEF a, b
    <3>1. a \in Sums /\ b \in Sums
      BY <2>2 DEF a, b
    <3>2. Plus(Plus(a, b), p) = Plus(a, Plus(b, p)) /\ Plus(Plus(a, p), b) = Plus(a, Plus(p, b))
      BY <3>1, PlusFacts
    <3>3. Plus(b, p) = Plus(p, b)
      BY <3>1, PlusFacts
    <3> QED
      BY <3>2, <3>3
  <2>4. CASE i < k
    BY <1>4, <2>1, <2>2, <2>4
  <2>5. CASE i = k
    <3>1. u[i] = Plus(t[i], p) /\ u[i - 1] = t[i - 1] /\ more[i] = Plus(parts[i], p)
      BY <1>4, <2>1, <2>5
    <3> QED
      BY <2>2, <2>3, <3>1
  <2>6. CASE i > k
    <3>1. u[i] = Plus(t[i], p) /\ u[i - 1] = Plus(t[i - 1], p) /\ more[i] = parts[i]
      BY <1>4, <2>1, <2>6
    <3> QED
      BY <2>2, <2>3, <3>1
  <2> QED
    BY <2>4, <2>5, <2>6
<1>6. u[0] = {0} /\ 0 \in 0..n
  BY <1>2, <1>4
<1>7. Accrues(more, u)
  BY <1>5, <1>6 DEF Accrues
<1>8. Total(more) = u[n] /\ Total(parts) = t[n]
  BY <1>1, <1>7, TotalBy
<1>9. u[n] = Plus(t[n], p)
  BY <1>4
<1> QED
  BY <1>8, <1>9

LEMMA PickedGrows ==
    ASSUME NEW s, IsList(s), NEW j \in Nat, j + 1 <= Len(s), NEW K \in SUBSET (1..j)
    PROVE  Total(Picked(s, K \cup {j + 1})) = Plus(Total(Picked(s, K)), s[j + 1])
<1> DEFINE U == K \cup {j + 1}
           m == Cardinality(K)
<1>1. Len(s) \in Nat /\ DOMAIN s = 1..Len(s)
  BY ListFacts
<1>2. K \in SUBSET DOMAIN s /\ U \in SUBSET DOMAIN s
  BY <1>1
<1>3. /\ Len(Picked(s, K)) = m /\ m \in Nat
      /\ \A k \in 1..m : Picked(s, K)[k] = s[Ascending(K)[k]]
  BY <1>2, ListPicked
<1>4. /\ Len(Picked(s, U)) = Cardinality(U)
      /\ \A k \in 1..Cardinality(U) : Picked(s, U)[k] = s[Ascending(U)[k]]
  <2> HIDE DEF U
  <2> QED
    BY <1>2, ListPicked
<1>5. K \in SUBSET Int /\ IsFiniteSet(K) /\ j + 1 \in Int /\ \A x \in K : x < j + 1
  <2>1. IsFiniteSet(1..j)
    BY FS_Interval
  <2>2. IsFiniteSet(K)
    BY <2>1, FS_Subset
  <2>3. \A x \in 1..j : x \in Int /\ x < j + 1
    OBVIOUS
  <2> QED
    BY <2>2, <2>3
<1>6. /\ Cardinality(U) = m + 1
      /\ Ascending(U)[m + 1] = j + 1
      /\ \A k \in 1..m : Ascending(U)[k] = Ascending(K)[k]
  BY <1>5, AscendingGrows, Zenon
<1> HIDE DEF U, m
<1>7. Len(Picked(s, U)) = Len(Picked(s, K)) + 1
  BY <1>3, <1>4, <1>6
<1>8. \A k \in 1..m : k \in 1..(m + 1)
  BY <1>3
<1>9. /\ \A k \in 1..m : Picked(s, U)[k] = Picked(s, K)[k]
      /\ Picked(s, U)[m + 1] = s[j + 1]
  <2>1. \A k \in 1..(m + 1) : Picked(s, U)[k] = s[Ascending(U)[k]]
    BY <1>4, <1>6
  <2>2. m + 1 \in 1..(m + 1)
    BY <1>3
  <2>3. Picked(s, U)[m + 1] = s[j + 1]
    BY <1>6, <2>1, <2>2
  <2>4. \A k \in 1..m : Picked(s, U)[k] = Picked(s, K)[k]
    BY <1>3, <1>6, <1>8, <2>1
  <2> QED
    BY <2>3, <2>4
<1>10. Total(Picked(s, U)) = Plus(Total(Picked(s, K)), Picked(s, U)[m + 1])
  BY <1>3, <1>7, <1>9, TotalAppend
<1> QED
  BY <1>9, <1>10 DEF U

(* The totals of the classes of some parts add up to the total of the parts. *)
Class(parts, class, k) == Picked(parts, {i \in DOMAIN parts : class[i] = k})

LEMMA ClassesAddUp ==
    ASSUME NEW parts, IsList(parts), \A i \in DOMAIN parts : parts[i] \in Sums,
           NEW m \in Nat, NEW class, \A i \in DOMAIN parts : class[i] \in 1..m
    PROVE  Total([k \in 1..m |-> Total(Class(parts, class, k))]) = Total(parts)
<1> DEFINE n == Len(parts)
           G(k, j) == {i \in 1..j : class[i] = k}
           P(j) == [k \in 1..m |-> Total(Picked(parts, G(k, j)))]
<1>1. n \in Nat /\ DOMAIN parts = 1..n
  BY ListFacts
<1>2. PICK t : Accrues(parts, t)
  BY <1>1, TotalRuns
<1>3. t[0] = {0} /\ \A i \in 1..n : t[i] = Plus(t[i - 1], parts[i])
  BY <1>2 DEF Accrues
<1> HIDE DEF n
<1>4. \A j \in Nat : Len(P(j)) = m /\ \A k \in 1..m : P(j)[k] = Total(Picked(parts, G(k, j)))
  <2> SUFFICES ASSUME NEW j \in Nat
               PROVE  Len(P(j)) = m /\ \A k \in 1..m : P(j)[k] = Total(Picked(parts, G(k, j)))
    OBVIOUS
  <2> DEFINE q == P(j)
  <2>1. \A k \in 1..m : q[k] = Total(Picked(parts, G(k, j)))
    OBVIOUS
  <2>2. q = [k \in 1..m |-> q[k]]
    OBVIOUS
  <2> HIDE DEF q
  <2>3. Len(q) = m
    BY <2>2, ListOf
  <2> QED
    BY <2>1, <2>3 DEF q
<1>5. ASSUME NEW j \in Nat, j <= n, NEW k \in 1..m
      PROVE  /\ G(k, j) \in SUBSET (1..j) /\ G(k, j) \in SUBSET DOMAIN parts
             /\ Total(Picked(parts, G(k, j))) \in Sums
  <2> DEFINE K == G(k, j)
  <2>1. K \in SUBSET (1..j)
    OBVIOUS
  <2>2. K \in SUBSET DOMAIN parts
    BY <1>1, <1>5
  <2> HIDE DEF K
  <2>3. /\ Len(Picked(parts, K)) = Cardinality(K) /\ Cardinality(K) \in Nat
        /\ \A l \in 1..Cardinality(K) : Ascending(K)[l] \in K /\ Picked(parts, K)[l] = parts[Ascending(K)[l]]
    BY <2>2, ListPicked
  <2>4. \A l \in 1..Len(Picked(parts, K)) : Picked(parts, K)[l] \in Sums
    BY <2>2, <2>3
  <2>5. Total(Picked(parts, K)) \in Sums
    BY <2>3, <2>4, TotalIsSum
  <2> QED
    BY <2>1, <2>2, <2>5 DEF K
<1> DEFINE S == {j \in Nat : j <= n => Total(P(j)) = t[j]}
<1>6. 0 \in S
  <2>1. \A k \in 1..m : G(k, 0) = {}
    OBVIOUS
  <2>2. {} \in SUBSET DOMAIN parts /\ Cardinality({}) = 0
    BY FS_EmptySet
  <2>3. Len(Picked(parts, {})) = 0
    BY <2>2, ListPicked
  <2>4. Total(Picked(parts, {})) = {0}
    BY <2>3, TotalNone
  <2>5. Len(P(0)) = m /\ \A k \in 1..m : P(0)[k] = {0}
    BY <1>4, <2>1, <2>4
  <2> DEFINE q == P(0)
  <2> HIDE DEF P
  <2>6. Len(q) = m /\ \A k \in 1..m : q[k] = {0}
    BY <2>5
  <2> HIDE DEF q
  <2>7. Total(q) = {0}
    BY <2>6, TotalZeros
  <2> QED
    BY <1>3, <2>7 DEF q
<1>7. ASSUME NEW j \in S PROVE j + 1 \in S
  <2>1. j \in Nat /\ j + 1 \in Nat
    OBVIOUS
  <2>2. CASE j + 1 <= n
    <3>1. j <= n /\ j + 1 \in 1..n
      BY <1>1, <2>1, <2>2
    <3>2. PICK c \in 1..m, p \in Sums : c = class[j + 1] /\ p = parts[j + 1]
      BY <1>1, <3>1
    <3>3. Total(P(j)) = t[j]
      BY <3>1
    <3>4. ASSUME NEW l \in 1..m
          PROVE  Total(Picked(parts, G(l, j + 1)))
                 = IF l = c THEN Plus(Total(Picked(parts, G(l, j))), p) ELSE Total(Picked(parts, G(l, j)))
      <4>1. CASE l = c
        <5>1. G(l, j + 1) = G(l, j) \cup {j + 1}
          BY <2>1, <3>2, <4>1
        <5> DEFINE K == G(l, j)
        <5>2. K \in SUBSET (1..j)
          OBVIOUS
        <5> HIDE DEF K
        <5>3. Total(Picked(parts, K \cup {j + 1})) = Plus(Total(Picked(parts, K)), parts[j + 1])
          BY <2>1, <2>2, <5>2, PickedGrows DEF n
        <5> QED
          BY <3>2, <4>1, <5>1, <5>3 DEF K
      <4>2. CASE l # c
        <5>1. G(l, j + 1) = G(l, j)
          BY <2>1, <3>2, <4>2
        <5> QED
          BY <4>2, <5>1
      <4> QED
        BY <4>1, <4>2
    <3>5. /\ Len(P(j)) = m /\ Len(P(j + 1)) = m
          /\ \A l \in 1..m : P(j)[l] \in Sums
          /\ \A l \in 1..m : P(j + 1)[l] = IF l = c THEN Plus(P(j)[l], p) ELSE P(j)[l]
      BY <1>4, <1>5, <2>1, <3>1, <3>4
    <3> DEFINE q == P(j)
               r == P(j + 1)
    <3> HIDE DEF P
    <3>6. /\ Len(q) = m /\ Len(r) = m
          /\ \A l \in 1..m : q[l] \in Sums
          /\ \A l \in 1..m : r[l] = IF l = c THEN Plus(q[l], p) ELSE q[l]
      BY <3>5
    <3> HIDE DEF q, r
    <3>7. r[c] = Plus(q[c], p) /\ \A l \in 1..m : l # c => r[l] = q[l]
      BY <3>2, <3>6
    <3>10. Total(r) = Plus(Total(q), p)
      BY <3>6, <3>7, TotalChange
    <3>8. t[j + 1] = Plus(t[j], p)
      <4>1. t[j + 1] = Plus(t[(j + 1) - 1], parts[j + 1]) /\ (j + 1) - 1 = j
        BY <1>3, <2>1, <3>1
      <4> QED
        BY <3>2, <4>1
    <3>9. Total(r) = t[j + 1]
      BY <3>3, <3>8, <3>10 DEF q
    <3> QED
      BY <2>1, <3>9 DEF r
  <2> QED
    BY <2>1, <2>2
<1>8. S \in SUBSET Nat
  OBVIOUS
<1> HIDE DEF S
<1>9. n \in S
  BY <1>1, <1>6, <1>7, <1>8, Induct
<1>10. Total(P(n)) = t[n]
  BY <1>1, <1>9 DEF S
<1>11. Total(parts) = t[n]
  BY <1>1, <1>2, TotalBy DEF n
<1>12. P(n) = [k \in 1..m |-> Total(Class(parts, class, k))]
  BY <1>1 DEF Class
<1> QED
  BY <1>10, <1>11, <1>12

(* The elements of what is picked. *)
LEMMA PickedMembers ==
    ASSUME NEW s, IsList(s), NEW K \in SUBSET DOMAIN s, NEW x
    PROVE  x \in ToSet(Picked(s, K)) <=> \E i \in K : x = s[i]
<1> DEFINE t == Picked(s, K)
           c == Cardinality(K)
<1>1. /\ IsList(t) /\ Len(t) = c
      /\ \A k \in 1..c : Ascending(K)[k] \in K /\ t[k] = s[Ascending(K)[k]]
      /\ \A i \in K : \E k \in 1..c : Ascending(K)[k] = i
  BY ListPicked
<1> HIDE DEF t, c
<1>2. DOMAIN t = 1..c
  BY <1>1, ListFacts
<1>3. x \in ToSet(t) <=> \E k \in 1..c : x = t[k]
  BY <1>2 DEF ToSet
<1> QED
  BY <1>1, <1>3 DEF t

-----------------------------------------------------------------------------
(* Elements left out of a sequence                                           *)

Subsequence(s, t) ==
    \E f : \A j, k \in DOMAIN s :
        /\ f[j] \in DOMAIN t /\ s[j] = t[f[j]]
        /\ j < k => f[j] < f[k]
        /\ f[j] = f[k] => j = k

LEMMA SubsequenceFacts ==
    /\ \A s : Subsequence(s, s)
    /\ \A t : Subsequence(<<>>, t)
    /\ \A s, t : Subsequence(s, t) => \A j \in DOMAIN s : \E k \in DOMAIN t : s[j] = t[k]
<1>1. ASSUME NEW s PROVE Subsequence(s, s)
  <2> DEFINE f == [j \in DOMAIN s |-> j]
  <2>1. \A j \in DOMAIN s : f[j] = j
    OBVIOUS
  <2> HIDE DEF f
  <2> QED
    BY <2>1 DEF Subsequence
<1>2. \A t : Subsequence(<<>>, t)
  BY DEF Subsequence
<1>3. ASSUME NEW s, NEW t, Subsequence(s, t), NEW j \in DOMAIN s
      PROVE  \E k \in DOMAIN t : s[j] = t[k]
  BY <1>3 DEF Subsequence
<1> QED
  BY <1>1, <1>2, <1>3

LEMMA PickedSubsequence ==
    ASSUME NEW S, NEW s \in Seq(S), NEW K \in SUBSET (1..Len(s))
    PROVE  Subsequence(Picked(s, K), s)
<1> DEFINE t == Picked(s, K)
           m == Cardinality(K)
           a == Ascending(K)
<1>1. /\ t \in Seq(S) /\ Len(t) = m /\ m \in Nat
      /\ \A k \in 1..m : a[k] \in K /\ t[k] = s[a[k]]
      /\ \A i, j \in 1..m : i < j => a[i] < a[j]
  BY PickedFacts
<1>2. DOMAIN t = 1..m /\ DOMAIN s = 1..Len(s)
  BY <1>1, LenProperties
<1>3. \A x \in K : x \in Nat /\ x \in DOMAIN s
  BY <1>2, LenProperties
<1> HIDE DEF t, m, a
<1>4. ASSUME NEW i \in 1..m, NEW j \in 1..m, a[i] = a[j] PROVE i = j
  <2>1. ~(i < j) /\ ~(j < i)
    <3>1. a[i] \in Nat
      BY <1>1, <1>3
    <3>2. ~(a[i] < a[j]) /\ ~(a[j] < a[i])
      BY <1>4, <3>1
    <3> QED
      BY <1>1, <3>2
  <2>2. i \in Nat /\ j \in Nat
    BY <1>1
  <2> QED
    BY <2>1, <2>2
<1>5. \A j, k \in DOMAIN t :
         /\ a[j] \in DOMAIN s /\ t[j] = s[a[j]]
         /\ j < k => a[j] < a[k]
         /\ a[j] = a[k] => j = k
  BY <1>1, <1>2, <1>3, <1>4
<1> QED
  BY <1>5 DEF Subsequence, t
=============================================================================
