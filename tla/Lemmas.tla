-------------------------------- MODULE Lemmas ---------------------------------
(***************************************************************************)
(* Facts about numbers and lists that the proofs of several components     *)
(* need.  Induction is stated about sets of numbers: a set that holds 0    *)
(* and the successor of each of its numbers holds all of them.             *)
(***************************************************************************)
EXTENDS Sublists, FiniteSetTheorems, SequenceTheorems, TLAPS

\* A set of natural numbers that has one has a least one.
LEMMA LeastNumber ==
    ASSUME NEW T \in SUBSET Nat, T # {}
    PROVE  \E m \in T : \A n \in T : m <= n
<1> DEFINE Below == {0 .. n : n \in T}
<1>1. Below \subseteq FiniteSubsetsOf(Nat)
  <2>1. \A n \in Nat : IsFiniteSet(0 .. n)
    BY FS_Interval
  <2> QED
    BY <2>1 DEF FiniteSubsetsOf
<1>2. Below # {}
  OBVIOUS
<1>3. IsWellFoundedOn(StrictSubsetOrdering(Nat), FiniteSubsetsOf(Nat))
  BY FS_StrictSubsetOrderingWellFounded
<1>4. \E x \in Below : \A y \in Below : <<y, x>> \notin StrictSubsetOrdering(Nat)
  <2> HIDE DEF Below
  <2> QED
    BY <1>1, <1>2, <1>3, WFMin
<1>5. PICK m \in T : \A y \in Below : <<y, 0 .. m>> \notin StrictSubsetOrdering(Nat)
  BY <1>4
<1>6. ASSUME NEW n \in T, n < m PROVE FALSE
  <2>1. 0 .. n \subseteq 0 .. m /\ m \in 0 .. m /\ m \notin 0 .. n
    BY <1>6
  <2>2. 0 .. n \in SUBSET Nat /\ 0 .. m \in SUBSET Nat /\ 0 .. n # 0 .. m
    BY <2>1
  <2>3. <<0 .. n, 0 .. m>> \in StrictSubsetOrdering(Nat)
    BY <2>1, <2>2 DEF StrictSubsetOrdering
  <2> QED
    BY <1>5, <2>3
<1> QED
  BY <1>6

\* Induction.
LEMMA AllNumbers ==
    ASSUME NEW T, 0 \in T, \A n \in Nat : n \in T => n + 1 \in T
    PROVE  Nat \subseteq T
<1> DEFINE Rest == {n \in Nat : n \notin T}
<1> SUFFICES ASSUME Rest # {} PROVE FALSE
  OBVIOUS
<1>1. PICK m \in Rest : \A n \in Rest : m <= n
  BY LeastNumber
<1>2. m # 0 /\ m - 1 \in Nat /\ m - 1 \in T
  BY <1>1
<1> QED
  BY <1>1, <1>2

\* A function that starts at base and is stepped on from one number to the next.
LEMMA Iterates ==
    ASSUME NEW V, NEW base \in V, NEW step \in [V -> V]
    PROVE  \E f \in [Nat -> V] : f[0] = base /\ \A n \in Nat : f[n + 1] = step[f[n]]
<1> DEFINE Upto(m, g) == /\ g \in [0 .. m -> V] /\ g[0] = base
                         /\ \A n \in 0 .. m - 1 : g[n + 1] = step[g[n]]
           T == {m \in Nat : \E g : Upto(m, g)}
           U == {n \in Nat : \A m, k \in Nat : \A g, h :
                    Upto(m, g) /\ Upto(k, h) /\ n <= m /\ n <= k => g[n] = h[n]}
<1>1. 0 \in T
  <2>1. Upto(0, [n \in 0 .. 0 |-> base])
    OBVIOUS
  <2> HIDE DEF Upto
  <2> QED
    BY <2>1
<1>2. ASSUME NEW m \in Nat, m \in T PROVE m + 1 \in T
  <2>1. PICK g : Upto(m, g)
    BY <1>2
  <2> DEFINE h == [n \in 0 .. m + 1 |-> IF n = m + 1 THEN step[g[m]] ELSE g[n]]
  <2>2. \A n \in 0 .. m : h[n] = g[n] /\ g[n] \in V
    BY <2>1
  <2>3. h[m + 1] = step[g[m]] /\ step[g[m]] \in V
    BY <2>1
  <2>4. h \in [0 .. m + 1 -> V]
    BY <2>2, <2>3
  <2> HIDE DEF h
  <2>5. ASSUME NEW n \in 0 .. m + 1 - 1 PROVE h[n + 1] = step[h[n]]
    <3>1. CASE n = m
      BY <2>2, <2>3, <3>1
    <3>2. CASE n # m
      <4>1. n \in 0 .. m - 1 /\ n \in 0 .. m /\ n + 1 \in 0 .. m
        BY <3>2
      <4> QED
        BY <2>1, <2>2, <4>1
    <3> QED
      BY <3>1, <3>2
  <2>6. Upto(m + 1, h)
    BY <2>1, <2>2, <2>4, <2>5
  <2> HIDE DEF Upto
  <2> QED
    BY <2>6
<1>3. Nat \subseteq T
  <2> HIDE DEF T
  <2> QED
    BY <1>1, <1>2, AllNumbers
<1>4. 0 \in U
  OBVIOUS
<1>5. ASSUME NEW n \in Nat, n \in U PROVE n + 1 \in U
  <2> SUFFICES ASSUME NEW m \in Nat, NEW k \in Nat, NEW g, NEW h, Upto(m, g), Upto(k, h),
                      n + 1 <= m, n + 1 <= k
               PROVE  g[n + 1] = h[n + 1]
    OBVIOUS
  <2>1. g[n] = h[n]
    <3>1. n <= m /\ n <= k
      OBVIOUS
    <3> HIDE DEF Upto
    <3> QED
      BY <1>5, <3>1
  <2>2. n \in 0 .. m - 1 /\ n \in 0 .. k - 1
    OBVIOUS
  <2> QED
    BY <2>1, <2>2
<1>6. Nat \subseteq U
  <2> HIDE DEF U
  <2> QED
    BY <1>4, <1>5, AllNumbers
<1> DEFINE G == [n \in Nat |-> CHOOSE g : Upto(n, g)]
           f == [n \in Nat |-> G[n][n]]
<1>7. \A n \in Nat : Upto(n, G[n])
  <2> HIDE DEF Upto
  <2>1. \A n \in Nat : \E g : Upto(n, g)
    BY <1>3
  <2> QED
    BY <2>1
<1> HIDE DEF G, T, U
<1>8. f \in [Nat -> V]
  BY <1>7
<1>9. f[0] = base
  BY <1>7
<1>10. ASSUME NEW n \in Nat PROVE f[n + 1] = step[f[n]]
  <2>1. Upto(n + 1, G[n + 1]) /\ f[n + 1] = G[n + 1][n + 1]
    <3> HIDE DEF Upto
    <3> QED
      BY <1>7
  <2>2. Upto(n, G[n]) /\ f[n] = G[n][n]
    <3> HIDE DEF Upto
    <3> QED
      BY <1>7
  <2>3. n \in U /\ n + 1 \in Nat /\ n <= n /\ n <= n + 1
    BY <1>6
  <2> HIDE DEF f
  <2>4. G[n + 1][n] = f[n]
    <3> HIDE DEF Upto
    <3> QED
      BY <2>1, <2>2, <2>3 DEF U
  <2>5. G[n + 1][n + 1] = step[G[n + 1][n]]
    BY <2>1
  <2> QED
    BY <2>1, <2>4, <2>5
<1> HIDE DEF f
<1> QED
  BY <1>8, <1>9, <1>10

\* A function on 1 .. n with values in S is a list of S.
LEMMA ListOf ==
    ASSUME NEW S, NEW n \in Nat, NEW s, s = [k \in 1 .. n |-> s[k]],
           \A k \in 1 .. n : s[k] \in S
    PROVE  s \in Seq(S) /\ Len(s) = n
OBVIOUS

\* A list of l elements without its n-th.
Without(s, l, n) == SubSeq(s, 1, n - 1) \o SubSeq(s, n + 1, l)

IsWithout(t, s, l, n) ==
    /\ DOMAIN t = 1 .. l - 1
    /\ \A k \in 1 .. l - 1 : k < n => t[k] = s[k]
    /\ \A k \in 1 .. l - 1 : k >= n => t[k] = s[k + 1]

LEMMA WithoutRemoves ==
    ASSUME NEW S, NEW s, NEW l \in Nat, NEW n \in 1 .. l,
           \A k \in 1 .. l : s[k] \in S
    PROVE  Without(s, l, n) \in Seq(S) /\ IsWithout(Without(s, l, n), s, l, n)
<1> DEFINE before == SubSeq(s, 1, n - 1)
           after == SubSeq(s, n + 1, l)
           t == before \o after
<1>1. PICK a \in Nat : a = n - 1 /\ n = a + 1
  OBVIOUS
<1>2. PICK b \in Nat : b = l - n /\ l - 1 = a + b
  BY <1>1
<1>3. /\ before \in Seq(S) /\ Len(before) = a
      /\ \A k \in 1 .. a : before[k] = s[k]
  <2>1. 1 \in Int /\ n - 1 \in Int /\ \A k \in 1 .. n - 1 : s[k] \in S
    OBVIOUS
  <2>2. /\ before \in Seq(S) /\ Len(before) = IF 1 <= n - 1 THEN n - 1 - 1 + 1 ELSE 0
        /\ \A k \in 1 .. n - 1 - 1 + 1 : before[k] = s[1 + k - 1]
    BY <2>1, SubSeqProperties
  <2> HIDE DEF before
  <2> QED
    BY <1>1, <2>2
<1>4. /\ after \in Seq(S) /\ Len(after) = b
      /\ \A k \in 1 .. b : after[k] = s[k + n]
  <2>1. n + 1 \in Int /\ l \in Int /\ \A k \in n + 1 .. l : s[k] \in S
    OBVIOUS
  <2>2. /\ after \in Seq(S) /\ Len(after) = IF n + 1 <= l THEN l - (n + 1) + 1 ELSE 0
        /\ \A k \in 1 .. l - (n + 1) + 1 : after[k] = s[n + 1 + k - 1]
    BY <2>1, SubSeqProperties
  <2> HIDE DEF after
  <2>3. l - (n + 1) + 1 = b /\ (n + 1 <= l <=> b # 0)
    BY <1>1, <1>2
  <2>4. \A k \in 1 .. b : n + 1 + k - 1 = k + n
    OBVIOUS
  <2> QED
    BY <2>2, <2>3, <2>4
<1> HIDE DEF before, after
<1>5. /\ t \in Seq(S) /\ DOMAIN t = 1 .. a + b
      /\ \A k \in 1 .. a : t[k] = before[k]
      /\ \A k \in 1 .. b : t[a + k] = after[k]
  <2> HIDE DEF t
  <2>1. /\ t \in Seq(S) /\ Len(t) = Len(before) + Len(after)
        /\ \A i \in 1 .. Len(before) + Len(after) :
             t[i] = IF i <= Len(before) THEN before[i] ELSE after[i - Len(before)]
    BY <1>3, <1>4, ConcatProperties DEF t
  <2>2. DOMAIN t = 1 .. a + b
    BY <1>3, <1>4, <2>1
  <2>3. \A i \in 1 .. a + b : t[i] = IF i <= a THEN before[i] ELSE after[i - a]
    BY <1>3, <1>4, <2>1
  <2>4. ASSUME NEW k \in 1 .. b PROVE t[a + k] = after[k]
    <3>1. a + k \in 1 .. a + b /\ ~(a + k <= a) /\ a + k - a = k
      OBVIOUS
    <3> QED
      BY <2>3, <3>1
  <2> QED
    BY <2>1, <2>2, <2>3, <2>4
<1> HIDE DEF t
<1>6. ASSUME NEW k \in 1 .. l - 1, k < n PROVE t[k] = s[k]
  <2>1. k \in 1 .. a
    BY <1>1, <1>6
  <2> QED
    BY <1>3, <1>5, <2>1
<1>7. ASSUME NEW k \in 1 .. l - 1, k >= n PROVE t[k] = s[k + 1]
  <2>1. PICK j \in 1 .. b : a + j = k /\ j + n = k + 1
    <3>1. k - a \in 1 .. b /\ a + (k - a) = k /\ (k - a) + n = k + 1
      BY <1>1, <1>2, <1>7
    <3> QED
      BY <3>1
  <2> QED
    BY <1>4, <1>5, <2>1
<1>8. t = Without(s, l, n)
  BY DEF t, before, after, Without
<1> QED
  BY <1>2, <1>5, <1>6, <1>7, <1>8 DEF IsWithout

\* Of a finite set of numbers, each has a rank of its own, and there is one of
\* every rank below the size of the set.
LEMMA Ranks ==
    ASSUME NEW K \in SUBSET Nat, IsFiniteSet(K)
    PROVE  /\ Cardinality(K) \in Nat
           /\ \A k \in 1 .. Cardinality(K) :
                \E n \in K : Cardinality({m \in K : m < n}) = k - 1
           /\ \A i, j \in K : i < j =>
                Cardinality({m \in K : m < i}) < Cardinality({m \in K : m < j})
           /\ \A n \in K : Cardinality({m \in K : m < n}) \in 0 .. Cardinality(K) - 1
<1> DEFINE Less(n) == {m \in K : m < n}
           c == Cardinality(K)
           rank == [n \in K |-> Cardinality(Less(n))]
<1>1. c \in Nat
  BY FS_CardinalityType
<1>2. \A n \in Nat : IsFiniteSet(Less(n)) /\ Cardinality(Less(n)) \in Nat
  <2> SUFFICES ASSUME NEW n \in Nat
               PROVE  IsFiniteSet(Less(n)) /\ Cardinality(Less(n)) \in Nat
    OBVIOUS
  <2>1. Less(n) \in SUBSET K
    OBVIOUS
  <2> HIDE DEF Less
  <2> QED
    BY <2>1, FS_Subset, FS_CardinalityType
<1>3. ASSUME NEW i \in K, NEW j \in K, i < j PROVE rank[i] < rank[j]
  <2>1. Less(i) \in SUBSET Less(j) /\ i \in Less(j) /\ i \notin Less(i)
    <3>1. i \in Nat /\ j \in Nat /\ \A m \in K : m \in Nat
      OBVIOUS
    <3>2. \A m \in K : m < i => m < j
      BY <1>3, <3>1
    <3>3. i < j /\ ~(i < i)
      BY <1>3, <3>1
    <3> QED
      BY <3>2, <3>3, Zenon
  <2>2. IsFiniteSet(Less(j)) /\ Cardinality(Less(i)) \in Nat /\ Cardinality(Less(j)) \in Nat
    BY <1>2
  <2> HIDE DEF Less
  <2>3. Cardinality(Less(i)) <= Cardinality(Less(j)) /\ Cardinality(Less(i)) # Cardinality(Less(j))
    BY <2>1, <2>2, FS_Subset
  <2> QED
    BY <2>2, <2>3
<1>4. ASSUME NEW n \in K PROVE rank[n] \in 0 .. c - 1
  <2>1. Less(n) \in SUBSET K /\ n \notin Less(n)
    OBVIOUS
  <2>2. Cardinality(Less(n)) \in Nat
    BY <1>2
  <2> HIDE DEF Less
  <2>3. Cardinality(Less(n)) <= c /\ Cardinality(Less(n)) # c
    BY <2>1, FS_Subset
  <2> QED
    BY <1>1, <2>2, <2>3
<1>5. rank \in Injection(K, 0 .. c - 1)
  <2>1. rank \in [K -> 0 .. c - 1]
    BY <1>4
  <2>2. \A i, j \in K : rank[i] = rank[j] => i = j
    <3> SUFFICES ASSUME NEW i \in K, NEW j \in K, rank[i] = rank[j] PROVE i = j
      OBVIOUS
    <3>1. rank[i] \in Nat
      BY <1>1, <1>4
    <3> HIDE DEF rank
    <3>2. ~(i < j) /\ ~(j < i)
      BY <1>3, <3>1
    <3> QED
      BY <3>2
  <2> HIDE DEF rank
  <2> QED
    BY <2>1, <2>2 DEF Injection, IsInjective
<1>6. IsFiniteSet(0 .. c - 1) /\ Cardinality(0 .. c - 1) = c
  <2> HIDE DEF c
  <2>1. 0 \in Int /\ c - 1 \in Int /\ (0 > c - 1 <=> c = 0)
    BY <1>1
  <2>2. IsFiniteSet(0 .. c - 1)
        /\ Cardinality(0 .. c - 1) = IF 0 > c - 1 THEN 0 ELSE c - 1 - 0 + 1
    BY <2>1, FS_Interval
  <2> QED
    BY <1>1, <2>1, <2>2
<1>7. rank \in Surjection(K, 0 .. c - 1)
  <2> HIDE DEF rank
  <2> QED
    BY <1>5, <1>6, FS_Injection
<1>8. \A k \in 1 .. c : \E n \in K : rank[n] = k - 1
  <2> HIDE DEF rank
  <2>1. \A r \in 0 .. c - 1 : \E n \in K : rank[n] = r
    BY <1>7 DEF Surjection
  <2>2. \A k \in 1 .. c : k - 1 \in 0 .. c - 1
    BY <1>1
  <2> QED
    BY <2>1, <2>2
<1> QED
  BY <1>1, <1>3, <1>4, <1>8

\* The k-th number of K.
Nth(K, k) == CHOOSE n \in K : Cardinality({m \in K : m < n}) = k - 1

\* Places are the numbers of K in increasing order, each of them once.
LEMMA Places ==
    ASSUME NEW K \in SUBSET Nat, IsFiniteSet(K)
    PROVE  /\ \A k \in 1 .. Cardinality(K) : Nth(K, k) \in K
           /\ \A i, j \in 1 .. Cardinality(K) : i < j => Nth(K, i) < Nth(K, j)
           /\ \A n \in K : \E k \in 1 .. Cardinality(K) : Nth(K, k) = n
<1> DEFINE c == Cardinality(K)
           Rank(n) == Cardinality({m \in K : m < n})
<1>1. c \in Nat
  BY FS_CardinalityType
<1>2. \A k \in 1 .. c : Nth(K, k) \in K /\ Rank(Nth(K, k)) = k - 1
  BY Ranks DEF Nth
<1>3. /\ \A i, j \in K : i < j => Rank(i) < Rank(j)
      /\ \A n \in K : Rank(n) \in 0 .. c - 1
  BY Ranks
<1> HIDE DEF Rank, c
<1>4. \A n \in K : Rank(n) \in Nat /\ n \in Nat
  BY <1>1, <1>3
<1>5. \A i, j \in 1 .. c : i < j => Nth(K, i) < Nth(K, j)
  <2> SUFFICES ASSUME NEW i \in 1 .. c, NEW j \in 1 .. c, i < j
               PROVE  Nth(K, i) < Nth(K, j)
    OBVIOUS
  <2> DEFINE m == Nth(K, i)
             n == Nth(K, j)
  <2>1. m \in K /\ n \in K /\ Rank(m) < Rank(n)
    BY <1>1, <1>2
  <2> HIDE DEF m, n
  <2>2. m # n /\ ~(n < m)
    BY <1>3, <1>4, <2>1
  <2>3. m < n
    BY <1>4, <2>1, <2>2
  <2> QED
    BY <2>3 DEF m, n
<1>6. \A n \in K : \E k \in 1 .. c : Nth(K, k) = n
  <2> SUFFICES ASSUME NEW n \in K PROVE \E k \in 1 .. c : Nth(K, k) = n
    OBVIOUS
  <2> DEFINE k == Rank(n) + 1
             m == Nth(K, k)
  <2>1. k \in 1 .. c /\ Rank(n) = k - 1
    BY <1>1, <1>3
  <2>2. m \in K /\ Rank(m) = Rank(n)
    BY <1>2, <2>1
  <2> HIDE DEF m
  <2>3. ~(m < n) /\ ~(n < m)
    BY <1>3, <1>4, <2>2
  <2>4. m = n
    BY <1>4, <2>2, <2>3
  <2> QED
    BY <2>1, <2>4 DEF m
<1> QED
  BY <1>2, <1>5, <1>6 DEF c

LEMMA PickedByPlace ==
    ASSUME NEW s, NEW K
    PROVE  Picked(s, K) = [k \in 1 .. Cardinality(K) |-> s[Nth(K, k)]]
BY DEF Picked, Nth

\* A list made of what is at some positions of a list of S is a list of S.
LEMMA PickedIsList ==
    ASSUME NEW S, NEW s \in Seq(S), NEW K \in SUBSET DOMAIN s
    PROVE  /\ IsFiniteSet(K) /\ K \in SUBSET Nat /\ Cardinality(K) \in Nat
           /\ Picked(s, K) \in Seq(S)
           /\ DOMAIN Picked(s, K) = 1 .. Cardinality(K)
           /\ \A k \in 1 .. Cardinality(K) : Picked(s, K)[k] = s[Nth(K, k)]
<1>1. DOMAIN s = 1 .. Len(s) /\ Len(s) \in Nat
  OBVIOUS
<1>2. IsFiniteSet(1 .. Len(s)) /\ K \in SUBSET (1 .. Len(s)) /\ K \in SUBSET Nat
  BY <1>1, FS_Interval
<1>3. IsFiniteSet(K) /\ Cardinality(K) \in Nat
  BY <1>2, FS_Subset, FS_CardinalityType
<1>4. \A k \in 1 .. Cardinality(K) : Nth(K, k) \in K
  BY <1>2, <1>3, Places
<1>5. \A k \in 1 .. Cardinality(K) : s[Nth(K, k)] \in S
  BY <1>1, <1>2, <1>4
<1> QED
  BY <1>2, <1>3, <1>5, PickedByPlace

\* At most c numbers of a set have fewer than c of its numbers below them.
LEMMA FirstFew ==
    ASSUME NEW K \in SUBSET Nat, IsFiniteSet(K), NEW c \in Nat
    PROVE  /\ IsFiniteSet({n \in K : Cardinality({m \in K : m < n}) < c})
           /\ Cardinality({n \in K : Cardinality({m \in K : m < n}) < c}) <= c
<1> DEFINE Rank(n) == Cardinality({m \in K : m < n})
           first == {n \in K : Rank(n) < c}
           rank == [n \in first |-> Rank(n)]
<1>1. /\ \A i, j \in K : i < j => Rank(i) < Rank(j)
      /\ \A n \in K : Rank(n) \in Nat
  <2>1. /\ Cardinality(K) \in Nat
        /\ \A n \in K : Rank(n) \in 0 .. Cardinality(K) - 1
        /\ \A i, j \in K : i < j => Rank(i) < Rank(j)
    BY Ranks
  <2> HIDE DEF Rank
  <2> QED
    BY <2>1
<1> HIDE DEF Rank
<1>2. rank \in [first -> 0 .. c - 1]
  <2>1. \A n \in first : Rank(n) \in 0 .. c - 1
    BY <1>1
  <2> HIDE DEF first
  <2> QED
    BY <2>1
<1>3. \A i, j \in first : rank[i] = rank[j] => i = j
  <2> SUFFICES ASSUME NEW i \in first, NEW j \in first, rank[i] = rank[j] PROVE i = j
    OBVIOUS
  <2>1. i \in Nat /\ j \in Nat /\ Rank(i) = Rank(j) /\ Rank(i) \in Nat
    BY <1>1
  <2>2. ~(i < j) /\ ~(j < i)
    BY <1>1, <2>1
  <2> QED
    BY <2>1, <2>2
<1>4. IsFiniteSet(0 .. c - 1) /\ Cardinality(0 .. c - 1) = c
  <2>1. 0 \in Int /\ c - 1 \in Int /\ (0 > c - 1 <=> c = 0)
    OBVIOUS
  <2>2. IsFiniteSet(0 .. c - 1)
        /\ Cardinality(0 .. c - 1) = IF 0 > c - 1 THEN 0 ELSE c - 1 - 0 + 1
    BY <2>1, FS_Interval
  <2> QED
    BY <2>1, <2>2
<1>5. rank \in Injection(first, 0 .. c - 1)
  <2> HIDE DEF rank, first
  <2> QED
    BY <1>2, <1>3 DEF Injection, IsInjective
<1> HIDE DEF rank
<1>6. IsFiniteSet(first)
  BY FS_Subset
<1>7. Cardinality(first) <= c
  <2> HIDE DEF first
  <2>1. Cardinality(first) <= Cardinality(0 .. c - 1)
    BY <1>4, <1>5, <1>6, FS_Injection
  <2> QED
    BY <1>4, <2>1
<1> QED
  BY <1>6, <1>7 DEF Rank

\* What a list so made holds was at one of those positions.
LEMMA PickedFrom ==
    ASSUME NEW S, NEW s \in Seq(S), NEW K \in SUBSET DOMAIN s
    PROVE  \A k \in DOMAIN Picked(s, K) : \E n \in K : Picked(s, K)[k] = s[n]
<1>1. /\ IsFiniteSet(K) /\ K \in SUBSET Nat
      /\ DOMAIN Picked(s, K) = 1 .. Cardinality(K)
      /\ \A k \in 1 .. Cardinality(K) : Picked(s, K)[k] = s[Nth(K, k)]
  BY PickedIsList
<1>2. \A k \in 1 .. Cardinality(K) : Nth(K, k) \in K
  BY <1>1, Places
<1> QED
  BY <1>1, <1>2, Zenon

===============================================================================
