---------------------------- MODULE RetrievalProofs ----------------------------
(***************************************************************************)
(* The search page and the explorer beside everything that writes, for     *)
(* every set of items and tags, every hierarchy, cyclic or not, every      *)
(* depth bound and any number of commits between two statements.           *)
(***************************************************************************)
EXTENDS InsightsProofs, Lemmas

LEMMA DepthBound == MaxDepth \in Nat /\ MaxDepth # 0 /\ 0 \in 0 .. MaxDepth
BY WalkAssumption DEF WalkAssumption

USE DepthBound

(***************************************************************************)
(* Walks.  The recursive query is a function on 0 .. MaxDepth: it exists,  *)
(* by induction on the depth, and so satisfies its definition.             *)
(***************************************************************************)

HeadsFrom(E, V) == {e[2] : e \in {d \in E : d[1] \in V}}

IsFrontier(f, E, t, m) ==
    f = [n \in 0 .. m |-> IF n = 0 THEN {t} ELSE HeadsFrom(E, f[n - 1])]

LEMMA FrontierExists ==
    ASSUME NEW E, NEW t
    PROVE  \A m \in Nat : \E f : IsFrontier(f, E, t, m)
<1> DEFINE T == {m \in Nat : \E f : IsFrontier(f, E, t, m)}
<1>1. 0 \in T
  <2> DEFINE f == [n \in 0 .. 0 |-> {t}]
  <2>1. f = [n \in 0 .. 0 |-> IF n = 0 THEN {t} ELSE HeadsFrom(E, f[n - 1])]
    OBVIOUS
  <2>2. IsFrontier(f, E, t, 0)
    BY <2>1 DEF IsFrontier
  <2> QED
    BY <2>2
<1>2. ASSUME NEW m \in Nat, m \in T PROVE m + 1 \in T
  <2>1. PICK f : IsFrontier(f, E, t, m)
    BY <1>2
  <2>2. f = [n \in 0 .. m |-> IF n = 0 THEN {t} ELSE HeadsFrom(E, f[n - 1])]
    BY <2>1 DEF IsFrontier
  <2> DEFINE g == [n \in 0 .. m + 1 |-> IF n = m + 1 THEN HeadsFrom(E, f[m]) ELSE f[n]]
  <2>3. \A n \in 0 .. m + 1 : g[n] = IF n = 0 THEN {t} ELSE HeadsFrom(E, g[n - 1])
    <3> TAKE n \in 0 .. m + 1
    <3>1. CASE n = 0
      BY <2>2, <3>1
    <3>2. CASE n \in 1 .. m
      <4>1. g[n] = f[n] /\ g[n - 1] = f[n - 1] /\ n # 0 /\ n \in 0 .. m
        BY <3>2
      <4>2. f[n] = HeadsFrom(E, f[n - 1])
        BY <2>2, <4>1
      <4> QED
        BY <4>1, <4>2
    <3>3. CASE n = m + 1
      BY <3>3
    <3> QED
      BY <3>1, <3>2, <3>3
  <2>4. g = [n \in 0 .. m + 1 |-> g[n]]
    OBVIOUS
  <2> HIDE DEF g
  <2>5. IsFrontier(g, E, t, m + 1)
    BY <2>3, <2>4 DEF IsFrontier
  <2> QED
    BY <2>5
<1> HIDE DEF T
<1>3. Nat \subseteq T
  BY <1>1, <1>2, AllNumbers
<1> QED
  BY <1>3 DEF T

LEMMA FrontierIsFrontier ==
    ASSUME NEW E, NEW t
    PROVE  IsFrontier(Frontier(E, t), E, t, MaxDepth)
<1>1. \E f : IsFrontier(f, E, t, MaxDepth)
  BY FrontierExists
<1>2. Frontier(E, t) =
        CHOOSE f : f = [n \in 0 .. MaxDepth |->
            IF n = 0 THEN {t} ELSE {e[2] : e \in {d \in E : d[1] \in f[n - 1]}}]
  BY DEF Frontier
<1> QED
  BY <1>1, <1>2 DEF IsFrontier, HeadsFrom

Ways == {"up", "down"}

\* The edges as a walk of one direction follows them.
Turned(E, way) == IF way = "down" THEN E ELSE {<<e[2], e[1]>> : e \in E}

\* The tags n edges from t.
At(E, way, t, n) == Frontier(Turned(E, way), t)[n]

Hop(E, way, u, v) == IF way = "down" THEN <<u, v>> \in E ELSE <<v, u>> \in E

LEMMA WalksStart ==
    ASSUME NEW E, NEW way, NEW t
    PROVE  At(E, way, t, 0) = {t}
<1> DEFINE f == Frontier(Turned(E, way), t)
<1>1. f = [n \in 0 .. MaxDepth |-> IF n = 0 THEN {t} ELSE HeadsFrom(Turned(E, way), f[n - 1])]
  BY FrontierIsFrontier DEF IsFrontier
<1> HIDE DEF f
<1>2. f[0] = {t}
  BY <1>1
<1> QED
  BY <1>2 DEF At, f

LEMMA StepByStep ==
    ASSUME NEW E \in SUBSET (Tags \X Tags), NEW way \in Ways, NEW t,
           NEW n \in 0 .. MaxDepth - 1, NEW v
    PROVE  v \in At(E, way, t, n + 1) <=> \E u \in At(E, way, t, n) : Hop(E, way, u, v)
<1> DEFINE D == Turned(E, way)
           f == Frontier(D, t)
<1>1. D \in SUBSET (Tags \X Tags) /\ \A u : <<u, v>> \in D <=> Hop(E, way, u, v)
  BY DEF Turned, Hop, Ways
<1>2. f = [m \in 0 .. MaxDepth |-> IF m = 0 THEN {t} ELSE HeadsFrom(D, f[m - 1])]
  BY FrontierIsFrontier DEF IsFrontier
<1>3. n + 1 \in 0 .. MaxDepth /\ n + 1 # 0 /\ n + 1 - 1 = n
  OBVIOUS
<1>4. At(E, way, t, n + 1) = f[n + 1] /\ At(E, way, t, n) = f[n]
  BY DEF At
<1> HIDE DEF D, f
<1>5. f[n + 1] = HeadsFrom(D, f[n])
  <2>1. \A m \in 0 .. MaxDepth : m # 0 => f[m] = HeadsFrom(D, f[m - 1])
    BY <1>2
  <2>2. f[n + 1] = HeadsFrom(D, f[n + 1 - 1])
    BY <1>3, <2>1
  <2> QED
    BY <1>3, <2>2
<1>6. v \in HeadsFrom(D, f[n]) <=> \E u \in f[n] : <<u, v>> \in D
  <2>1. ASSUME v \in HeadsFrom(D, f[n]) PROVE \E u \in f[n] : <<u, v>> \in D
    <3>1. PICK e \in D : e[1] \in f[n] /\ v = e[2]
      BY <2>1 DEF HeadsFrom
    <3>2. e = <<e[1], v>>
      BY <1>1, <3>1
    <3> QED
      BY <3>1, <3>2
  <2>2. ASSUME NEW u \in f[n], <<u, v>> \in D PROVE v \in HeadsFrom(D, f[n])
    <3>1. <<u, v>>[1] = u /\ <<u, v>>[2] = v
      OBVIOUS
    <3> QED
      BY <2>2, <3>1 DEF HeadsFrom
  <2> QED
    BY <2>1, <2>2
<1> QED
  BY <1>1, <1>4, <1>5, <1>6

\* Induction over the depths.
LEMMA AllDepths ==
    ASSUME NEW T, 0 \in T, \A n \in 0 .. MaxDepth - 1 : n \in T => n + 1 \in T
    PROVE  \A n \in 0 .. MaxDepth : n \in T
<1> DEFINE U == {n \in Nat : n <= MaxDepth => n \in T}
<1>1. 0 \in U
  OBVIOUS
<1>2. \A n \in Nat : n \in U => n + 1 \in U
  OBVIOUS
<1> HIDE DEF U
<1>3. Nat \subseteq U
  BY <1>1, <1>2, AllNumbers
<1> QED
  BY <1>3 DEF U

\* A walk from a tag meets tags only, and finds no less when edges are added.
LEMMA WalksMeetTags ==
    ASSUME NEW E \in SUBSET (Tags \X Tags), NEW way \in Ways, NEW t \in Tags,
           NEW n \in 0 .. MaxDepth
    PROVE  At(E, way, t, n) \subseteq Tags
<1> DEFINE T == {m \in 0 .. MaxDepth : At(E, way, t, m) \subseteq Tags}
<1>1. 0 \in T
  <2>1. At(E, way, t, 0) = {t}
    BY WalksStart
  <2> QED
    BY <2>1
<1>2. ASSUME NEW m \in 0 .. MaxDepth - 1, m \in T PROVE m + 1 \in T
  <2>1. ASSUME NEW v, v \in At(E, way, t, m + 1) PROVE v \in Tags
    <3>1. PICK u \in At(E, way, t, m) : Hop(E, way, u, v)
      BY <2>1, StepByStep
    <3> QED
      BY <3>1 DEF Hop
  <2> QED
    BY <2>1
<1> HIDE DEF T
<1>3. n \in T
  BY <1>1, <1>2, AllDepths
<1> QED
  BY <1>3 DEF T

LEMMA WalksGrow ==
    ASSUME NEW E \in SUBSET (Tags \X Tags), NEW F \in SUBSET (Tags \X Tags), E \subseteq F,
           NEW way \in Ways, NEW t, NEW n \in 0 .. MaxDepth
    PROVE  At(E, way, t, n) \subseteq At(F, way, t, n)
<1> DEFINE T == {m \in 0 .. MaxDepth : At(E, way, t, m) \subseteq At(F, way, t, m)}
<1>1. 0 \in T
  <2>1. At(E, way, t, 0) = {t} /\ At(F, way, t, 0) = {t}
    BY WalksStart
  <2> QED
    BY <2>1
<1>2. ASSUME NEW m \in 0 .. MaxDepth - 1, m \in T PROVE m + 1 \in T
  <2>1. ASSUME NEW v, v \in At(E, way, t, m + 1) PROVE v \in At(F, way, t, m + 1)
    <3>1. PICK u \in At(E, way, t, m) : Hop(E, way, u, v)
      BY <2>1, StepByStep
    <3>2. u \in At(F, way, t, m) /\ Hop(F, way, u, v)
      BY <1>2, <3>1 DEF Hop
    <3> QED
      BY <3>2, StepByStep
  <2> QED
    BY <2>1
<1> HIDE DEF T
<1>3. n \in T
  BY <1>1, <1>2, AllDepths
<1> QED
  BY <1>3 DEF T

(***************************************************************************)
(* Walks and paths.                                                        *)
(***************************************************************************)

IsPath(E, way, p, n) ==
    /\ p \in [1 .. n + 1 -> Tags]
    /\ \A k \in 1 .. n : Hop(E, way, p[k], p[k + 1])

\* The n-th tag of a path is met by the n-th step of a walk.
LEMMA PathsAreWalked ==
    ASSUME NEW E \in SUBSET (Tags \X Tags), NEW way \in Ways, NEW p,
           NEW n \in 0 .. MaxDepth, IsPath(E, way, p, n)
    PROVE  p[1] \in Tags /\ p[n + 1] \in At(E, way, p[1], n)
<1> DEFINE T == {m \in 0 .. MaxDepth : m <= n => p[m + 1] \in At(E, way, p[1], m)}
<1>1. 0 \in T
  <2>1. At(E, way, p[1], 0) = {p[1]}
    BY WalksStart
  <2> QED
    BY <2>1
<1>2. ASSUME NEW m \in 0 .. MaxDepth - 1, m \in T PROVE m + 1 \in T
  <2>1. SUFFICES ASSUME m + 1 <= n PROVE p[m + 1 + 1] \in At(E, way, p[1], m + 1)
    OBVIOUS
  <2>2. m + 1 \in 1 .. n /\ p[m + 1] \in At(E, way, p[1], m)
    BY <1>2, <2>1
  <2>3. Hop(E, way, p[m + 1], p[m + 1 + 1])
    BY <2>2 DEF IsPath
  <2> QED
    BY <2>2, <2>3, StepByStep
<1> HIDE DEF T
<1>3. n \in T
  BY <1>1, <1>2, AllDepths
<1>4. p[n + 1] \in At(E, way, p[1], n)
  BY <1>3 DEF T
<1>5. p[1] \in Tags
  BY DEF IsPath
<1> QED
  BY <1>4, <1>5

\* u is met after n steps and no sooner.
First(E, way, t, u, n) ==
    u \in At(E, way, t, n) /\ \A m \in 0 .. n - 1 : u \notin At(E, way, t, m)

\* The k-th tag of a shortest path is first met after k steps.
IsShortest(E, way, t, u, n, p) ==
    /\ IsPath(E, way, p, n)
    /\ p[1] = t /\ p[n + 1] = u
    /\ \A k \in 1 .. n + 1 : First(E, way, t, p[k], k - 1)

LEMMA ShortestPaths ==
    ASSUME NEW E \in SUBSET (Tags \X Tags), NEW way \in Ways, NEW t \in Tags,
           NEW n \in 0 .. MaxDepth
    PROVE  \A u : First(E, way, t, u, n) => \E p : IsShortest(E, way, t, u, n, p)
<1> DEFINE T == {m \in 0 .. MaxDepth :
                   \A u : First(E, way, t, u, m) => \E p : IsShortest(E, way, t, u, m, p)}
<1>1. 0 \in T
  <2> SUFFICES ASSUME NEW u, First(E, way, t, u, 0)
               PROVE  \E p : IsShortest(E, way, t, u, 0, p)
    OBVIOUS
  <2> DEFINE p == [k \in 1 .. 1 |-> t]
  <2>1. u = t
    <3>1. At(E, way, t, 0) = {t} /\ u \in At(E, way, t, 0)
      BY WalksStart DEF First
    <3> QED
      BY <3>1
  <2>2. p \in [1 .. 0 + 1 -> Tags] /\ p[1] = t /\ p[0 + 1] = u
    BY <2>1
  <2>3. IsPath(E, way, p, 0)
    BY <2>2 DEF IsPath
  <2>4. \A k \in 1 .. 0 + 1 : First(E, way, t, p[k], k - 1)
    BY <2>1
  <2> HIDE DEF p
  <2>5. IsShortest(E, way, t, u, 0, p)
    BY <2>2, <2>3, <2>4 DEF IsShortest
  <2> QED
    BY <2>5
<1>2. ASSUME NEW m \in 0 .. MaxDepth - 1, m \in T PROVE m + 1 \in T
  <2> SUFFICES ASSUME NEW u, First(E, way, t, u, m + 1)
               PROVE  \E p : IsShortest(E, way, t, u, m + 1, p)
    OBVIOUS
  <2>1. u \in At(E, way, t, m + 1)
    BY DEF First
  <2>2. PICK v \in At(E, way, t, m) : Hop(E, way, v, u)
    BY <2>1, StepByStep
  <2>3. First(E, way, t, v, m)
    <3> SUFFICES ASSUME NEW k \in 0 .. m - 1, v \in At(E, way, t, k) PROVE FALSE
      BY <2>2 DEF First
    <3>1. k \in 0 .. MaxDepth - 1 /\ k + 1 \in 0 .. m + 1 - 1
      OBVIOUS
    <3>2. u \in At(E, way, t, k + 1)
      BY <2>2, <3>1, StepByStep
    <3> QED
      BY <3>1, <3>2 DEF First
  <2>4. PICK q : IsShortest(E, way, t, v, m, q)
    BY <1>2, <2>3
  <2>5. /\ q \in [1 .. m + 1 -> Tags] /\ \A k \in 1 .. m : Hop(E, way, q[k], q[k + 1])
        /\ q[1] = t /\ q[m + 1] = v
        /\ \A k \in 1 .. m + 1 : First(E, way, t, q[k], k - 1)
    BY <2>4 DEF IsShortest, IsPath
  <2> DEFINE p == [k \in 1 .. m + 1 + 1 |-> IF k = m + 2 THEN u ELSE q[k]]
  <2>6. u \in Tags
    BY <2>1, WalksMeetTags
  <2>7. /\ p \in [1 .. m + 1 + 1 -> Tags] /\ p[m + 1 + 1] = u
        /\ \A k \in 1 .. m + 1 : p[k] = q[k]
    BY <2>5, <2>6
  <2> HIDE DEF p
  <2>8. \A k \in 1 .. m + 1 : Hop(E, way, p[k], p[k + 1])
    <3> TAKE k \in 1 .. m + 1
    <3>1. CASE k \in 1 .. m
      <4>1. k + 1 \in 1 .. m + 1
        BY <3>1
      <4> QED
        BY <2>5, <2>7, <3>1, <4>1
    <3>2. CASE k = m + 1
      BY <2>2, <2>5, <2>7, <3>2
    <3> QED
      BY <3>1, <3>2
  <2>9. \A k \in 1 .. m + 1 + 1 : First(E, way, t, p[k], k - 1)
    <3> TAKE k \in 1 .. m + 1 + 1
    <3>1. CASE k \in 1 .. m + 1
      BY <2>5, <2>7, <3>1
    <3>2. CASE k = m + 1 + 1
      <4>1. k - 1 = m + 1
        BY <3>2
      <4> QED
        BY <2>7, <3>2, <4>1
    <3> QED
      BY <3>1, <3>2
  <2>10. p[1] = t
    BY <2>5, <2>7
  <2>11. IsShortest(E, way, t, u, m + 1, p)
    BY <2>7, <2>8, <2>9, <2>10 DEF IsShortest, IsPath
  <2> QED
    BY <2>11
<1> HIDE DEF T
<1>3. n \in T
  BY <1>1, <1>2, AllDepths
<1> QED
  BY <1>3 DEF T

\* A shortest path meets no tag twice.
LEMMA ShortestIsSimple ==
    ASSUME NEW E, NEW way, NEW t, NEW u, NEW n \in Nat, NEW p,
           IsShortest(E, way, t, u, n, p)
    PROVE  IsInjective(p)
<1> SUFFICES ASSUME NEW i \in 1 .. n + 1, NEW j \in 1 .. n + 1, p[i] = p[j]
             PROVE  i = j
  BY DEF IsShortest, IsPath, IsInjective
<1>1. First(E, way, t, p[i], i - 1) /\ First(E, way, t, p[j], j - 1)
  BY DEF IsShortest
<1>2. p[i] \in At(E, way, t, i - 1) /\ p[i] \in At(E, way, t, j - 1)
  BY <1>1 DEF First
<1>3. ~(i - 1 \in 0 .. j - 1 - 1) /\ ~(j - 1 \in 0 .. i - 1 - 1)
  BY <1>1, <1>2 DEF First
<1> QED
  BY <1>3

\* What a walk meets it meets first after no more steps, along a simple path.
LEMMA WalksHavePaths ==
    ASSUME NEW E \in SUBSET (Tags \X Tags), NEW way \in Ways, NEW t \in Tags,
           NEW n \in 0 .. MaxDepth, NEW u \in At(E, way, t, n)
    PROVE  \E k \in 0 .. n : \E p :
              IsPath(E, way, p, k) /\ IsInjective(p) /\ p[1] = t /\ p[k + 1] = u
<1> DEFINE K == {k \in 0 .. n : u \in At(E, way, t, k)}
<1>1. K \in SUBSET Nat /\ n \in K
  OBVIOUS
<1>2. PICK k \in K : \A m \in K : k <= m
  BY <1>1, LeastNumber
<1>3. k \in 0 .. MaxDepth /\ k \in 0 .. n
  OBVIOUS
<1>4. First(E, way, t, u, k)
  <2>1. \A m \in 0 .. k - 1 : m \in 0 .. n /\ ~(k <= m)
    BY <1>3
  <2> QED
    BY <1>2, <2>1 DEF First
<1>5. PICK p : IsShortest(E, way, t, u, k, p)
  BY <1>3, <1>4, ShortestPaths
<1>6. IsInjective(p)
  BY <1>3, <1>5, ShortestIsSimple
<1> QED
  BY <1>3, <1>5, <1>6 DEF IsShortest

(***************************************************************************)
(* The rows of the recursive queries.                                      *)
(***************************************************************************)

LEMMA LeastIsMin ==
    ASSUME NEW T \in SUBSET Nat, T # {}
    PROVE  Min(T) \in T /\ \A n \in T : Min(T) <= n
<1>1. \E m \in T : \A n \in T : m <= n
  BY LeastNumber
<1> QED
  BY <1>1 DEF Min

\* Nearest gives every tag of some rows the least of its depths.
LEMMA NearestIsLeast ==
    ASSUME NEW rows, \A r \in rows : r.depth \in Nat
    PROVE  /\ DOMAIN Nearest(rows) = {r.tag : r \in rows}
           /\ \A r \in rows : Nearest(rows)[r.tag] <= r.depth
           /\ \A t \in DOMAIN Nearest(rows) :
                \E r \in rows : r.tag = t /\ Nearest(rows)[t] = r.depth
<1> DEFINE Depths(t) == {r.depth : r \in {s \in rows : s.tag = t}}
           N == Nearest(rows)
<1>1. N = [t \in {r.tag : r \in rows} |-> Min(Depths(t))]
  BY DEF Nearest
<1>2. ASSUME NEW t \in {r.tag : r \in rows}
      PROVE  Min(Depths(t)) \in Depths(t) /\ \A n \in Depths(t) : Min(Depths(t)) <= n
  <2>1. Depths(t) \in SUBSET Nat /\ Depths(t) # {}
    OBVIOUS
  <2> HIDE DEF Depths
  <2> QED
    BY <2>1, LeastIsMin
<1>3. \A r \in rows : r.depth \in Depths(r.tag) /\ r.tag \in {q.tag : q \in rows}
  OBVIOUS
<1>4. \A t : \A n \in Depths(t) : \E r \in rows : r.tag = t /\ n = r.depth
  OBVIOUS
<1>5. DOMAIN N = {r.tag : r \in rows}
  BY <1>1
<1>6. \A t \in {r.tag : r \in rows} : N[t] = Min(Depths(t))
  BY <1>1
<1> HIDE DEF Depths, N
<1>7. \A r \in rows : N[r.tag] <= r.depth
  BY <1>2, <1>3, <1>6
<1>8. \A t \in DOMAIN N : \E r \in rows : r.tag = t /\ N[t] = r.depth
  BY <1>2, <1>4, <1>5, <1>6
<1> QED
  BY <1>5, <1>7, <1>8 DEF N

\* The rows of one query.
RowsOf(E, way, t, depth) ==
    IF way = "down" THEN Descendants(E, t, depth) ELSE Ancestors(E, t, depth)

LEMMA RowsOfWalk ==
    ASSUME NEW E, NEW way \in Ways, NEW t, NEW depth \in 1 .. MaxDepth
    PROVE  /\ \A r \in RowsOf(E, way, t, depth) :
                /\ r = [tag |-> r.tag, depth |-> r.depth]
                /\ r.depth \in 1 .. depth /\ r.tag \in At(E, way, t, r.depth)
           /\ \A n \in 1 .. depth : \A u \in At(E, way, t, n) :
                [tag |-> u, depth |-> n] \in RowsOf(E, way, t, depth)
<1> DEFINE row(u, n) == [tag |-> u, depth |-> n]
<1>1. RowsOf(E, way, t, depth) = UNION {{row(u, n) : u \in At(E, way, t, n)} : n \in 1 .. depth}
  <2> DEFINE D == Turned(E, way)
  <2>1. RowsOf(E, way, t, depth) = Descendants(D, t, depth)
    BY DEF RowsOf, Ancestors, Turned, Ways
  <2> HIDE DEF D
  <2>2. Descendants(D, t, depth)
          = UNION {{row(u, n) : u \in Frontier(D, t)[n]} : n \in 1 .. depth}
    BY DEF Descendants
  <2>3. \A n : At(E, way, t, n) = Frontier(D, t)[n]
    BY DEF At, D
  <2> HIDE DEF row
  <2> QED
    BY <2>1, <2>2, <2>3
<1>2. ASSUME NEW r \in RowsOf(E, way, t, depth)
      PROVE  /\ r = [tag |-> r.tag, depth |-> r.depth]
             /\ r.depth \in 1 .. depth /\ r.tag \in At(E, way, t, r.depth)
  <2>1. PICK n \in 1 .. depth : r \in {row(u, n) : u \in At(E, way, t, n)}
    BY <1>1, <1>2
  <2>2. PICK u \in At(E, way, t, n) : r = row(u, n)
    BY <2>1
  <2> QED
    BY <2>2
<1>3. ASSUME NEW n \in 1 .. depth, NEW u \in At(E, way, t, n)
      PROVE  row(u, n) \in RowsOf(E, way, t, depth)
  BY <1>1, <1>3
<1> QED
  BY <1>2, <1>3

(***************************************************************************)
(* The explorer.                                                           *)
(***************************************************************************)

\* Whoever is kept, the nearer are too.
LEMMA NearerIsKept ==
    ASSUME NEW levels, NEW root, \A t \in DOMAIN levels : levels[t] \in Int,
           NEW nodes \in Kept(levels, root),
           NEW t \in nodes \ {root}, NEW u \in DOMAIN levels,
           Abs(levels[u]) < Abs(levels[t])
    PROVE  t \in DOMAIN levels /\ u \in nodes
<1>1. CASE nodes = DOMAIN levels
  BY <1>1
<1>2. CASE nodes # DOMAIN levels
  <2>1. PICK S \in SUBSET DOMAIN levels :
          /\ nodes = S \cup {root}
          /\ \A v \in S, w \in DOMAIN levels \ S : Abs(levels[v]) <= Abs(levels[w])
    BY <1>2 DEF Kept, kSubset
  <2>2. t \in S /\ levels[t] \in Int /\ levels[u] \in Int
    BY <2>1
  <2>3. Abs(levels[t]) \in Int /\ Abs(levels[u]) \in Int
    BY <2>2 DEF Abs
  <2>4. u \in S
    BY <2>1, <2>2, <2>3
  <2> QED
    BY <2>1, <2>2, <2>4
<1> QED
  BY <1>1, <1>2

Broader(up, down) == {t \in DOMAIN up : t \in DOMAIN down => up[t] <= down[t]}

\* A tag of the neighbourhood, at the distance it is drawn at, has a neighbour
\* that is strictly nearer, in its own direction.
LEMMA NeighbourIsNearer ==
    ASSUME NEW E \in SUBSET (Tags \X Tags), NEW root \in Tags, NEW depth \in 1 .. MaxDepth,
           NEW t \in DOMAIN Levels(E, root, depth) \ {root}
    PROVE  LET levels == Levels(E, root, depth)
           IN  /\ \A u \in DOMAIN levels : levels[u] \in Int
               /\ \E u \in DOMAIN levels :
                    \/ levels[t] < 0 /\ <<t, u>> \in E /\ Abs(levels[u]) < -levels[t]
                    \/ levels[t] > 0 /\ <<u, t>> \in E /\ Abs(levels[u]) < levels[t]
<1> DEFINE rowsOf(way) == RowsOf(E, way, root, depth)
           near(way) == Nearest(rowsOf(way))
           up == near("up")
           down == near("down")
           broader == Broader(up, down)
           levels == Levels(E, root, depth)
<1>1. levels = [u \in {root} \cup DOMAIN up \cup DOMAIN down |->
            IF u = root THEN 0 ELSE IF u \in broader THEN -up[u] ELSE down[u]]
  BY DEF Levels, RowsOf, Broader
<1>2. ASSUME NEW way \in Ways
      PROVE  /\ \A u \in DOMAIN near(way) :
                  near(way)[u] \in 1 .. depth /\ u \in At(E, way, root, near(way)[u])
             /\ \A n \in 1 .. depth : \A u \in At(E, way, root, n) :
                  u \in DOMAIN near(way) /\ near(way)[u] <= n
  <2>1. /\ \A r \in rowsOf(way) : r.depth \in 1 .. depth /\ r.tag \in At(E, way, root, r.depth)
        /\ \A n \in 1 .. depth : \A u \in At(E, way, root, n) :
             [tag |-> u, depth |-> n] \in rowsOf(way)
    BY RowsOfWalk
  <2>2. /\ DOMAIN near(way) = {r.tag : r \in rowsOf(way)}
        /\ \A r \in rowsOf(way) : near(way)[r.tag] <= r.depth
        /\ \A u \in DOMAIN near(way) : \E r \in rowsOf(way) : r.tag = u /\ near(way)[u] = r.depth
    <3>1. \A r \in rowsOf(way) : r.depth \in Nat
      BY <2>1
    <3> HIDE DEF rowsOf
    <3> QED
      BY <3>1, NearestIsLeast
  <2> HIDE DEF near, rowsOf
  <2>3. ASSUME NEW n \in 1 .. depth, NEW u \in At(E, way, root, n)
        PROVE  u \in DOMAIN near(way) /\ near(way)[u] <= n
    <3> DEFINE r == [tag |-> u, depth |-> n]
    <3>1. r \in rowsOf(way) /\ r.tag = u /\ r.depth = n
      BY <2>1
    <3> HIDE DEF r
    <3> QED
      BY <2>2, <3>1
  <2> QED
    BY <2>1, <2>2, <2>3
<1> HIDE DEF near, rowsOf
<1>3. /\ \A u \in DOMAIN up : up[u] \in 1 .. depth /\ u \in At(E, "up", root, up[u])
      /\ \A u \in DOMAIN down : down[u] \in 1 .. depth /\ u \in At(E, "down", root, down[u])
      /\ \A n \in 1 .. depth : \A u \in At(E, "up", root, n) : u \in DOMAIN up /\ up[u] <= n
      /\ \A n \in 1 .. depth : \A u \in At(E, "down", root, n) : u \in DOMAIN down /\ down[u] <= n
  BY <1>2 DEF Ways
<1> HIDE DEF up, down, levels
<1>4. /\ DOMAIN levels = {root} \cup DOMAIN up \cup DOMAIN down
      /\ levels[root] = 0
      /\ \A u \in DOMAIN levels : u # root /\ u \in broader => levels[u] = -up[u]
      /\ \A u \in DOMAIN levels : u # root /\ u \notin broader => levels[u] = down[u]
  BY <1>1
<1>5. \A u \in DOMAIN up \cup DOMAIN down : u \notin broader => u \in DOMAIN down
  BY DEF Broader
<1>6. \A u \in broader : u \in DOMAIN up
  BY DEF Broader
<1>7. \A u \in DOMAIN levels : levels[u] \in Int
  BY <1>3, <1>4, <1>5, <1>6
<1>8. \A u \in DOMAIN up : u \in DOMAIN levels /\ Abs(levels[u]) <= up[u]
  <2> SUFFICES ASSUME NEW u \in DOMAIN up PROVE Abs(levels[u]) <= up[u]
    BY <1>4
  <2>1. up[u] \in 1 .. depth /\ u \in DOMAIN levels
    BY <1>3, <1>4
  <2>2. CASE u = root
    BY <1>4, <2>1, <2>2 DEF Abs
  <2>3. CASE u # root /\ u \in broader
    BY <1>4, <2>1, <2>3 DEF Abs
  <2>4. CASE u # root /\ u \notin broader
    <3>1. u \in DOMAIN down /\ down[u] \in 1 .. depth /\ ~(up[u] <= down[u])
      BY <1>3, <2>4 DEF Broader
    <3>2. levels[u] = down[u]
      BY <1>4, <2>1, <2>4
    <3> QED
      BY <2>1, <3>1, <3>2 DEF Abs
  <2> QED
    BY <2>2, <2>3, <2>4
<1>9. \A u \in DOMAIN down : u \in DOMAIN levels /\ Abs(levels[u]) <= down[u]
  <2> SUFFICES ASSUME NEW u \in DOMAIN down PROVE Abs(levels[u]) <= down[u]
    BY <1>4
  <2>1. down[u] \in 1 .. depth /\ u \in DOMAIN levels
    BY <1>3, <1>4
  <2>2. CASE u = root
    BY <1>4, <2>1, <2>2 DEF Abs
  <2>3. CASE u # root /\ u \in broader
    <3>1. u \in DOMAIN up /\ up[u] \in 1 .. depth /\ up[u] <= down[u]
      BY <1>3, <2>3 DEF Broader
    <3>2. levels[u] = -up[u]
      BY <1>4, <2>1, <2>3
    <3> QED
      BY <2>1, <3>1, <3>2 DEF Abs
  <2>4. CASE u # root /\ u \notin broader
    BY <1>4, <2>1, <2>4 DEF Abs
  <2> QED
    BY <2>2, <2>3, <2>4
<1>10. CASE t \in broader
  <2> DEFINE n == up[t]
  <2>1. n \in 1 .. depth /\ t \in At(E, "up", root, n) /\ levels[t] = -n
    BY <1>3, <1>4, <1>6, <1>10 DEF levels
  <2> HIDE DEF n
  <2>2. n - 1 \in 0 .. MaxDepth - 1 /\ n - 1 + 1 = n
    BY <2>1
  <2>3. PICK u \in At(E, "up", root, n - 1) : Hop(E, "up", u, t)
    BY <2>1, <2>2, StepByStep DEF Ways
  <2>4. u \in DOMAIN levels /\ Abs(levels[u]) <= n - 1
    <3>1. CASE n = 1
      <4>1. u = root
        BY <2>3, <3>1, WalksStart
      <4> QED
        BY <1>4, <3>1, <4>1 DEF Abs
    <3>2. CASE n # 1
      <4>1. n - 1 \in 1 .. depth
        BY <2>1, <3>2
      <4>2. u \in DOMAIN up /\ up[u] <= n - 1 /\ up[u] \in Int
        BY <1>3, <2>3, <4>1
      <4>3. u \in DOMAIN levels /\ Abs(levels[u]) <= up[u] /\ levels[u] \in Int
        BY <1>7, <1>8, <4>2
      <4> QED
        BY <2>1, <4>2, <4>3 DEF Abs
    <3> QED
      BY <3>1, <3>2
  <2>5. levels[u] \in Int
    BY <1>7, <2>4
  <2>6. levels[t] < 0 /\ <<t, u>> \in E /\ Abs(levels[u]) < -levels[t]
    BY <2>1, <2>3, <2>4, <2>5 DEF Hop, Abs
  <2> QED
    BY <1>7, <2>4, <2>6 DEF levels
<1>11. CASE t \notin broader
  <2> DEFINE n == down[t]
  <2>1. n \in 1 .. depth /\ t \in At(E, "down", root, n) /\ levels[t] = n
    BY <1>3, <1>4, <1>5, <1>11 DEF levels
  <2> HIDE DEF n
  <2>2. n - 1 \in 0 .. MaxDepth - 1 /\ n - 1 + 1 = n
    BY <2>1
  <2>3. PICK u \in At(E, "down", root, n - 1) : Hop(E, "down", u, t)
    BY <2>1, <2>2, StepByStep DEF Ways
  <2>4. u \in DOMAIN levels /\ Abs(levels[u]) <= n - 1
    <3>1. CASE n = 1
      <4>1. u = root
        BY <2>3, <3>1, WalksStart
      <4> QED
        BY <1>4, <3>1, <4>1 DEF Abs
    <3>2. CASE n # 1
      <4>1. n - 1 \in 1 .. depth
        BY <2>1, <3>2
      <4>2. u \in DOMAIN down /\ down[u] <= n - 1 /\ down[u] \in Int
        BY <1>3, <2>3, <4>1
      <4>3. u \in DOMAIN levels /\ Abs(levels[u]) <= down[u] /\ levels[u] \in Int
        BY <1>7, <1>9, <4>2
      <4> QED
        BY <2>1, <4>2, <4>3 DEF Abs
    <3> QED
      BY <3>1, <3>2
  <2>5. levels[u] \in Int
    BY <1>7, <2>4
  <2>6. levels[t] > 0 /\ <<u, t>> \in E /\ Abs(levels[u]) < levels[t]
    BY <2>1, <2>3, <2>4, <2>5 DEF Hop, Abs
  <2> QED
    BY <1>7, <2>4, <2>6 DEF levels
<1> QED
  BY <1>10, <1>11

(***************************************************************************)
(* The store.                                                              *)
(***************************************************************************)

CorpusInv == StoreShape /\ CorpusTypeOK

\* Between two merges the store only grows.
Adds ==
    /\ store'.merges = store.merges /\ store'.merged = store.merged
    /\ store.links \subseteq store'.links /\ store.edges \subseteq store'.edges

Moves == Adds \/ store'.merges = store.merges + 1

LEMMA CommitMoves ==
    ASSUME CorpusInv, NEW links, NEW edges, NEW merged, NEW merges,
           store' = [links |-> links, edges |-> edges, merged |-> merged, merges |-> merges],
           writes < MaxWrites, writes' = writes + 1,
           links \subseteq Items \X Tags, edges \subseteq Tags \X Tags,
           \A t \in Tags : <<t, t>> \notin edges, merged \subseteq Tags,
           merges \in {store.merges, store.merges + 1}
    PROVE  CorpusInv'
<1>1. writes \in 0 .. MaxWrites /\ store.merges \in 0 .. writes /\ MaxWrites \in Nat
  BY CorpusAssumption DEF CorpusInv, CorpusTypeOK, CorpusAssumption
<1>2. writes' \in 0 .. MaxWrites /\ merges \in 0 .. writes' /\ merges \in Nat
  BY <1>1
<1> QED
  BY <1>2 DEF CorpusInv, CorpusTypeOK, StoreShape

LEMMA WritesMove ==
    ASSUME CorpusInv
    PROVE  /\ \A i \in Items, t \in Tags : Assign(i, t) => CorpusInv' /\ Moves
           /\ \A p, c \in Tags : AddEdge(p, c) => CorpusInv' /\ Moves
           /\ \A s, t \in Tags : MergeInto(s, t) => CorpusInv' /\ Moves
           /\ UNCHANGED corpusVars => CorpusInv' /\ Moves
<1>1. /\ store = [links |-> store.links, edges |-> store.edges,
                  merged |-> store.merged, merges |-> store.merges]
      /\ store.links \subseteq Items \X Tags /\ store.edges \subseteq Tags \X Tags
      /\ \A t \in Tags : <<t, t>> \notin store.edges
      /\ store.merged \subseteq Tags
  BY DEF CorpusInv, CorpusTypeOK, StoreShape
<1>2. ASSUME NEW i \in Items, NEW t \in Tags, Assign(i, t) PROVE CorpusInv' /\ Moves
  <2> DEFINE l == store.links \cup {<<i, t>>}
  <2>1. /\ store' = [links |-> l, edges |-> store.edges,
                      merged |-> store.merged, merges |-> store.merges]
        /\ writes < MaxWrites /\ writes' = writes + 1
    <3>1. [store EXCEPT !.links = @ \cup {<<i, t>>}]
            = [links |-> l, edges |-> store.edges,
               merged |-> store.merged, merges |-> store.merges]
      BY <1>1
    <3> QED
      BY <1>2, <3>1 DEF Assign, Commits
  <2>2. l \subseteq Items \X Tags
    BY <1>1
  <2> QED
    BY <1>1, <2>1, <2>2, CommitMoves DEF Moves, Adds
<1>3. ASSUME NEW p \in Tags, NEW c \in Tags, AddEdge(p, c) PROVE CorpusInv' /\ Moves
  <2> DEFINE e == store.edges \cup {<<p, c>>}
  <2>1. /\ store' = [links |-> store.links, edges |-> e,
                      merged |-> store.merged, merges |-> store.merges]
        /\ writes < MaxWrites /\ writes' = writes + 1
    <3>1. [store EXCEPT !.edges = @ \cup {<<p, c>>}]
            = [links |-> store.links, edges |-> e,
               merged |-> store.merged, merges |-> store.merges]
      BY <1>1
    <3> QED
      BY <1>3, <3>1 DEF AddEdge, Commits
  <2>2. e \subseteq Tags \X Tags /\ \A t \in Tags : <<t, t>> \notin e
    BY <1>1, <1>3 DEF AddEdge
  <2> QED
    BY <1>1, <2>1, <2>2, CommitMoves DEF Moves, Adds
<1>4. ASSUME NEW s \in Tags, NEW t \in Tags, MergeInto(s, t) PROVE CorpusInv' /\ Moves
  <2> DEFINE to(u) == IF u = s THEN t ELSE u
             l == {<<k[1], to(k[2])>> : k \in store.links}
             e == {d \in {<<to(d[1]), to(d[2])>> : d \in store.edges} : d[1] # d[2]}
  <2>1. /\ store' = [links |-> l, edges |-> e, merged |-> store.merged \cup {s},
                      merges |-> store.merges + 1]
        /\ writes < MaxWrites /\ writes' = writes + 1
    <3>1. /\ store' = [store EXCEPT !.links = l, !.edges = e, !.merged = store.merged \cup {s},
                          !.merges = store.merges + 1]
          /\ writes < MaxWrites /\ writes' = writes + 1
      BY <1>4 DEF MergeInto, Commits
    <3> DEFINE m == store.merged \cup {s}
               n == store.merges + 1
    <3> HIDE DEF l, e, m, n
    <3>2. store' = [store EXCEPT !.links = l, !.edges = e, !.merged = m, !.merges = n]
      BY <3>1 DEF m, n
    <3>3. DOMAIN store = {"links", "edges", "merged", "merges"}
      BY DEF CorpusInv, StoreShape
    <3>4. /\ DOMAIN store' = {"links", "edges", "merged", "merges"}
          /\ store' = [x \in DOMAIN store' |-> store'[x]]
      BY <3>2, <3>3
    <3>5. store'.links = l /\ store'.edges = e /\ store'.merged = m /\ store'.merges = n
      BY <3>2, <3>3
    <3>6. store' = [links |-> l, edges |-> e, merged |-> m, merges |-> n]
      BY <3>4, <3>5
    <3> QED
      BY <3>1, <3>6 DEF m, n
  <2>2. l \subseteq Items \X Tags
    BY <1>1
  <2>3. e \subseteq Tags \X Tags /\ \A u \in Tags : <<u, u>> \notin e
    BY <1>1
  <2> HIDE DEF l, e
  <2>4. CorpusInv' /\ store'.merges = store.merges + 1
    <3> DEFINE m == store.merged \cup {s}
               n == store.merges + 1
    <3>1. m \subseteq Tags
      BY <1>1
    <3> HIDE DEF m
    <3>2. store' = [links |-> l, edges |-> e, merged |-> m, merges |-> n]
      BY <2>1 DEF m
    <3> QED
      BY <2>1, <2>2, <2>3, <3>1, <3>2, CommitMoves
  <2> QED
    BY <2>4 DEF Moves
<1>5. ASSUME UNCHANGED corpusVars PROVE CorpusInv' /\ Moves
  BY <1>5 DEF corpusVars, CorpusInv, CorpusTypeOK, StoreShape, Moves, Adds
<1> QED
  BY <1>2, <1>3, <1>4, <1>5

\* Jobs and merges leave a store of items, tags and edges without loops, each
\* merge counted once.
THEOREM CorpusInvariant == Spec => []CorpusInv
<1>1. Init => CorpusInv
  <2> SUFFICES ASSUME Init PROVE CorpusInv
    OBVIOUS
  <2>1. PICK b \in Beginnings : store = [EmptyStore EXCEPT !.links = b[1], !.edges = b[2]]
    BY DEF Init, CorpusInit
  <2>2. store = [links |-> b[1], edges |-> b[2], merged |-> {}, merges |-> 0] /\ writes = 0
    BY <2>1 DEF EmptyStore, Init, CorpusInit
  <2>3. /\ b[1] \subseteq Items \X Tags
        /\ b[2] \subseteq {e \in Tags \X Tags : e[1] # e[2]}
        /\ MaxWrites \in Nat
    BY CorpusAssumption DEF CorpusAssumption
  <2>4. b[2] \subseteq Tags \X Tags /\ \A u \in Tags : <<u, u>> \notin b[2]
    BY <2>3
  <2> QED
    BY <2>2, <2>3, <2>4 DEF CorpusInv, CorpusTypeOK, StoreShape
<1>2. CorpusInv /\ IInv /\ [Next]_vars => CorpusInv'
  <2> SUFFICES ASSUME CorpusInv, IInv, [Next]_vars PROVE CorpusInv'
    OBVIOUS
  <2>1. CASE reader = "search" /\ SearchNext
    BY <2>1, WritesMove DEF SearchNext, SearchStatement, Seed, SeedTags, Walk, Collect
  <2>2. CASE reader = "report" /\ InsightsNext
    <3>1. present \subseteq Items
      BY <2>2 DEF IInv, Facts, Shape
    <3> QED
      BY <2>2, <3>1, WritesMove
         DEF InsightsNext, Commit, ReportStatement, CountRecent, CountPrior, DrawSamples,
             TotalRecent, TotalPrior
  <2>3. CASE UNCHANGED vars
    BY <2>3, WritesMove DEF vars
  <2> QED
    BY <2>1, <2>2, <2>3 DEF Next
<1> QED
  BY <1>1, <1>2, ReportInvariant, PTL DEF Spec

\* The explorer draws a connected neighbourhood of every tag, at every depth,
\* of every hierarchy there has ever been: what is cut off is always further
\* away than what it would leave hanging.
THEOREM DrawnIsConnected == Spec => []ExplorerIsConnected
<1>1. CorpusInv => ExplorerIsConnected
  <2> SUFFICES ASSUME CorpusInv, NEW root \in Tags, NEW depth \in 1 .. MaxDepth,
                      NEW nodes \in Kept(Levels(store.edges, root, depth), root),
                      NEW t \in nodes \ {root}
               PROVE  LET levels == Levels(store.edges, root, depth)
                      IN  \E e \in Drawn(store.edges, nodes) :
                            \/ levels[t] < 0 /\ e[1] = t /\ Abs(levels[e[2]]) < -levels[t]
                            \/ levels[t] > 0 /\ e[2] = t /\ Abs(levels[e[1]]) < levels[t]
    BY DEF ExplorerIsConnected
  <2> DEFINE levels == Levels(store.edges, root, depth)
  <2>1. store.edges \in SUBSET (Tags \X Tags)
    BY DEF CorpusInv, CorpusTypeOK
  <2>2. t \in DOMAIN levels
    BY DEF Kept, kSubset
  <2>3. \A u \in DOMAIN levels : levels[u] \in Int
    BY <2>1, <2>2, NeighbourIsNearer
  <2>4. PICK u \in DOMAIN levels :
          \/ levels[t] < 0 /\ <<t, u>> \in store.edges /\ Abs(levels[u]) < -levels[t]
          \/ levels[t] > 0 /\ <<u, t>> \in store.edges /\ Abs(levels[u]) < levels[t]
    BY <2>1, <2>2, NeighbourIsNearer
  <2> HIDE DEF levels
  <2>5. Abs(levels[u]) < Abs(levels[t])
    BY <2>2, <2>3, <2>4 DEF Abs
  <2>6. u \in nodes
    BY <2>3, <2>5, NearerIsKept DEF levels
  <2>7. CASE levels[t] < 0 /\ <<t, u>> \in store.edges /\ Abs(levels[u]) < -levels[t]
    <3> DEFINE e == <<t, u>>
    <3>1. e \in Drawn(store.edges, nodes) /\ e[1] = t /\ e[2] = u
      BY <2>6, <2>7 DEF Drawn
    <3> HIDE DEF e
    <3> QED
      BY <2>7, <3>1 DEF levels
  <2>8. CASE levels[t] > 0 /\ <<u, t>> \in store.edges /\ Abs(levels[u]) < levels[t]
    <3> DEFINE e == <<u, t>>
    <3>1. e \in Drawn(store.edges, nodes) /\ e[2] = t /\ e[1] = u
      BY <2>6, <2>8 DEF Drawn
    <3> HIDE DEF e
    <3> QED
      BY <2>8, <3>1 DEF levels
  <2> QED
    BY <2>4, <2>7, <2>8
<1> QED
  BY <1>1, CorpusInvariant, PTL

(***************************************************************************)
(* Ranking.                                                                *)
(***************************************************************************)

\* A list of the elements of a finite set, each once.
LEMMA ListsAll ==
    ASSUME NEW S, IsFiniteSet(S), NEW f \in SetToSeqs(S)
    PROVE  /\ Cardinality(S) \in Nat
           /\ f \in Seq(S) /\ DOMAIN f = 1 .. Cardinality(S) /\ Len(f) = Cardinality(S)
           /\ \A m \in DOMAIN f : f[m] \in S
           /\ \A m, n \in DOMAIN f : f[m] = f[n] => m = n
           /\ \A x \in S : \E n \in DOMAIN f : f[n] = x
<1> DEFINE c == Cardinality(S)
<1>1. c \in Nat
  BY FS_CardinalityType
<1>2. /\ f \in [1 .. c -> S]
      /\ \A m, n \in 1 .. c : m # n => f[m] # f[n]
  BY DEF SetToSeqs
<1> HIDE DEF c
<1>3. f \in Seq(S) /\ DOMAIN f = 1 .. c /\ Len(f) = c
  BY <1>1, <1>2, ListOf
<1>4. f \in Injection(1 .. c, S)
  BY <1>2 DEF Injection, IsInjective
<1>5. IsFiniteSet(1 .. c) /\ Cardinality(1 .. c) = c
  BY <1>1, FS_Interval
<1>6. f \in Surjection(1 .. c, S)
  BY <1>4, <1>5, FS_Injection DEF c
<1>7. \A x \in S : \E n \in 1 .. c : f[n] = x
  BY <1>6 DEF Surjection
<1> QED
  BY <1>1, <1>2, <1>3, <1>7 DEF c

\* hits.sort(): what comes before all the rest, and in order, stays in place.
KeepsFirst(order, hits, l, c) ==
    /\ \A n \in 1 .. c : order[n] \in 1 .. c
    /\ \A m, n \in 1 .. c : order[m] = order[n] => m = n
    /\ \A k \in 1 .. c : \E n \in 1 .. c : order[n] = k
    /\ \A m, n \in 1 .. c : m < n => hits[order[m]].score >= hits[order[n]].score
    /\ \A n \in 1 .. l : order[n] = n
    /\ \A n \in l + 1 .. c : order[n] \in l + 1 .. c

LEMMA RankingKeeps ==
    ASSUME NEW hits, NEW c \in Nat, DOMAIN hits = 1 .. c, NEW l \in 0 .. c,
           \A n \in 1 .. c : hits[n].score \in Nat,
           \A m \in 1 .. l, n \in 1 .. c : m < n => hits[m].score >= hits[n].score,
           NEW order \in Rankings(hits)
    PROVE  KeepsFirst(order, hits, l, c)
<1>1. /\ IsFiniteSet(1 .. c) /\ Cardinality(1 .. c) = c
      /\ order \in SetToSeqs(1 .. c)
  <2>1. IsFiniteSet(1 .. c)
    BY FS_Interval
  <2>2. Cardinality(1 .. c) = c
    BY FS_Interval
  <2>3. order \in SetToSeqs(DOMAIN hits)
    BY DEF Rankings
  <2> QED
    BY <2>1, <2>2, <2>3
<1>2. /\ DOMAIN order = 1 .. c /\ \A n \in 1 .. c : order[n] \in 1 .. c
      /\ \A m, n \in 1 .. c : order[m] = order[n] => m = n
      /\ \A k \in 1 .. c : \E n \in 1 .. c : order[n] = k
  <2>1. /\ DOMAIN order = 1 .. Cardinality(1 .. c)
        /\ \A m \in DOMAIN order : order[m] \in 1 .. c
        /\ \A m, n \in DOMAIN order : order[m] = order[n] => m = n
        /\ \A k \in 1 .. c : \E n \in DOMAIN order : order[n] = k
    BY <1>1, ListsAll, Zenon
  <2> QED
    BY <1>1, <2>1, Zenon
<1>3. \A m, n \in 1 .. c : m < n =>
        \/ hits[order[m]].score > hits[order[n]].score
        \/ hits[order[m]].score = hits[order[n]].score /\ order[m] < order[n]
  BY <1>2 DEF Rankings
<1>4. \A m, n \in 1 .. c : m < n => hits[order[m]].score >= hits[order[n]].score
  <2> SUFFICES ASSUME NEW m \in 1 .. c, NEW n \in 1 .. c, m < n
               PROVE  hits[order[m]].score >= hits[order[n]].score
    OBVIOUS
  <2>1. hits[order[m]].score \in Nat /\ hits[order[n]].score \in Nat
    BY <1>2
  <2> QED
    BY <1>3, <2>1
<1>5. \A n \in 1 .. l : order[n] = n
  <2> DEFINE T == {n \in 1 .. l : order[n] # n}
  <2> SUFFICES ASSUME T # {} PROVE FALSE
    OBVIOUS
  <2>1. T \in SUBSET Nat
    OBVIOUS
  <2>2. PICK n \in T : \A m \in T : n <= m
    BY <2>1, LeastNumber
  <2>3. n \in 1 .. l /\ order[n] # n /\ \A m \in 1 .. n - 1 : order[m] = m
    BY <2>2
  <2> HIDE DEF T
  <2>4. PICK j \in 1 .. c : order[j] = n
    BY <1>2, <2>3
  <2>5. j > n
    BY <2>3, <2>4
  <2>6. order[n] > n
    <3>1. order[n] \in 1 .. c
      BY <1>2, <2>3
    <3>2. \A m \in 1 .. n - 1 : order[n] # m
      BY <1>2, <2>3
    <3> QED
      BY <2>3, <3>1, <3>2
  <2>7. hits[n].score >= hits[order[n]].score /\ hits[n].score \in Nat /\ hits[order[n]].score \in Nat
    <3>1. n \in 1 .. l /\ n \in 1 .. c
      BY <2>3
    <3>2. order[n] \in 1 .. c
      BY <1>2, <3>1
    <3> QED
      BY <2>6, <3>1, <3>2
  <2>8. n \in 1 .. c /\ n < j
    BY <2>3, <2>5
  <2>9. \/ hits[order[n]].score > hits[order[j]].score
        \/ hits[order[n]].score = hits[order[j]].score /\ order[n] < order[j]
    BY <1>3, <2>4, <2>8
  <2> DEFINE a == hits[n].score
             b == hits[order[n]].score
             k == order[n]
  <2>10. a >= b /\ a \in Nat /\ b \in Nat /\ (b > a \/ (b = a /\ k < n)) /\ k > n
    BY <2>4, <2>6, <2>7, <2>9
  <2>11. k \in Nat /\ n \in Nat
    BY <1>2, <2>8
  <2> HIDE DEF a, b, k
  <2> QED
    BY <2>10, <2>11
<1>6. ASSUME NEW n \in l + 1 .. c PROVE order[n] \in l + 1 .. c
  <2> DEFINE k == order[n]
  <2>1. n \in 1 .. c /\ k \in 1 .. c
    BY <1>2
  <2>2. ASSUME k \in 1 .. l PROVE FALSE
    <3>1. order[k] = k
      BY <1>5, <2>2
    <3>2. k = n
      BY <1>2, <2>1, <3>1
    <3> HIDE DEF k
    <3> QED
      BY <2>2, <3>2
  <2> HIDE DEF k
  <2>3. k \in l + 1 .. c
    BY <2>1, <2>2
  <2> QED
    BY <2>3 DEF k
<1> QED
  BY <1>2, <1>4, <1>5, <1>6 DEF KeepsFirst

LEMMA Division ==
    ASSUME NEW a \in Nat, NEW b \in Nat \ {0}
    PROVE  a \div b \in Nat /\ b * (a \div b) <= a /\ a < b * ((a \div b) + 1)
OBVIOUS

LEMMA DivisionFalls ==
    ASSUME NEW a \in Nat, NEW b \in Nat \ {0}, NEW c \in Nat \ {0}, b <= c
    PROVE  a \div c <= a \div b /\ a \div b <= a
<1> DEFINE q == a \div b
           r == a \div c
<1>1. q \in Nat /\ b * q <= a /\ a < b * (q + 1)
  BY Division
<1>2. r \in Nat /\ c * r <= a
  BY Division
<1> HIDE DEF q, r
<1>3. b * r <= c * r
  BY <1>2
<1>4. b * r < b * (q + 1)
  BY <1>1, <1>2, <1>3
<1>5. r < q + 1
  BY <1>1, <1>2, <1>4
<1>6. q <= b * q
  BY <1>1
<1> QED
  BY <1>1, <1>2, <1>5, <1>6 DEF q, r

\* What separates the two routes: no seed scores less, no other item more.
Floor == 3600

LEMMA SeedScoreFalls ==
    ASSUME NEW d \in 0 .. 200, NEW e \in 0 .. 200, d <= e
    PROVE  SeedScore(d) \in Nat /\ SeedScore(d) >= Floor /\ SeedScore(d) >= SeedScore(e)
<1>1. ASSUME NEW n \in 0 .. 200 PROVE SeedScore(n) = 10800 - 36 * n
  <2> DEFINE s == 7200 - 36 * n
  <2>1. s \in {0, s} /\ s \in Nat /\ \A y \in {0, s} : s >= y
    OBVIOUS
  <2>2. \A x \in {0, s} : (\A y \in {0, s} : x >= y) => x = s
    BY <2>1
  <2>3. Max({0, s}) = s
    BY <2>1, <2>2 DEF Max
  <2> QED
    BY <2>3 DEF SeedScore
<1> QED
  BY <1>1 DEF Floor

LEMMA ExpandedScoreIsLess ==
    ASSUME NEW d \in Nat, NEW m \in Nat
    PROVE  ExpandedScore(d, m) \in 0 .. Floor
<1> DEFINE a == 2520 \div (1 + d)
           b == Min({m, 5})
<1>1. a \in 0 .. 2520
  BY Division, DivisionFalls
<1>2. b \in 0 .. 5
  BY MinOfTwo
<1>3. ExpandedScore(d, m) = a + 216 * b
  BY DEF ExpandedScore
<1> HIDE DEF a, b
<1> QED
  BY <1>1, <1>2, <1>3 DEF Floor

LEMMA FloorIsNat == Floor \in Nat
BY DEF Floor

LEMMA ScoreOfOne ==
    ASSUME NEW d \in Nat
    PROVE  ExpandedScore(d, 1) \in Nat
<1> DEFINE a == 2520 \div (1 + d)
<1>1. a \in Nat
  BY Division
<1>2. ExpandedScore(d, 1) = a + 216 * Min({1, 5}) /\ Min({1, 5}) = 1
  BY MinOfTwo DEF ExpandedScore
<1> HIDE DEF a
<1> QED
  BY <1>1, <1>2

LEMMA ScoreFalls ==
    ASSUME NEW d \in Nat, NEW n \in Nat, d <= n, NEW m \in Nat \ {0}
    PROVE  ExpandedScore(d, m) >= ExpandedScore(n, 1)
<1> DEFINE a == 2520 \div (1 + d)
           b == 2520 \div (1 + n)
           k == Min({m, 5})
<1>1. b <= a /\ a \in Nat /\ b \in Nat
  <2>1. 1 + d \in Nat \ {0} /\ 1 + n \in Nat \ {0} /\ 1 + d <= 1 + n
    OBVIOUS
  <2>2. a \in Nat /\ b \in Nat
    BY <2>1, Division
  <2>3. 2520 \div (1 + n) <= 2520 \div (1 + d)
    <3> DEFINE p == 1 + d
               q == 1 + n
               w == 2520
    <3>1. p \in Nat \ {0} /\ q \in Nat \ {0} /\ p <= q /\ w \in Nat
      OBVIOUS
    <3> HIDE DEF p, q, w
    <3>2. w \div q <= w \div p
      BY <3>1, DivisionFalls, Zenon
    <3> QED
      BY <3>2 DEF p, q, w
  <2> QED
    BY <2>2, <2>3
<1>2. k >= 1 /\ k \in Nat /\ Min({1, 5}) = 1
  BY MinOfTwo
<1>3. ExpandedScore(d, m) = a + 216 * k /\ ExpandedScore(n, 1) = b + 216
  BY <1>2 DEF ExpandedScore
<1> HIDE DEF a, b, k
<1> QED
  BY <1>1, <1>2, <1>3

(***************************************************************************)
(* How near an item is.                                                    *)
(***************************************************************************)

\* What a search walks from: the tags of the items S in a store.
OwnOf(S, st) == {t \in Tags : t \notin st.merged /\ \E i \in S : <<i, t>> \in st.links}

Reaches(S, st, u, n) == \E s \in OwnOf(S, st), way \in Ways : u \in At(st.edges, way, s, n)

\* Item i carries a tag n hops away, by walks that may repeat a tag.
Near(S, st, i, n) == \E u \in Tags : <<i, u>> \in st.links /\ Reaches(S, st, u, n)

\* Walks and paths of distinct tags reach the same items within n hops.
LEMMA WithinIsNear ==
    ASSUME NEW st, st.edges \in SUBSET (Tags \X Tags), NEW i, NEW n \in 0 .. MaxDepth
    PROVE  Within(st, i, n) <=> \E k \in 0 .. n : Near(Seeds, st, i, k)
<1>1. ASSUME Within(st, i, n) PROVE \E k \in 0 .. n : Near(Seeds, st, i, k)
  <2>1. PICK k \in 0 .. n : \E p \in Paths(st.edges, k) :
          /\ <<i, p[k + 1]>> \in st.links
          /\ p[1] \notin st.merged
          /\ \E seed \in Seeds : <<seed, p[1]>> \in st.links
    BY <1>1 DEF Within
  <2>2. PICK p \in Paths(st.edges, k) :
          /\ <<i, p[k + 1]>> \in st.links
          /\ p[1] \notin st.merged
          /\ \E seed \in Seeds : <<seed, p[1]>> \in st.links
    BY <2>1
  <2>3. k \in 0 .. MaxDepth
    OBVIOUS
  <2>4. PICK way \in Ways : IsPath(st.edges, way, p, k)
    <3>1. p \in [1 .. k + 1 -> Tags]
      BY DEF Paths
    <3>2. CASE \A j \in 1 .. k : <<p[j], p[j + 1]>> \in st.edges
      <4>1. IsPath(st.edges, "down", p, k)
        BY <3>1, <3>2 DEF IsPath, Hop
      <4> QED
        BY <4>1 DEF Ways
    <3>3. CASE \A j \in 1 .. k : <<p[j + 1], p[j]>> \in st.edges
      <4>1. IsPath(st.edges, "up", p, k)
        BY <3>1, <3>3 DEF IsPath, Hop
      <4> QED
        BY <4>1 DEF Ways
    <3> QED
      BY <3>2, <3>3 DEF Paths
  <2>5. p[1] \in Tags /\ p[k + 1] \in At(st.edges, way, p[1], k)
    BY <2>3, <2>4, PathsAreWalked
  <2>6. p[1] \in OwnOf(Seeds, st)
    BY <2>2, <2>5 DEF OwnOf
  <2>7. p[k + 1] \in Tags
    BY <2>3, <2>5, WalksMeetTags
  <2> QED
    BY <2>2, <2>5, <2>6, <2>7 DEF Near, Reaches
<1>2. ASSUME NEW k \in 0 .. n, Near(Seeds, st, i, k) PROVE Within(st, i, n)
  <2>1. PICK u \in Tags, s \in OwnOf(Seeds, st), way \in Ways :
          <<i, u>> \in st.links /\ u \in At(st.edges, way, s, k)
    BY <1>2 DEF Near, Reaches
  <2>2. k \in 0 .. MaxDepth /\ s \in Tags /\ s \notin st.merged
        /\ \E seed \in Seeds : <<seed, s>> \in st.links
    BY DEF OwnOf
  <2>3. PICK j \in 0 .. k : \E p :
          IsPath(st.edges, way, p, j) /\ IsInjective(p) /\ p[1] = s /\ p[j + 1] = u
    BY <2>1, <2>2, WalksHavePaths
  <2>4. PICK p : IsPath(st.edges, way, p, j) /\ IsInjective(p) /\ p[1] = s /\ p[j + 1] = u
    BY <2>3
  <2>5. p \in Paths(st.edges, j)
    <3>1. p \in [1 .. j + 1 -> Tags] /\ \A h \in 1 .. j : Hop(st.edges, way, p[h], p[h + 1])
      BY <2>4 DEF IsPath
    <3>2. CASE way = "down"
      BY <2>4, <3>1, <3>2 DEF Paths, Hop
    <3>3. CASE way # "down"
      BY <2>4, <3>1, <3>3 DEF Paths, Hop
    <3> QED
      BY <3>2, <3>3
  <2>6. j \in 0 .. n
    BY <2>2
  <2> QED
    BY <2>1, <2>2, <2>4, <2>5, <2>6 DEF Within
<1> QED
  BY <1>1, <1>2

\* Links and edges only ever bring items nearer.
LEMMA NearGrows ==
    ASSUME NEW s, NEW t, s.edges \in SUBSET (Tags \X Tags), t.edges \in SUBSET (Tags \X Tags),
           s.links \subseteq t.links, s.edges \subseteq t.edges, s.merged = t.merged,
           NEW S
    PROVE  /\ OwnOf(S, s) \subseteq OwnOf(S, t)
           /\ \A u : \A n \in 0 .. MaxDepth : Reaches(S, s, u, n) => Reaches(S, t, u, n)
           /\ \A i : \A n \in 0 .. MaxDepth : Near(S, s, i, n) => Near(S, t, i, n)
<1>1. OwnOf(S, s) \subseteq OwnOf(S, t)
  BY DEF OwnOf
<1>2. ASSUME NEW u, NEW n \in 0 .. MaxDepth, Reaches(S, s, u, n) PROVE Reaches(S, t, u, n)
  <2>1. PICK r \in OwnOf(S, s), way \in Ways : u \in At(s.edges, way, r, n)
    BY <1>2 DEF Reaches
  <2>2. u \in At(t.edges, way, r, n)
    BY <2>1, WalksGrow
  <2> QED
    BY <1>1, <2>1, <2>2 DEF Reaches
<1>3. ASSUME NEW i, NEW n \in 0 .. MaxDepth, Near(S, s, i, n) PROVE Near(S, t, i, n)
  BY <1>2, <1>3 DEF Near
<1> QED
  BY <1>1, <1>2, <1>3

(***************************************************************************)
(* The search.  Its invariant is kept between the store it began with and  *)
(* the one there is now: what it has found is no nearer than it is now and *)
(* no further than it was then, for as long as nothing is merged.          *)
(***************************************************************************)

\* The fields of a search and their types; its seeds are distinct items, the
\* closest first.
SearchShape ==
    /\ embedded \subseteq Items
    /\ search = [pc |-> search.pc, start |-> search.start, seeds |-> search.seeds,
                 todo |-> search.todo, reached |-> search.reached, hits |-> search.hits]
    /\ search.pc \in {"idle", "tags", "walk", "answered"}
    /\ search.seeds \in Seq(Items)
    /\ \A m, n \in DOMAIN search.seeds : m < n =>
         /\ search.seeds[m] # search.seeds[n]
         /\ Distance[search.seeds[m]] <= Distance[search.seeds[n]]
    /\ search.todo \subseteq Tags \X Ways
    /\ DOMAIN search.reached \subseteq Tags
    /\ \A u \in DOMAIN search.reached : search.reached[u] \in 0 .. MaxDepth
    /\ \A n \in DOMAIN search.hits : search.hits[n] \in Hits

\* The store the search began with, which has only grown unless merged.
SinceTheSearchBegan ==
    /\ search.start.edges \in SUBSET (Tags \X Tags)
    /\ search.start.merges \in Nat
    /\ search.start.merges <= store.merges
    /\ search.pc # "idle" /\ NoMergeSince =>
         /\ search.start.links \subseteq store.links
         /\ search.start.edges \subseteq store.edges
         /\ search.start.merged = store.merged

\* What has been reached lies no nearer than it does now ...
WalkedNoFurther ==
    search.pc = "walk" /\ NoMergeSince =>
        /\ \A k \in search.todo : k[1] \in OwnOf(Seeds, store)
        /\ \A u \in DOMAIN search.reached : Reaches(Seeds, store, u, search.reached[u])

ReachedBy(u, n) == u \in DOMAIN search.reached /\ search.reached[u] <= n

\* ... and no further than it did when the search began, by the walks done.
WalkedAllTheWay ==
    search.pc = "walk" /\ NoMergeSince =>
        \A s \in OwnOf(Seeds, search.start) :
            /\ ReachedBy(s, 0)
            /\ \A way \in Ways : <<s, way>> \notin search.todo =>
                 \A n \in 0 .. MaxDepth : \A u \in At(search.start.edges, way, s, n) :
                    ReachedBy(u, n)

\* DepthIsDistance and NothingMissed, told of walks.
AnswerIsNear ==
    Answered /\ NoMergeSince =>
        \A h \in Hit : h.route = "expanded" =>
            /\ Near(Seeds, store, h.item, h.depth)
            /\ AllRead => \A n \in 0 .. h.depth - 1 : ~Near(Seeds, search.start, h.item, n)

AnswerIsFull ==
    Answered /\ NoMergeSince /\ AllRead =>
        \A i \in Items \ Seeds : \A n \in 0 .. MaxDepth :
            Near(Seeds, search.start, i, n) =>
                \/ \E h \in Hit : h.item = i
                \/ /\ Len(search.hits) = Limit
                   /\ \A h \in Hit : h.score >= ExpandedScore(n, 1)

SearchInv ==
    /\ SearchShape
    /\ SinceTheSearchBegan
    /\ WalkedNoFurther
    /\ WalkedAllTheWay
    /\ SeedsComeFirst
    /\ AnswerIsNear
    /\ AnswerIsFull

LEMMA MatchingIsFinite ==
    ASSUME CorpusInv
    PROVE  IsFiniteSet(Matching)
<1>1. IsFiniteSet(Items \X Tags)
  BY CorpusAssumption, FS_Product DEF CorpusAssumption
<1>2. Matching \in SUBSET (Items \X Tags)
  BY DEF Matching, CorpusInv, CorpusTypeOK
<1> QED
  BY <1>1, <1>2, FS_Subset

LEMMA MatchingStaysFinite ==
    ASSUME CorpusInv'
    PROVE  IsFiniteSet(Matching')
<1>1. IsFiniteSet(Items \X Tags)
  BY CorpusAssumption, FS_Product DEF CorpusAssumption
<1>2. Matching' \in SUBSET (Items \X Tags)
  BY DEF Matching, CorpusInv, CorpusTypeOK
<1> QED
  BY <1>1, <1>2, FS_Subset

LEMMA NothingSearched ==
    ASSUME search = NoSearch, embedded \subseteq Items, store.merges \in Nat
    PROVE  SearchInv
<1>1. /\ search.pc = "idle" /\ search.start = EmptyStore /\ search.seeds = <<>>
      /\ search.todo = {} /\ DOMAIN search.reached = {} /\ search.hits = <<>>
  BY DEF NoSearch
<1>2. SearchShape
  BY <1>1 DEF SearchShape, NoSearch
<1>3. SinceTheSearchBegan
  BY <1>1 DEF SinceTheSearchBegan, EmptyStore
<1> QED
  BY <1>1, <1>2, <1>3
     DEF SearchInv, WalkedNoFurther, WalkedAllTheWay, SeedsComeFirst, AnswerIsNear,
         AnswerIsFull, Answered

\* Whatever commits while a search stands still.
LEMMA SearchStands ==
    ASSUME SearchInv, CorpusInv, CorpusInv', Moves, UNCHANGED searchVars
    PROVE  SearchInv'
<1>1. /\ search' = search /\ embedded' = embedded
      /\ Seeds' = Seeds /\ Hit' = Hit
      /\ store.merges \in Nat
  BY DEF searchVars, Seeds, Hit, CorpusInv, StoreShape
<1>2. SearchShape'
  BY <1>1 DEF SearchInv, SearchShape
<1>3. NoMergeSince' => NoMergeSince /\ Adds
  BY <1>1 DEF NoMergeSince, Moves, Adds, SearchInv, SinceTheSearchBegan
<1>11. AllRead' /\ NoMergeSince' => AllRead
  <2> SUFFICES ASSUME AllRead', NoMergeSince' PROVE AllRead
    OBVIOUS
  <2>1. Matching \in SUBSET Matching'
    BY <1>1, <1>3 DEF Adds, Matching
  <2>2. IsFiniteSet(Matching) /\ IsFiniteSet(Matching')
    BY MatchingIsFinite, MatchingStaysFinite
  <2>3. Cardinality(Matching) <= Cardinality(Matching')
    BY <2>1, <2>2, FS_Subset
  <2> QED
    BY <2>2, <2>3, FS_CardinalityType, RetrievalAssumption DEF AllRead, RetrievalAssumption
<1>4. SinceTheSearchBegan'
  <2>1. search.start.merges <= store'.merges
    BY <1>1 DEF Moves, Adds, SearchInv, SinceTheSearchBegan
  <2> QED
    BY <1>1, <1>3, <2>1 DEF Adds, SearchInv, SinceTheSearchBegan
<1>5. ASSUME NoMergeSince'
      PROVE  /\ OwnOf(Seeds, store) \subseteq OwnOf(Seeds, store')
             /\ \A u : \A n \in 0 .. MaxDepth :
                  Reaches(Seeds, store, u, n) => Reaches(Seeds, store', u, n)
             /\ \A i : \A n \in 0 .. MaxDepth :
                  Near(Seeds, store, i, n) => Near(Seeds, store', i, n)
  <2>1. /\ store.links \subseteq store'.links /\ store.edges \subseteq store'.edges
        /\ store.merged = store'.merged
    BY <1>3, <1>5 DEF Adds
  <2>2. store.edges \in SUBSET (Tags \X Tags) /\ store'.edges \in SUBSET (Tags \X Tags)
    BY DEF CorpusInv, CorpusTypeOK
  <2> QED
    BY <2>1, <2>2, NearGrows
<1>6. WalkedNoFurther'
  <2> SUFFICES ASSUME search.pc = "walk", NoMergeSince'
               PROVE  /\ \A k \in search.todo : k[1] \in OwnOf(Seeds, store')
                      /\ \A u \in DOMAIN search.reached :
                           Reaches(Seeds, store', u, search.reached[u])
    BY <1>1 DEF WalkedNoFurther
  <2>1. /\ \A k \in search.todo : k[1] \in OwnOf(Seeds, store)
        /\ \A u \in DOMAIN search.reached : Reaches(Seeds, store, u, search.reached[u])
    BY <1>3 DEF SearchInv, WalkedNoFurther
  <2>2. \A u \in DOMAIN search.reached : search.reached[u] \in 0 .. MaxDepth
    BY DEF SearchInv, SearchShape
  <2> QED
    BY <1>5, <2>1, <2>2
<1>7. WalkedAllTheWay'
  BY <1>1, <1>3 DEF SearchInv, WalkedAllTheWay, ReachedBy
<1>8. SeedsComeFirst'
  BY <1>1 DEF SearchInv, SeedsComeFirst, Answered
<1>9. AnswerIsNear'
  <2> SUFFICES ASSUME search.pc = "answered", NoMergeSince', NEW h \in Hit, h.route = "expanded"
               PROVE  /\ Near(Seeds, store', h.item, h.depth)
                      /\ AllRead' => \A n \in 0 .. h.depth - 1 : ~Near(Seeds, search.start, h.item, n)
    BY <1>1 DEF AnswerIsNear, Answered
  <2>1. /\ Near(Seeds, store, h.item, h.depth)
        /\ AllRead => \A n \in 0 .. h.depth - 1 : ~Near(Seeds, search.start, h.item, n)
    BY <1>3 DEF SearchInv, AnswerIsNear, Answered
  <2>2. h.depth \in 0 .. MaxDepth
    <3>1. \A n \in DOMAIN search.hits : search.hits[n] \in Hits
      BY DEF SearchInv, SearchShape
    <3> QED
      BY <3>1 DEF Hit, Hits
  <2> QED
    BY <1>5, <1>11, <2>1, <2>2
<1>10. AnswerIsFull'
  BY <1>1, <1>3, <1>11 DEF SearchInv, AnswerIsFull, Answered
<1> QED
  BY <1>2, <1>4, <1>6, <1>7, <1>8, <1>9, <1>10 DEF SearchInv

LEMMA SeedKeeps ==
    ASSUME SearchInv, CorpusInv, Seed
    PROVE  SearchInv'
<1>1. PICK order \in SetToSeqs(embedded) :
        /\ \A m, n \in DOMAIN order : m < n => Distance[order[m]] <= Distance[order[n]]
        /\ search' = [NoSearch EXCEPT
              !.pc = "tags", !.start = store,
              !.seeds = [n \in 1 .. Min({SeedLimit, Len(order)}) |-> order[n]]]
  BY DEF Seed
<1> DEFINE c == Min({SeedLimit, Len(order)})
           seeds == [n \in 1 .. c |-> order[n]]
<1>2. store' = store /\ embedded' = embedded /\ embedded \subseteq Items
  BY DEF Seed, corpusVars, SearchInv, SearchShape
<1>3. IsFiniteSet(embedded)
  BY <1>2, CorpusAssumption, FS_Subset DEF CorpusAssumption
<1>4. /\ Len(order) \in Nat /\ DOMAIN order = 1 .. Len(order)
      /\ \A m \in DOMAIN order : order[m] \in embedded
      /\ \A m, n \in DOMAIN order : order[m] = order[n] => m = n
  <2>1. /\ Cardinality(embedded) \in Nat /\ DOMAIN order = 1 .. Cardinality(embedded)
        /\ Len(order) = Cardinality(embedded)
        /\ \A m \in DOMAIN order : order[m] \in embedded
        /\ \A m, n \in DOMAIN order : order[m] = order[n] => m = n
    BY <1>3, ListsAll, Zenon
  <2> QED
    BY <2>1
<1>5. c \in Nat /\ c <= Len(order)
  <2>1. SeedLimit \in Nat
    BY RetrievalAssumption DEF RetrievalAssumption
  <2> QED
    BY <1>4, <2>1, MinOfTwo
<1> HIDE DEF c
<1>6. /\ search'.pc = "tags" /\ search'.start = store /\ search'.seeds = seeds
      /\ search'.todo = {} /\ search'.reached = [t \in {} |-> 0] /\ search'.hits = <<>>
      /\ search' = [pc |-> search'.pc, start |-> search'.start, seeds |-> search'.seeds,
                    todo |-> search'.todo, reached |-> search'.reached, hits |-> search'.hits]
  BY <1>1 DEF NoSearch, c
<1>7. seeds \in Seq(Items) /\ DOMAIN seeds = 1 .. c
  <2>1. \A n \in 1 .. c : seeds[n] \in Items
    BY <1>2, <1>4, <1>5
  <2> QED
    BY <1>5, <2>1
<1>8. \A m, n \in 1 .. c : m < n =>
        /\ seeds[m] # seeds[n]
        /\ Distance[seeds[m]] <= Distance[seeds[n]]
  BY <1>1, <1>4, <1>5
<1> HIDE DEF seeds
<1>9. SearchShape'
  BY <1>2, <1>6, <1>7, <1>8 DEF SearchShape
<1>10. SinceTheSearchBegan'
  BY <1>2, <1>6 DEF SinceTheSearchBegan, CorpusInv, CorpusTypeOK, StoreShape
<1> QED
  BY <1>6, <1>9, <1>10
     DEF SearchInv, WalkedNoFurther, WalkedAllTheWay, SeedsComeFirst, AnswerIsNear,
         AnswerIsFull, Answered

LEMMA SeedTagsKeeps ==
    ASSUME SearchInv, CorpusInv, SeedTags
    PROVE  SearchInv'
<1> DEFINE own == {k[2] : k \in {l \in store.links : l[1] \in Seeds}} \ store.merged
<1>1. own = OwnOf(Seeds, store)
  <2>1. store.links \subseteq Items \X Tags
    BY DEF CorpusInv, CorpusTypeOK
  <2>2. ASSUME NEW t \in own PROVE t \in OwnOf(Seeds, store)
    <3>1. PICK k \in store.links : k[1] \in Seeds /\ k[2] = t /\ t \notin store.merged
      OBVIOUS
    <3>2. k = <<k[1], t>> /\ t \in Tags
      BY <2>1, <3>1
    <3> QED
      BY <3>1, <3>2 DEF OwnOf
  <2>3. ASSUME NEW t \in OwnOf(Seeds, store) PROVE t \in own
    <3>1. PICK i \in Seeds : <<i, t>> \in store.links /\ t \notin store.merged
      BY DEF OwnOf
    <3> QED
      BY <3>1
  <2> QED
    BY <2>2, <2>3
<1>2. /\ search.pc = "tags"
      /\ search' = [search EXCEPT !.pc = "walk", !.todo = own \X {"up", "down"},
                       !.reached = [t \in own |-> 0]]
      /\ store' = store /\ embedded' = embedded
  BY DEF SeedTags, corpusVars
<1> HIDE DEF own
<1>3. /\ search'.pc = "walk" /\ search'.start = search.start /\ search'.seeds = search.seeds
      /\ search'.todo = own \X Ways /\ search'.reached = [t \in own |-> 0]
      /\ search'.hits = search.hits
      /\ search' = [pc |-> search'.pc, start |-> search'.start, seeds |-> search'.seeds,
                    todo |-> search'.todo, reached |-> search'.reached, hits |-> search'.hits]
  BY <1>2 DEF SearchInv, SearchShape, Ways
<1>4. own \subseteq Tags
  BY <1>1 DEF OwnOf
<1>5. SearchShape'
  BY <1>2, <1>3, <1>4 DEF SearchInv, SearchShape
<1>6. SinceTheSearchBegan'
  BY <1>2, <1>3 DEF SearchInv, SinceTheSearchBegan, NoMergeSince
<1>7. Seeds' = Seeds
  BY <1>3 DEF Seeds
<1>8. \A u \in own : Reaches(Seeds, store, u, 0)
  BY <1>1, WalksStart DEF Reaches, Ways
<1>9. WalkedNoFurther'
  BY <1>1, <1>2, <1>3, <1>7, <1>8 DEF WalkedNoFurther
<1>10. WalkedAllTheWay'
  <2> SUFFICES ASSUME NoMergeSince', NEW s \in OwnOf(Seeds, search.start)
               PROVE  /\ ReachedBy(s, 0)'
                      /\ \A way \in Ways : <<s, way>> \in search'.todo
    BY <1>3, <1>7 DEF WalkedAllTheWay
  <2>1. s \in own
    <3>1. /\ search.start.links \subseteq store.links /\ search.start.edges \subseteq store.edges
          /\ search.start.merged = store.merged
      BY <1>2, <1>3 DEF SearchInv, SinceTheSearchBegan, NoMergeSince
    <3> QED
      BY <1>1, <3>1 DEF OwnOf
  <2> QED
    BY <1>3, <2>1 DEF ReachedBy
<1> QED
  BY <1>3, <1>5, <1>6, <1>9, <1>10
     DEF SearchInv, SeedsComeFirst, AnswerIsNear, AnswerIsFull, Answered

LEMMA WalkKeeps ==
    ASSUME SearchInv, CorpusInv, NEW t \in Tags, NEW dir \in Ways, Walk(t, dir)
    PROVE  SearchInv'
<1> DEFINE rows == RowsOf(store.edges, dir, t, MaxDepth)
           known == {[tag |-> u, depth |-> search.reached[u]] : u \in DOMAIN search.reached}
           near == Nearest(known \cup rows)
<1>1. /\ search.pc = "walk" /\ <<t, dir>> \in search.todo
      /\ search' = [search EXCEPT !.todo = search.todo \ {<<t, dir>>}, !.reached = near]
      /\ store' = store /\ embedded' = embedded
  BY DEF Walk, corpusVars, RowsOf, Ways
<1>2. store.edges \in SUBSET (Tags \X Tags) /\ MaxDepth \in 1 .. MaxDepth
  BY DEF CorpusInv, CorpusTypeOK
<1>3. \A r \in rows : /\ r.depth \in 1 .. MaxDepth
                      /\ r.tag \in At(store.edges, dir, t, r.depth) /\ r.tag \in Tags
  <2>1. \A r \in rows : r.depth \in 1 .. MaxDepth /\ r.tag \in At(store.edges, dir, t, r.depth)
    BY <1>2, RowsOfWalk
  <2> HIDE DEF rows
  <2>2. \A n \in 1 .. MaxDepth : At(store.edges, dir, t, n) \subseteq Tags
    <3> SUFFICES ASSUME NEW n \in 1 .. MaxDepth PROVE At(store.edges, dir, t, n) \subseteq Tags
      OBVIOUS
    <3>1. n \in 0 .. MaxDepth
      OBVIOUS
    <3> QED
      BY <1>2, <3>1, WalksMeetTags
  <2> QED
    BY <2>1, <2>2
<1>4. \A n \in 1 .. MaxDepth : \A u \in At(store.edges, dir, t, n) : [tag |-> u, depth |-> n] \in rows
  BY <1>2, RowsOfWalk
<1> HIDE DEF rows
<1>5. /\ DOMAIN search.reached \subseteq Tags
      /\ \A u \in DOMAIN search.reached : search.reached[u] \in 0 .. MaxDepth
  BY DEF SearchInv, SearchShape
<1>6. /\ \A r \in known : /\ r.tag \in DOMAIN search.reached
                          /\ r.depth = search.reached[r.tag]
      /\ \A u \in DOMAIN search.reached :
           \E r \in known : r.tag = u /\ r.depth = search.reached[u]
  <2>1. ASSUME NEW u \in DOMAIN search.reached
        PROVE  \E r \in known : r.tag = u /\ r.depth = search.reached[u]
    <3> DEFINE r == [tag |-> u, depth |-> search.reached[u]]
    <3>1. r \in known /\ r.tag = u /\ r.depth = search.reached[u]
      OBVIOUS
    <3> QED
      BY <3>1
  <2>2. ASSUME NEW r \in known
        PROVE  r.tag \in DOMAIN search.reached /\ r.depth = search.reached[r.tag]
    OBVIOUS
  <2> QED
    BY <2>1, <2>2
<1> HIDE DEF known
<1>7. \A r \in known \cup rows : r.depth \in 0 .. MaxDepth /\ r.tag \in Tags
  BY <1>3, <1>5, <1>6
<1>8. /\ DOMAIN near = {r.tag : r \in known \cup rows}
      /\ \A r \in known \cup rows : near[r.tag] <= r.depth
      /\ \A u \in DOMAIN near : \E r \in known \cup rows : r.tag = u /\ near[u] = r.depth
  <2>1. \A r \in known \cup rows : r.depth \in Nat
    BY <1>7
  <2> QED
    BY <2>1, NearestIsLeast
<1> HIDE DEF near
<1>9. DOMAIN near \subseteq Tags /\ \A u \in DOMAIN near : near[u] \in 0 .. MaxDepth
  BY <1>7, <1>8
<1>10. /\ search'.pc = "walk" /\ search'.start = search.start /\ search'.seeds = search.seeds
       /\ search'.todo = search.todo \ {<<t, dir>>} /\ search'.reached = near
       /\ search'.hits = search.hits
       /\ search' = [pc |-> search'.pc, start |-> search'.start, seeds |-> search'.seeds,
                     todo |-> search'.todo, reached |-> search'.reached, hits |-> search'.hits]
  BY <1>1 DEF SearchInv, SearchShape
<1>11. SearchShape'
  BY <1>1, <1>9, <1>10 DEF SearchInv, SearchShape
<1>12. SinceTheSearchBegan'
  BY <1>1, <1>10 DEF SearchInv, SinceTheSearchBegan, NoMergeSince
<1>13. Seeds' = Seeds /\ (NoMergeSince' <=> NoMergeSince)
  BY <1>1, <1>10 DEF Seeds, NoMergeSince
<1>14. WalkedNoFurther'
  <2> SUFFICES ASSUME NoMergeSince
               PROVE  /\ \A k \in search'.todo : k[1] \in OwnOf(Seeds, store)
                      /\ \A u \in DOMAIN near : Reaches(Seeds, store, u, near[u])
    BY <1>1, <1>10, <1>13 DEF WalkedNoFurther
  <2>1. /\ \A k \in search.todo : k[1] \in OwnOf(Seeds, store)
        /\ \A u \in DOMAIN search.reached : Reaches(Seeds, store, u, search.reached[u])
    BY <1>1 DEF SearchInv, WalkedNoFurther
  <2>2. t \in OwnOf(Seeds, store)
    <3>1. <<t, dir>>[1] \in OwnOf(Seeds, store)
      BY <1>1, <2>1
    <3> QED
      BY <3>1
  <2>3. ASSUME NEW u \in DOMAIN near PROVE Reaches(Seeds, store, u, near[u])
    <3>1. PICK r \in known \cup rows : r.tag = u /\ near[u] = r.depth
      BY <1>8
    <3>2. CASE r \in known
      BY <1>6, <2>1, <3>1, <3>2
    <3>3. CASE r \in rows
      BY <1>3, <2>2, <3>1, <3>3 DEF Reaches
    <3> QED
      BY <3>2, <3>3
  <2> QED
    BY <1>10, <2>1, <2>3
<1>15. WalkedAllTheWay'
  <2> SUFFICES ASSUME NoMergeSince, NEW s \in OwnOf(Seeds, search.start)
               PROVE  /\ ReachedBy(s, 0)'
                      /\ \A way \in Ways : <<s, way>> \notin search'.todo =>
                           \A n \in 0 .. MaxDepth : \A u \in At(search.start.edges, way, s, n) :
                              ReachedBy(u, n)'
    BY <1>10, <1>13 DEF WalkedAllTheWay
  <2>1. /\ ReachedBy(s, 0)
        /\ \A way \in Ways : <<s, way>> \notin search.todo =>
             \A n \in 0 .. MaxDepth : \A u \in At(search.start.edges, way, s, n) :
                ReachedBy(u, n)
    BY <1>1 DEF SearchInv, WalkedAllTheWay
  <2>2. ASSUME NEW u, NEW n \in 0 .. MaxDepth, ReachedBy(u, n) PROVE ReachedBy(u, n)'
    <3>1. u \in DOMAIN search.reached /\ search.reached[u] <= n
      BY <2>2 DEF ReachedBy
    <3>2. PICK r \in known : r.tag = u /\ r.depth = search.reached[u]
      BY <1>6, <3>1
    <3>3. u \in DOMAIN near /\ near[u] <= search.reached[u]
      BY <1>8, <3>2
    <3> QED
      BY <1>5, <1>9, <1>10, <3>1, <3>3 DEF ReachedBy
  <2>3. ASSUME NEW n \in 0 .. MaxDepth, NEW u \in At(search.start.edges, dir, t, n), s = t
        PROVE  ReachedBy(u, n)'
    <3>1. CASE n = 0
      <4>1. u = t
        BY <3>1, WalksStart
      <4> QED
        BY <2>1, <2>2, <2>3, <3>1, <4>1
    <3>2. CASE n # 0
      <4>1. /\ search.start.edges \in SUBSET (Tags \X Tags)
            /\ search.start.edges \subseteq store.edges
        BY <1>1 DEF SearchInv, SinceTheSearchBegan
      <4>2. u \in At(store.edges, dir, t, n)
        BY <1>2, <4>1, WalksGrow
      <4>3. n \in 1 .. MaxDepth
        BY <3>2
      <4>4. [tag |-> u, depth |-> n] \in rows
        BY <1>4, <4>2, <4>3
      <4> DEFINE r == [tag |-> u, depth |-> n]
      <4>5. r.tag = u /\ r.depth = n /\ r \in known \cup rows
        BY <4>4
      <4> HIDE DEF r
      <4>6. u \in DOMAIN near /\ near[u] <= n
        BY <1>8, <4>5
      <4> QED
        BY <1>10, <4>6 DEF ReachedBy
    <3> QED
      BY <3>1, <3>2
  <2>4. ASSUME NEW way \in Ways, <<s, way>> \notin search'.todo,
               NEW n \in 0 .. MaxDepth, NEW u \in At(search.start.edges, way, s, n)
        PROVE  ReachedBy(u, n)'
    <3>1. CASE <<s, way>> \notin search.todo
      BY <2>1, <2>2, <3>1
    <3>2. CASE <<s, way>> \in search.todo
      <4>1. s = t /\ way = dir
        BY <1>10, <2>4, <3>2
      <4> QED
        BY <2>3, <4>1
    <3> QED
      BY <3>1, <3>2
  <2> QED
    BY <2>1, <2>2, <2>4
<1> QED
  BY <1>10, <1>11, <1>12, <1>14, <1>15
     DEF SearchInv, SeedsComeFirst, AnswerIsNear, AnswerIsFull, Answered

(***************************************************************************)
(* The answer.                                                             *)
(***************************************************************************)

\* Of the assignments that match, those the query returned; all of them unless
\* more match than it returns.
LEMMA RowsRead ==
    ASSUME CorpusInv, NEW rows \in PairRows
    PROVE  /\ rows \in SUBSET Matching
           /\ AllRead => rows = Matching
<1>1. IsFiniteSet(Matching)
  BY MatchingIsFinite
<1>2. /\ rows \in SUBSET Matching
      /\ Cardinality(rows) = Min({PairLimit, Cardinality(Matching)})
  BY DEF PairRows, kSubset
<1>3. ASSUME AllRead PROVE rows = Matching
  <2>1. Cardinality(Matching) \in Nat /\ PairLimit \in Nat
    BY <1>1, FS_CardinalityType, RetrievalAssumption DEF RetrievalAssumption
  <2>2. Cardinality(rows) = Cardinality(Matching)
    BY <1>2, <1>3, <2>1, MinOfTwo DEF AllRead
  <2> QED
    BY <1>1, <1>2, <2>2, FS_Subset
<1> QED
  BY <1>2, <1>3

\* What the search adds of item i: the tags reached that it carries, by the
\* rows read.
CarriedBy(rows, i) == {t \in DOMAIN search.reached : <<i, t>> \in rows}

HitOf(rows, i) ==
    LET depth == Min({search.reached[t] : t \in CarriedBy(rows, i)})
    IN  [item |-> i, route |-> "expanded", depth |-> depth,
         score |-> ExpandedScore(depth, Cardinality(CarriedBy(rows, i)))]

SeedHit(n) ==
    [item |-> search.seeds[n], score |-> SeedScore(Distance[search.seeds[n]]),
     route |-> "seed", depth |-> 0]

LEMMA CarriedFacts ==
    ASSUME SearchInv, CorpusInv, NEW rows, NEW i \in Items, CarriedBy(rows, i) # {}
    PROVE  /\ HitOf(rows, i) \in Hits
           /\ \E t \in CarriedBy(rows, i) : search.reached[t] = HitOf(rows, i).depth
           /\ \A t \in CarriedBy(rows, i) : HitOf(rows, i).depth <= search.reached[t]
           /\ HitOf(rows, i).item = i /\ HitOf(rows, i).route = "expanded"
           /\ HitOf(rows, i).score \in 0 .. Floor
           /\ \A n \in Nat : HitOf(rows, i).depth <= n => HitOf(rows, i).score >= ExpandedScore(n, 1)
<1> DEFINE depths == {search.reached[t] : t \in CarriedBy(rows, i)}
           depth == Min(depths)
           c == Cardinality(CarriedBy(rows, i))
<1>1. /\ CarriedBy(rows, i) \subseteq Tags
      /\ \A t \in CarriedBy(rows, i) : search.reached[t] \in 0 .. MaxDepth
  BY DEF SearchInv, SearchShape, CarriedBy
<1>2. c \in Nat \ {0}
  <2>1. IsFiniteSet(CarriedBy(rows, i))
    BY <1>1, CorpusAssumption, FS_Subset DEF CorpusAssumption
  <2> QED
    BY <2>1, FS_CardinalityType, FS_EmptySet
<1>3. depths \in SUBSET Nat /\ depths # {}
  BY <1>1
<1>4. depth \in depths /\ \A d \in depths : depth <= d
  BY <1>3, LeastIsMin
<1>5. /\ \E t \in CarriedBy(rows, i) : search.reached[t] = depth
      /\ \A t \in CarriedBy(rows, i) : depth <= search.reached[t]
      /\ depth \in 0 .. MaxDepth
  BY <1>1, <1>4
<1>6. HitOf(rows, i) = [item |-> i, route |-> "expanded", depth |-> depth, score |-> ExpandedScore(depth, c)]
  BY DEF HitOf
<1> HIDE DEF depths, depth, c
<1>7. depth \in Nat
  BY <1>5
<1>8. ExpandedScore(depth, c) \in 0 .. Floor
  <2>1. c \in Nat
    BY <1>2
  <2> QED
    BY <1>7, <2>1, ExpandedScoreIsLess, Zenon
<1>9. \A n \in Nat : depth <= n => ExpandedScore(depth, c) >= ExpandedScore(n, 1)
  BY <1>2, <1>7, ScoreFalls, Zenon
<1>10. HitOf(rows, i) \in Hits
  BY <1>5, <1>6, <1>8 DEF Hits
<1> QED
  BY <1>5, <1>6, <1>8, <1>9, <1>10

LEMMA SeedHitFacts ==
    ASSUME SearchInv
    PROVE  /\ \A n \in DOMAIN search.seeds :
                /\ SeedHit(n) \in Hits /\ SeedHit(n).score \in Nat /\ SeedHit(n).score >= Floor
                /\ SeedHit(n).item = search.seeds[n] /\ SeedHit(n).route = "seed"
           /\ \A m, n \in DOMAIN search.seeds : m < n => SeedHit(m).score >= SeedHit(n).score
<1> DEFINE dist(n) == Distance[search.seeds[n]]
<1>1. \A n \in DOMAIN search.seeds : search.seeds[n] \in Items
  BY DEF SearchInv, SearchShape
<1>2. \A n \in DOMAIN search.seeds : dist(n) \in 0 .. 200
  BY <1>1, RetrievalAssumption DEF RetrievalAssumption
<1>3. \A m, n \in DOMAIN search.seeds : m < n => dist(m) <= dist(n)
  BY DEF SearchInv, SearchShape
<1>4. \A n : SeedHit(n) = [item |-> search.seeds[n], score |-> SeedScore(dist(n)),
                           route |-> "seed", depth |-> 0]
  BY DEF SeedHit
<1> HIDE DEF dist
<1>5. /\ \A d \in 0 .. 200 : SeedScore(d) \in Nat /\ SeedScore(d) >= Floor
      /\ \A d, e \in 0 .. 200 : d <= e => SeedScore(d) >= SeedScore(e)
  <2>1. \A d \in 0 .. 200 : d <= d
    OBVIOUS
  <2> QED
    BY <2>1, SeedScoreFalls
<1>6. \A n \in DOMAIN search.seeds : SeedScore(dist(n)) \in Nat /\ SeedScore(dist(n)) >= Floor
  BY <1>2, <1>5
<1>7. \A n \in DOMAIN search.seeds :
        /\ SeedHit(n) \in Hits /\ SeedHit(n).score \in Nat /\ SeedHit(n).score >= Floor
        /\ SeedHit(n).item = search.seeds[n] /\ SeedHit(n).route = "seed"
  BY <1>1, <1>4, <1>6 DEF Hits
<1>8. ASSUME NEW m \in DOMAIN search.seeds, NEW n \in DOMAIN search.seeds, m < n
      PROVE  SeedHit(m).score >= SeedHit(n).score
  <2>1. SeedHit(m).score = SeedScore(dist(m)) /\ SeedHit(n).score = SeedScore(dist(n))
    BY <1>4
  <2>2. dist(m) <= dist(n) /\ dist(m) \in 0 .. 200 /\ dist(n) \in 0 .. 200
    BY <1>2, <1>3, <1>8
  <2> QED
    BY <1>5, <2>1, <2>2
<1> QED
  BY <1>7, <1>8

\* The answer, as a ranking of the seeds and of the items found.
IsAnswer(rows, found, order, hits, l, c) ==
    /\ l = Len(search.seeds) /\ l \in Nat /\ c \in Nat /\ l <= c
    /\ DOMAIN hits = 1 .. c
    /\ \A n \in 1 .. l : hits[n] = SeedHit(n)
    /\ \A n \in l + 1 .. c : hits[n] = HitOf(rows, found[n - l])
    /\ \A n \in l + 1 .. c : found[n - l] \in Items \ Seeds /\ CarriedBy(rows, found[n - l]) # {}
    /\ \A m, n \in l + 1 .. c : found[m - l] = found[n - l] => m = n
    /\ \A i \in Items \ Seeds : CarriedBy(rows, i) # {} => \E n \in l + 1 .. c : found[n - l] = i
    /\ order \in Rankings(hits)

LEMMA Joined ==
    ASSUME NEW S, NEW s \in Seq(S), NEW t \in Seq(S), NEW l, NEW e, Len(s) = l, Len(t) = e
    PROVE  /\ Len(s \o t) = l + e
           /\ \A n \in 1 .. l + e : (s \o t)[n] = IF n <= l THEN s[n] ELSE t[n - l]
           /\ s \o t \in Seq(S)
BY ConcatProperties

LEMMA CollectAnswers ==
    ASSUME SearchInv, CorpusInv, Collect
    PROVE  \E rows \in PairRows : \E found, order, hits, l, c :
              /\ IsAnswer(rows, found, order, hits, l, c)
              /\ search' = [search EXCEPT !.pc = "answered",
                   !.hits = [n \in 1 .. Min({Limit, c}) |-> hits[order[n]]]]
<1> DEFINE seedHits == [n \in DOMAIN search.seeds |->
            [item |-> search.seeds[n], score |-> SeedScore(Distance[search.seeds[n]]),
             route |-> "seed", depth |-> 0]]
           tagsIn(rows, i) == {k[2] : k \in {l \in rows : l[1] = i}}
           depthIn(rows, i) == Min({search.reached[t] : t \in tagsIn(rows, i)})
           expandedHits(rows, found) == [n \in DOMAIN found |->
                [item |-> found[n], route |-> "expanded", depth |-> depthIn(rows, found[n]),
                 score |-> ExpandedScore(depthIn(rows, found[n]), Cardinality(tagsIn(rows, found[n])))]]
<1>0. PICK rows \in PairRows : \E found \in SetToSeqs({k[1] : k \in rows}) :
        \E order \in Rankings(seedHits \o expandedHits(rows, found)) :
           search' = [search EXCEPT !.pc = "answered",
             !.hits = [n \in 1 .. Min({Limit, Len(seedHits \o expandedHits(rows, found))}) |->
                         (seedHits \o expandedHits(rows, found))[order[n]]]]
  BY DEF Collect
<1> DEFINE items == {k[1] : k \in rows}
           carried(i) == tagsIn(rows, i)
<1>1. PICK found \in SetToSeqs(items) :
        \E order \in Rankings(seedHits \o expandedHits(rows, found)) :
           search' = [search EXCEPT !.pc = "answered",
             !.hits = [n \in 1 .. Min({Limit, Len(seedHits \o expandedHits(rows, found))}) |->
                         (seedHits \o expandedHits(rows, found))[order[n]]]]
  BY <1>0
<1> DEFINE expanded == expandedHits(rows, found)
           hits == seedHits \o expanded
           l == Len(search.seeds)
           e == Cardinality(items)
           c == l + e
<1>2. PICK order \in Rankings(hits) :
           search' = [search EXCEPT !.pc = "answered",
             !.hits = [n \in 1 .. Min({Limit, Len(hits)}) |-> hits[order[n]]]]
  BY <1>1
<1>3. /\ rows \subseteq (Items \ Seeds) \X Tags
      /\ \A k \in rows : k[2] \in DOMAIN search.reached
  <2>1. rows \in SUBSET Matching /\ store.links \subseteq Items \X Tags
    BY RowsRead DEF CorpusInv, CorpusTypeOK
  <2> QED
    BY <2>1 DEF Matching
<1>4. \A i \in Items \ Seeds : carried(i) = CarriedBy(rows, i)
  <2> SUFFICES ASSUME NEW i \in Items \ Seeds PROVE carried(i) = CarriedBy(rows, i)
    OBVIOUS
  <2>1. ASSUME NEW t \in carried(i) PROVE t \in CarriedBy(rows, i)
    <3>1. PICK k \in rows : k[1] = i /\ k[2] = t
      OBVIOUS
    <3>2. k = <<i, t>>
      BY <1>3, <3>1
    <3> QED
      BY <1>3, <3>1, <3>2 DEF CarriedBy
  <2>2. ASSUME NEW t \in CarriedBy(rows, i) PROVE t \in carried(i)
    <3> DEFINE k == <<i, t>>
    <3>1. k \in rows /\ k[1] = i /\ k[2] = t
      BY DEF CarriedBy
    <3> QED
      BY <3>1
  <2> QED
    BY <2>1, <2>2
<1>5. items \subseteq Items \ Seeds /\ \A i \in items : CarriedBy(rows, i) # {}
  <2> SUFFICES ASSUME NEW i \in items PROVE i \in Items \ Seeds /\ CarriedBy(rows, i) # {}
    OBVIOUS
  <2>1. PICK k \in rows : k[1] = i
    OBVIOUS
  <2>2. k = <<i, k[2]>> /\ i \in Items \ Seeds /\ k[2] \in DOMAIN search.reached
    BY <1>3, <2>1
  <2> QED
    BY <2>1, <2>2 DEF CarriedBy
<1>6. \A i \in Items \ Seeds : CarriedBy(rows, i) # {} => i \in items
  <2> SUFFICES ASSUME NEW i \in Items \ Seeds, NEW t \in CarriedBy(rows, i) PROVE i \in items
    OBVIOUS
  <2> DEFINE k == <<i, t>>
  <2>1. k \in rows /\ k[1] = i
    BY DEF CarriedBy
  <2> QED
    BY <2>1
<1>7. IsFiniteSet(items)
  BY <1>5, CorpusAssumption, FS_Subset DEF CorpusAssumption
<1> HIDE DEF items
<1>8. /\ e \in Nat /\ DOMAIN found = 1 .. e /\ Len(found) = e
      /\ \A n \in DOMAIN found : found[n] \in items
      /\ \A m, n \in DOMAIN found : found[m] = found[n] => m = n
      /\ \A i \in items : \E n \in DOMAIN found : found[n] = i
  BY <1>1, <1>7, ListsAll
<1>9. l \in Nat /\ DOMAIN search.seeds = 1 .. l
  BY DEF SearchInv, SearchShape
<1>10. \A n \in 1 .. e : found[n] \in Items \ Seeds
  BY <1>5, <1>8
<1>11. /\ DOMAIN seedHits = 1 .. l
       /\ \A n \in 1 .. l : seedHits[n] = SeedHit(n)
  BY <1>9 DEF SeedHit
<1>12. /\ DOMAIN expanded = 1 .. e
       /\ \A n \in 1 .. e : expanded[n] = HitOf(rows, found[n])
  <2>1. DOMAIN expanded = 1 .. e
    BY <1>8
  <2>2. ASSUME NEW n \in 1 .. e PROVE expanded[n] = HitOf(rows, found[n])
    <3>1. tagsIn(rows, found[n]) = CarriedBy(rows, found[n])
      BY <1>4, <1>10
    <3> HIDE DEF tagsIn, carried
    <3> QED
      BY <1>8, <3>1 DEF HitOf
  <2> QED
    BY <2>1, <2>2
<1> HIDE DEF carried, tagsIn, depthIn, expandedHits, seedHits, expanded, e
<1>13. seedHits \in Seq(Hits) /\ expanded \in Seq(Hits) /\ Len(seedHits) = l /\ Len(expanded) = e
  <2>1. \A n \in 1 .. l : seedHits[n] \in Hits
    BY <1>9, <1>11, SeedHitFacts
  <2>2. \A n \in 1 .. e : expanded[n] \in Hits
    BY <1>5, <1>8, <1>10, <1>12, CarriedFacts
  <2>3. seedHits = [n \in 1 .. l |-> seedHits[n]] /\ expanded = [n \in 1 .. e |-> expanded[n]]
    BY <1>11, <1>12 DEF seedHits, expanded, expandedHits
  <2> QED
    BY <1>8, <1>9, <2>1, <2>2, <2>3, ListOf
<1>14. /\ Len(hits) = c
       /\ \A n \in 1 .. c : hits[n] = IF n <= l THEN seedHits[n] ELSE expanded[n - l]
       /\ hits \in Seq(Hits)
  BY <1>13, Joined
<1> HIDE DEF hits, l
<1>15. c \in Nat /\ l <= c /\ DOMAIN hits = 1 .. c
  BY <1>8, <1>9, <1>14
<1>16. \A n \in l + 1 .. c : n - l \in 1 .. e
  BY <1>8, <1>9
<1>17. /\ \A n \in 1 .. l : hits[n] = SeedHit(n)
       /\ \A n \in l + 1 .. c : hits[n] = HitOf(rows, found[n - l])
  <2>1. ASSUME NEW n \in 1 .. l PROVE hits[n] = SeedHit(n)
    <3>1. n \in 1 .. c /\ n <= l
      BY <1>8, <1>9
    <3> QED
      BY <1>11, <1>14, <3>1
  <2>2. ASSUME NEW n \in l + 1 .. c PROVE hits[n] = HitOf(rows, found[n - l])
    <3>1. n \in 1 .. c /\ ~(n <= l)
      BY <1>8, <1>9
    <3> QED
      BY <1>12, <1>14, <1>16, <3>1
  <2> QED
    BY <2>1, <2>2
<1>18. /\ \A n \in l + 1 .. c : found[n - l] \in Items \ Seeds /\ CarriedBy(rows, found[n - l]) # {}
       /\ \A m, n \in l + 1 .. c : found[m - l] = found[n - l] => m = n
  <2>1. \A n \in l + 1 .. c : found[n - l] \in Items \ Seeds /\ CarriedBy(rows, found[n - l]) # {}
    BY <1>5, <1>8, <1>16
  <2>2. ASSUME NEW m \in l + 1 .. c, NEW n \in l + 1 .. c, found[m - l] = found[n - l] PROVE m = n
    <3>1. m - l = n - l
      BY <1>8, <1>16, <2>2
    <3> QED
      BY <1>9, <3>1
  <2> QED
    BY <2>1, <2>2
<1>19. \A i \in Items \ Seeds : CarriedBy(rows, i) # {} => \E n \in l + 1 .. c : found[n - l] = i
  <2> SUFFICES ASSUME NEW i \in Items \ Seeds, CarriedBy(rows, i) # {}
               PROVE  \E n \in l + 1 .. c : found[n - l] = i
    OBVIOUS
  <2>1. PICK m \in 1 .. e : found[m] = i
    BY <1>6, <1>8
  <2>2. m + l \in l + 1 .. c /\ (m + l) - l = m
    BY <1>8, <1>9
  <2> QED
    BY <2>1, <2>2
<1>20. IsAnswer(rows, found, order, hits, l, c)
  BY <1>2, <1>9, <1>15, <1>17, <1>18, <1>19 DEF IsAnswer, l
<1>21. search' = [search EXCEPT !.pc = "answered",
                    !.hits = [n \in 1 .. Min({Limit, c}) |-> hits[order[n]]]]
  BY <1>2, <1>14
<1> HIDE DEF c
<1> QED
  BY <1>20, <1>21

\* The seeds keep their places, the items found come after them.
IsRanked(order, hits, l, c) ==
    /\ \A n \in 1 .. c : hits[n] \in Hits /\ hits[n].score \in Nat
    /\ KeepsFirst(order, hits, l, c)
    /\ \A m, n \in 1 .. c : hits[m].item = hits[n].item => m = n

LEMMA AnswerIsRanked ==
    ASSUME SearchInv, CorpusInv, NEW rows, NEW found, NEW order, NEW hits, NEW l, NEW c,
           IsAnswer(rows, found, order, hits, l, c)
    PROVE  IsRanked(order, hits, l, c)
<1>1. /\ l = Len(search.seeds) /\ l \in Nat /\ c \in Nat /\ l <= c
      /\ DOMAIN hits = 1 .. c
      /\ \A n \in 1 .. l : hits[n] = SeedHit(n)
      /\ \A n \in l + 1 .. c : hits[n] = HitOf(rows, found[n - l])
      /\ \A n \in l + 1 .. c : found[n - l] \in Items \ Seeds /\ CarriedBy(rows, found[n - l]) # {}
      /\ \A m, n \in l + 1 .. c : found[m - l] = found[n - l] => m = n
      /\ order \in Rankings(hits)
  BY DEF IsAnswer
<1>2. DOMAIN search.seeds = 1 .. l
  BY <1>1 DEF SearchInv, SearchShape
<1>3. \A n \in 1 .. l : hits[n] \in Hits /\ hits[n].score \in Nat /\ hits[n].score >= Floor
                        /\ hits[n].item = search.seeds[n]
  BY <1>1, <1>2, SeedHitFacts
<1>4. \A n \in l + 1 .. c : hits[n] \in Hits /\ hits[n].score \in 0 .. Floor
                            /\ hits[n].score \in Nat /\ hits[n].item = found[n - l]
  <2> SUFFICES ASSUME NEW n \in l + 1 .. c
               PROVE  hits[n] \in Hits /\ hits[n].score \in 0 .. Floor
                      /\ hits[n].score \in Nat /\ hits[n].item = found[n - l]
    OBVIOUS
  <2>1. PICK i \in Items : hits[n] = HitOf(rows, i) /\ found[n - l] = i /\ CarriedBy(rows, i) # {}
    BY <1>1
  <2>2. HitOf(rows, i) \in Hits /\ HitOf(rows, i).score \in 0 .. Floor /\ HitOf(rows, i).item = i
    BY <2>1, CarriedFacts
  <2>3. HitOf(rows, i).score \in Nat
    <3> DEFINE s == HitOf(rows, i).score
    <3>1. s \in 0 .. Floor
      BY <2>2
    <3> HIDE DEF s
    <3>2. s \in Nat
      BY <3>1
    <3> QED
      BY <3>2 DEF s
  <2> QED
    BY <2>1, <2>2, <2>3
<1>5. \A n \in 1 .. c : n \in 1 .. l \/ n \in l + 1 .. c
  BY <1>1
<1>6. \A n \in 1 .. c : hits[n] \in Hits /\ hits[n].score \in Nat
  <2> SUFFICES ASSUME NEW n \in 1 .. c PROVE hits[n] \in Hits /\ hits[n].score \in Nat
    OBVIOUS
  <2>1. CASE n \in 1 .. l
    BY <1>3, <2>1
  <2>2. CASE n \in l + 1 .. c
    BY <1>4, <2>2
  <2> QED
    BY <1>5, <2>1, <2>2
<1>7. \A m \in 1 .. l, n \in 1 .. c : m < n => hits[m].score >= hits[n].score
  <2> SUFFICES ASSUME NEW m \in 1 .. l, NEW n \in 1 .. c, m < n
               PROVE  hits[m].score >= hits[n].score
    OBVIOUS
  <2>1. CASE n \in 1 .. l
    <3>1. SeedHit(m).score >= SeedHit(n).score
      BY <1>2, <2>1, SeedHitFacts
    <3>2. hits[m] = SeedHit(m) /\ hits[n] = SeedHit(n)
      BY <1>1, <2>1
    <3> QED
      BY <3>1, <3>2
  <2>2. CASE n \in l + 1 .. c
    <3> DEFINE a == hits[m].score
               b == hits[n].score
    <3>1. a \in Nat /\ a >= Floor
      BY <1>3
    <3>2. b \in 0 .. Floor
      BY <1>4, <2>2
    <3> HIDE DEF a, b
    <3>3. a >= b
      BY <3>1, <3>2, FloorIsNat
    <3> QED
      BY <3>3 DEF a, b
  <2> QED
    BY <1>5, <2>1, <2>2
<1>8. l \in 0 .. c /\ \A n \in 1 .. c : hits[n].score \in Nat
  BY <1>1, <1>6
<1>9. KeepsFirst(order, hits, l, c)
  BY <1>1, <1>7, <1>8, RankingKeeps
<1>10. ASSUME NEW m \in 1 .. c, NEW n \in 1 .. c, hits[m].item = hits[n].item PROVE m = n
  <2>1. \A j \in 1 .. l : hits[j].item \in Seeds
    BY <1>2, <1>3 DEF Seeds
  <2>2. \A j \in l + 1 .. c : hits[j].item \notin Seeds
    BY <1>1, <1>4
  <2>3. CASE m \in 1 .. l /\ n \in 1 .. l
    <3>1. search.seeds[m] = search.seeds[n]
      BY <1>3, <1>10, <2>3
    <3>2. \A j, k \in 1 .. l : j < k => search.seeds[j] # search.seeds[k]
      BY <1>2 DEF SearchInv, SearchShape
    <3> QED
      BY <1>1, <2>3, <3>1, <3>2
  <2>4. CASE m \in l + 1 .. c /\ n \in l + 1 .. c
    BY <1>1, <1>4, <1>10, <2>4
  <2> QED
    BY <1>5, <1>10, <2>1, <2>2, <2>3, <2>4
<1> QED
  BY <1>6, <1>9, <1>10 DEF IsRanked

LEMMA CollectKeeps ==
    ASSUME SearchInv, CorpusInv, Collect
    PROVE  SearchInv'
<1>0. PICK rows \in PairRows : \E found, order, hits, l, c :
        /\ IsAnswer(rows, found, order, hits, l, c)
        /\ search' = [search EXCEPT !.pc = "answered",
             !.hits = [n \in 1 .. Min({Limit, c}) |-> hits[order[n]]]]
  BY CollectAnswers
<1>1. PICK found, order, hits, l, c :
        /\ IsAnswer(rows, found, order, hits, l, c)
        /\ search' = [search EXCEPT !.pc = "answered",
             !.hits = [n \in 1 .. Min({Limit, c}) |-> hits[order[n]]]]
  BY <1>0
<1> DEFINE m == Min({Limit, c})
           answer == [n \in 1 .. m |-> hits[order[n]]]
<1>2. IsRanked(order, hits, l, c)
  BY <1>1, AnswerIsRanked
<1>3. \A n \in 1 .. c : hits[n] \in Hits /\ hits[n].score \in Nat
  BY <1>2 DEF IsRanked
<1>4. \A n \in 1 .. c : order[n] \in 1 .. c
  BY <1>2 DEF IsRanked, KeepsFirst
<1>5. \A i, j \in 1 .. c : order[i] = order[j] => i = j
  BY <1>2 DEF IsRanked, KeepsFirst
<1>6. \A k \in 1 .. c : \E n \in 1 .. c : order[n] = k
  BY <1>2 DEF IsRanked, KeepsFirst
<1>7. \A i, j \in 1 .. c : i < j => hits[order[i]].score >= hits[order[j]].score
  BY <1>2 DEF IsRanked, KeepsFirst
<1>8. \A n \in 1 .. l : order[n] = n
  BY <1>2 DEF IsRanked, KeepsFirst
<1>9. \A n \in l + 1 .. c : order[n] \in l + 1 .. c
  BY <1>2 DEF IsRanked, KeepsFirst
<1>10. \A i, j \in 1 .. c : hits[i].item = hits[j].item => i = j
  BY <1>2 DEF IsRanked, KeepsFirst
<1>11. l = Len(search.seeds) /\ l \in Nat /\ c \in Nat /\ l <= c
  BY <1>1 DEF IsAnswer
<1>12. \A n \in 1 .. l : hits[n] = SeedHit(n)
  BY <1>1 DEF IsAnswer
<1>13. \A n \in l + 1 .. c : hits[n] = HitOf(rows, found[n - l])
  BY <1>1 DEF IsAnswer
<1>14. \A n \in l + 1 .. c : found[n - l] \in Items \ Seeds /\ CarriedBy(rows, found[n - l]) # {}
  BY <1>1 DEF IsAnswer
<1>15. \A i \in Items \ Seeds : CarriedBy(rows, i) # {} => \E n \in l + 1 .. c : found[n - l] = i
  BY <1>1 DEF IsAnswer
<1>16. m \in Nat /\ m = IF Limit <= c THEN Limit ELSE c
  <2>1. Limit \in Nat
    BY RetrievalAssumption DEF RetrievalAssumption
  <2> QED
    BY <1>11, <2>1, MinOfTwo
<1>17. m <= c /\ m <= Limit /\ Limit \in Nat
  BY <1>11, <1>16, RetrievalAssumption DEF RetrievalAssumption
<1>18. search.pc = "walk" /\ search.todo = {} /\ store' = store /\ embedded' = embedded
  BY DEF Collect, corpusVars
<1> HIDE DEF m
<1>19. /\ search'.pc = "answered" /\ search'.start = search.start /\ search'.seeds = search.seeds
      /\ search'.todo = search.todo /\ search'.reached = search.reached
      /\ search'.hits = answer
      /\ search' = [pc |-> search'.pc, start |-> search'.start, seeds |-> search'.seeds,
                    todo |-> search'.todo, reached |-> search'.reached, hits |-> search'.hits]
  BY <1>1 DEF SearchInv, SearchShape, m
<1>20. /\ DOMAIN answer = 1 .. m /\ Len(answer) = m
      /\ \A n \in 1 .. m : answer[n] = hits[order[n]] /\ order[n] \in 1 .. c
  <2>1. \A n \in 1 .. m : n \in 1 .. c
    BY <1>11, <1>16, <1>17
  <2>2. \A n \in 1 .. m : answer[n] = hits[order[n]] /\ order[n] \in 1 .. c
    BY <1>4, <2>1
  <2>3. answer = [n \in 1 .. m |-> answer[n]] /\ \A n \in 1 .. m : answer[n] \in Hits
    BY <1>3, <2>2
  <2> QED
    <3>1. Len(answer) = m
      BY <1>16, <2>3, ListOf
    <3>2. DOMAIN answer = 1 .. m
      BY <2>3
    <3> QED
      BY <2>2, <3>1, <3>2
<1> HIDE DEF answer
<1>21. SearchShape'
  BY <1>3, <1>18, <1>19, <1>20 DEF SearchInv, SearchShape
<1>22. SinceTheSearchBegan'
  BY <1>18, <1>19 DEF SearchInv, SinceTheSearchBegan, NoMergeSince
<1>23. Seeds' = Seeds /\ (NoMergeSince' <=> NoMergeSince) /\ (AllRead' <=> AllRead)
  BY <1>18, <1>19 DEF Seeds, NoMergeSince, AllRead, Matching
<1>24. Hit' = {answer[n] : n \in 1 .. m}
  BY <1>19, <1>20 DEF Hit
<1>25. SeedsComeFirst'
  <2>1. Min({Limit, l}) <= m
    BY <1>11, <1>16, <1>17, MinOfTwo
  <2>2. ASSUME NEW n \in 1 .. m
        PROVE  IF n <= l
               THEN answer[n].item = search.seeds[n] /\ answer[n].route = "seed"
               ELSE answer[n].route = "expanded" /\ answer[n].item \notin Seeds
    <3>1. n \in 1 .. c
      BY <1>11, <1>16, <1>17
    <3>2. CASE n <= l
      <4>1. n \in 1 .. l /\ n \in DOMAIN search.seeds
        BY <1>11, <3>1, <3>2 DEF SearchInv, SearchShape
      <4>2. answer[n] = SeedHit(n)
        <5>1. answer[n] = hits[order[n]]
          BY <1>20
        <5>2. order[n] = n
          BY <1>8, <4>1
        <5> QED
          BY <1>12, <4>1, <5>1, <5>2
      <4> QED
        BY <3>2, <4>1, <4>2, SeedHitFacts
    <3>3. CASE ~(n <= l)
      <4>1. n \in l + 1 .. c
        BY <1>11, <3>1, <3>3
      <4>2. answer[n] = HitOf(rows, found[order[n] - l]) /\ order[n] \in l + 1 .. c
        <5>1. answer[n] = hits[order[n]] /\ order[n] \in l + 1 .. c
          BY <1>9, <1>20, <4>1
        <5> QED
          BY <1>13, <5>1
      <4>3. answer[n].item = found[order[n] - l] /\ answer[n].route = "expanded"
        BY <4>2 DEF HitOf
      <4> QED
        BY <1>14, <3>3, <4>2, <4>3
    <3> QED
      BY <3>2, <3>3
  <2>3. ASSUME NEW i \in 1 .. m, NEW j \in 1 .. m, answer[i].item = answer[j].item PROVE i = j
    <3>1. order[i] = order[j]
      <4>1. /\ answer[i] = hits[order[i]] /\ order[i] \in 1 .. c
            /\ answer[j] = hits[order[j]] /\ order[j] \in 1 .. c
        BY <1>20
      <4>2. hits[order[i]].item = hits[order[j]].item
        BY <2>3, <4>1
      <4> QED
        BY <1>10, <4>1, <4>2, Zenon
    <3>2. i \in 1 .. c /\ j \in 1 .. c
      BY <1>11, <1>16, <1>17
    <3> QED
      BY <1>5, <3>1, <3>2
  <2> QED
    BY <1>11, <1>19, <1>20, <1>23, <2>1, <2>2, <2>3 DEF SeedsComeFirst, Answered
<1>26. \A n \in 1 .. m : answer[n].route = "expanded" =>
         \E i \in Items \ Seeds : CarriedBy(rows, i) # {} /\ answer[n] = HitOf(rows, i)
  <2> SUFFICES ASSUME NEW n \in 1 .. m, answer[n].route = "expanded"
               PROVE  \E i \in Items \ Seeds : CarriedBy(rows, i) # {} /\ answer[n] = HitOf(rows, i)
    OBVIOUS
  <2> DEFINE k == order[n]
  <2>1. k \in 1 .. c /\ answer[n] = hits[k]
    BY <1>20
  <2> HIDE DEF k
  <2>2. CASE k <= l
    <3>1. k \in 1 .. l /\ k \in DOMAIN search.seeds
      BY <1>11, <2>1, <2>2 DEF SearchInv, SearchShape
    <3>2. answer[n].route = "seed"
      BY <1>12, <2>1, <3>1, SeedHitFacts
    <3> QED
      BY <3>2
  <2>3. CASE ~(k <= l)
    <3>1. k \in l + 1 .. c
      BY <1>11, <2>1, <2>3
    <3> QED
      BY <1>13, <1>14, <2>1, <3>1
  <2> QED
    BY <2>2, <2>3
<1>27. ASSUME NoMergeSince, AllRead, NEW i \in Items \ Seeds, NEW n \in 0 .. MaxDepth, Near(Seeds, search.start, i, n)
       PROVE  \E t \in CarriedBy(rows, i) : search.reached[t] <= n
  <2>1. PICK u \in Tags, s \in OwnOf(Seeds, search.start), way \in Ways :
          <<i, u>> \in search.start.links /\ u \in At(search.start.edges, way, s, n)
    BY <1>27 DEF Near, Reaches
  <2>2. ReachedBy(u, n)
    BY <1>18, <1>27, <2>1 DEF SearchInv, WalkedAllTheWay
  <2>3. <<i, u>> \in store.links
    BY <1>18, <1>27, <2>1 DEF SearchInv, SinceTheSearchBegan
  <2>4. <<i, u>> \in rows
    BY <1>27, <2>2, <2>3, RowsRead DEF ReachedBy, Matching
  <2> QED
    BY <2>2, <2>4 DEF ReachedBy, CarriedBy
<1>28. AnswerIsNear'
  <2> SUFFICES ASSUME NoMergeSince, NEW p \in 1 .. m, answer[p].route = "expanded"
               PROVE  /\ Near(Seeds, store, answer[p].item, answer[p].depth)
                      /\ AllRead => \A n \in 0 .. answer[p].depth - 1 :
                           ~Near(Seeds, search.start, answer[p].item, n)
    BY <1>18, <1>19, <1>23, <1>24 DEF AnswerIsNear, Answered
  <2>1. PICK i \in Items \ Seeds : CarriedBy(rows, i) # {} /\ answer[p] = HitOf(rows, i)
    BY <1>26
  <2> DEFINE d == answer[p].depth
  <2>2. /\ answer[p].item = i /\ d \in 0 .. MaxDepth
        /\ \E t \in CarriedBy(rows, i) : search.reached[t] = d
        /\ \A t \in CarriedBy(rows, i) : d <= search.reached[t]
    BY <2>1, CarriedFacts DEF Hits
  <2> HIDE DEF d
  <2>3. PICK t \in CarriedBy(rows, i) : search.reached[t] = d
    BY <2>2
  <2>4. t \in DOMAIN search.reached /\ <<i, t>> \in store.links /\ t \in Tags
    BY RowsRead DEF CarriedBy, Matching, SearchInv, SearchShape
  <2>5. Near(Seeds, store, i, d)
    BY <1>18, <2>3, <2>4 DEF Near, SearchInv, WalkedNoFurther
  <2>6. ASSUME AllRead, NEW n \in 0 .. d - 1, Near(Seeds, search.start, i, n) PROVE FALSE
    <3>1. n \in 0 .. MaxDepth
      BY <2>2
    <3>2. PICK u \in CarriedBy(rows, i) : search.reached[u] <= n
      BY <1>27, <2>6, <3>1
    <3>3. d <= search.reached[u] /\ search.reached[u] \in 0 .. MaxDepth
      BY <2>2 DEF CarriedBy, SearchInv, SearchShape
    <3> QED
      BY <2>2, <3>1, <3>2, <3>3
  <2> QED
    BY <2>2, <2>5, <2>6 DEF d
<1>29. AnswerIsFull'
  <2> SUFFICES ASSUME NoMergeSince, AllRead, NEW i \in Items \ Seeds, NEW n \in 0 .. MaxDepth,
                      Near(Seeds, search.start, i, n), ~\E p \in 1 .. m : answer[p].item = i
               PROVE  /\ m = Limit
                      /\ \A p \in 1 .. m : answer[p].score >= ExpandedScore(n, 1)
    BY <1>18, <1>19, <1>20, <1>23, <1>24 DEF AnswerIsFull, Answered
  <2>1. PICK t \in CarriedBy(rows, i) : search.reached[t] <= n
    BY <1>27
  <2>2. PICK k \in l + 1 .. c : found[k - l] = i
    BY <1>15, <2>1
  <2>3. hits[k] = HitOf(rows, i) /\ hits[k].item = i
    <3>1. hits[k] = HitOf(rows, found[k - l])
      BY <1>13, Zenon
    <3>2. HitOf(rows, i).item = i
      BY DEF HitOf
    <3> QED
      BY <2>2, <3>1, <3>2
  <2>4. k \in 1 .. c
    BY <1>11
  <2>5. PICK j \in 1 .. c : order[j] = k
    BY <1>6, <2>4
  <2>6. j \notin 1 .. m
    BY <1>20, <2>3, <2>5
  <2>7. m = Limit /\ \A p \in 1 .. m : p < j /\ p \in 1 .. c
    BY <1>11, <1>16, <1>17, <2>6
  <2>8. hits[k].score >= ExpandedScore(n, 1) /\ ExpandedScore(n, 1) \in Nat /\ hits[k].score \in Nat
    <3>1. HitOf(rows, i).depth <= search.reached[t] /\ HitOf(rows, i).depth \in Nat
      BY <2>1, CarriedFacts DEF Hits
    <3>2. search.reached[t] \in Nat
      BY DEF CarriedBy, SearchInv, SearchShape
    <3>3. HitOf(rows, i).depth <= n /\ n \in Nat
      BY <2>1, <3>1, <3>2
    <3>4. HitOf(rows, i).score >= ExpandedScore(n, 1)
      BY <2>1, <3>3, CarriedFacts
    <3>5. ExpandedScore(n, 1) \in Nat
      BY <3>3, ScoreOfOne
    <3> QED
      BY <1>3, <2>3, <2>4, <3>4, <3>5
  <2>9. ASSUME NEW p \in 1 .. m PROVE answer[p].score >= ExpandedScore(n, 1)
    <3>1. answer[p].score >= hits[k].score
      BY <1>7, <1>20, <2>5, <2>7
    <3>2. answer[p].score \in Nat
      BY <1>3, <1>20
    <3> QED
      BY <2>8, <3>1, <3>2
  <2> QED
    BY <2>7, <2>9
<1> QED
  BY <1>19, <1>21, <1>22, <1>25, <1>28, <1>29 DEF SearchInv, WalkedNoFurther, WalkedAllTheWay

(***************************************************************************)
(* What follows.                                                           *)
(***************************************************************************)

\* Whatever commits between two of its statements, a search keeps its bounds:
\* from below by the graph there is, from above by the graph it began with.
THEOREM SearchInvariant == Spec => []SearchInv
<1>1. Init => SearchInv
  <2> SUFFICES ASSUME Init PROVE SearchInv
    OBVIOUS
  <2>1. search = NoSearch /\ embedded \subseteq Items
    BY DEF Init, SearchInit
  <2>2. store.merges \in Nat
    BY DEF Init, CorpusInit, EmptyStore
  <2> QED
    BY <2>1, <2>2, NothingSearched
<1>2. SearchInv /\ CorpusInv /\ CorpusInv' /\ IInv /\ [Next]_vars => SearchInv'
  <2> SUFFICES ASSUME SearchInv, CorpusInv, CorpusInv', IInv, [Next]_vars PROVE SearchInv'
    OBVIOUS
  <2>1. ASSUME NEW i \in Items, NEW t \in Tags, Assign(i, t), UNCHANGED searchVars
        PROVE  SearchInv'
    BY <2>1, WritesMove, SearchStands
  <2>2. ASSUME NEW p \in Tags, NEW c \in Tags, AddEdge(p, c), UNCHANGED searchVars
        PROVE  SearchInv'
    BY <2>2, WritesMove, SearchStands
  <2>3. ASSUME NEW s \in Tags, NEW t \in Tags, MergeInto(s, t), UNCHANGED searchVars
        PROVE  SearchInv'
    BY <2>3, WritesMove, SearchStands
  <2>4. ASSUME UNCHANGED corpusVars, UNCHANGED searchVars PROVE SearchInv'
    BY <2>4, WritesMove, SearchStands
  <2>5. CASE reader = "search" /\ SearchNext
    <3>1. ASSUME NEW t \in Tags, NEW dir \in Ways, Walk(t, dir) PROVE SearchInv'
      BY <3>1, WalkKeeps
    <3>2. CASE Seed
      BY <3>2, SeedKeeps
    <3>3. CASE SeedTags
      BY <3>3, SeedTagsKeeps
    <3>4. CASE Collect
      BY <3>4, CollectKeeps
    <3> QED
      BY <2>1, <2>2, <2>3, <2>5, <3>1, <3>2, <3>3, <3>4 DEF SearchNext, SearchStatement, Ways
  <2>6. CASE reader = "report" /\ InsightsNext /\ UNCHANGED searchVars
    <3>1. present \subseteq Items
      BY <2>6 DEF IInv, Facts, Shape
    <3>2. CASE (\E i \in Items : Commit(i)) \/ ReportStatement
      <4>1. UNCHANGED corpusVars
        BY <3>2 DEF Commit, ReportStatement, CountRecent, CountPrior, DrawSamples,
                    TotalRecent, TotalPrior
      <4> QED
        BY <2>4, <2>6, <4>1
    <3> QED
      BY <2>1, <2>3, <2>6, <3>1, <3>2 DEF InsightsNext
  <2>7. CASE UNCHANGED vars
    BY <2>4, <2>7 DEF vars
  <2> QED
    BY <2>5, <2>6, <2>7 DEF Next
<1> QED
  BY <1>1, <1>2, CorpusInvariant, ReportInvariant, PTL DEF Spec

\* A direct match is never displaced: whatever is ranked with it, every seed
\* the limit has room for leads the answer, in the order of its distance, and
\* no item appears twice.
THEOREM SeedsLead == Spec => []SeedsComeFirst
<1>1. SearchInv => SeedsComeFirst
  BY DEF SearchInv
<1> QED
  BY <1>1, SearchInvariant, PTL

\* Whatever jobs commit between its statements, however the graph loops and
\* whichever rows are cut, an item is never further away than the depth an
\* answer gives it; and it was no nearer when the search began unless rows were
\* cut.
THEOREM DepthsAreDistances == Spec => []DepthIsDistance
<1>1. SearchInv /\ CorpusInv => DepthIsDistance
  <2> SUFFICES ASSUME SearchInv, CorpusInv, Answered, NoMergeSince,
                      NEW h \in Hit, h.route = "expanded"
               PROVE  /\ Within(store, h.item, h.depth)
                      /\ AllRead => \A n \in 0 .. h.depth - 1 : ~Within(search.start, h.item, n)
    BY DEF DepthIsDistance
  <2> DEFINE d == h.depth
  <2>1. d \in 0 .. MaxDepth
    <3>1. \A n \in DOMAIN search.hits : search.hits[n] \in Hits
      BY DEF SearchInv, SearchShape
    <3> QED
      BY <3>1 DEF Hit, Hits
  <2>2. /\ Near(Seeds, store, h.item, d)
        /\ AllRead => \A n \in 0 .. d - 1 : ~Near(Seeds, search.start, h.item, n)
    BY DEF SearchInv, AnswerIsNear
  <2>3. /\ store.edges \in SUBSET (Tags \X Tags)
        /\ search.start.edges \in SUBSET (Tags \X Tags)
    BY DEF CorpusInv, CorpusTypeOK, SearchInv, SinceTheSearchBegan
  <2> HIDE DEF d
  <2>4. Within(store, h.item, d)
    BY <2>1, <2>2, <2>3, WithinIsNear
  <2>5. ASSUME AllRead, NEW n \in 0 .. d - 1, Within(search.start, h.item, n) PROVE FALSE
    <3>1. n \in 0 .. MaxDepth
      BY <2>1
    <3>2. PICK k \in 0 .. n : Near(Seeds, search.start, h.item, k)
      BY <2>3, <2>5, <3>1, WithinIsNear
    <3>3. k \in 0 .. d - 1
      BY <2>1
    <3> QED
      BY <2>2, <2>5, <3>2, <3>3
  <2> QED
    BY <2>4, <2>5 DEF d
<1> QED
  BY <1>1, SearchInvariant, CorpusInvariant, PTL

\* For every number of rows item_tag_pairs() may return: no item within reach
\* when the search began is missing, unless the answer is full of hits that
\* score at least what it would, or more assignments match than that number.
THEOREM ExpansionIsComplete == Spec => []NothingMissed
<1>1. SearchInv => NothingMissed
  <2> SUFFICES ASSUME SearchInv, Answered, NoMergeSince, AllRead,
                      NEW i \in Items \ Seeds, NEW n \in 0 .. MaxDepth,
                      Within(search.start, i, n), ~\E h \in Hit : h.item = i
               PROVE  /\ Len(search.hits) = Limit
                      /\ \A h \in Hit : h.score >= ExpandedScore(n, 1)
    BY DEF NothingMissed
  <2>1. search.start.edges \in SUBSET (Tags \X Tags)
    BY DEF SearchInv, SinceTheSearchBegan
  <2>2. PICK k \in 0 .. n : Near(Seeds, search.start, i, k)
    BY <2>1, WithinIsNear
  <2>3. k \in 0 .. MaxDepth /\ k \in Nat /\ n \in Nat /\ k <= n
    OBVIOUS
  <2>4. /\ Len(search.hits) = Limit
        /\ \A h \in Hit : h.score >= ExpandedScore(k, 1)
    BY <2>2, <2>3 DEF SearchInv, AnswerIsFull
  <2>5. /\ ExpandedScore(k, 1) >= ExpandedScore(n, 1)
        /\ ExpandedScore(k, 1) \in Nat /\ ExpandedScore(n, 1) \in Nat
    <3> DEFINE one == 1
    <3>1. one \in Nat \ {0}
      OBVIOUS
    <3> HIDE DEF one
    <3>2. ExpandedScore(k, one) >= ExpandedScore(n, 1)
      BY <2>3, <3>1, ScoreFalls
    <3>3. ExpandedScore(k, 1) \in Nat /\ ExpandedScore(n, 1) \in Nat
      BY <2>3, ScoreOfOne
    <3> QED
      BY <3>2, <3>3 DEF one
  <2>6. ASSUME NEW h \in Hit PROVE h.score >= ExpandedScore(n, 1)
    <3> DEFINE a == h.score
    <3>1. a \in Nat
      <4>1. \A m \in DOMAIN search.hits : search.hits[m] \in Hits
        BY DEF SearchInv, SearchShape
      <4> QED
        BY <4>1 DEF Hit, Hits
    <3>2. a >= ExpandedScore(k, 1)
      BY <2>4
    <3> HIDE DEF a
    <3>3. a >= ExpandedScore(n, 1)
      BY <2>5, <3>1, <3>2
    <3> QED
      BY <3>3 DEF a
  <2> QED
    BY <2>4, <2>6
<1> QED
  BY <1>1, SearchInvariant, PTL

\* What a report holds, between any two of its statements.
ReportTyped == ReportShape /\ InsightsTypeOK

LEMMA ItemTotals ==
    ASSUME present \subseteq Items, NEW from, NEW to
    PROVE  TotalItems(from, to) \in 0 .. Cardinality(Items)
<1> DEFINE T == {i \in present : During(i, from, to)}
<1>1. T \subseteq Items /\ IsFiniteSet(Items)
  BY CorpusAssumption DEF CorpusAssumption
<1> HIDE DEF T
<1>2. IsFiniteSet(T) /\ Cardinality(T) <= Cardinality(Items)
  BY <1>1, FS_Subset
<1>3. Cardinality(T) \in Nat /\ Cardinality(Items) \in Nat
  BY <1>1, <1>2, FS_CardinalityType
<1>4. TotalItems(from, to) = Cardinality(T)
  BY DEF TotalItems, T
<1> QED
  BY <1>2, <1>3, <1>4

\* A report counts for tags only, no more items than there are, and samples
\* only items that are committed.
THEOREM ReportTypes == Spec => []ReportTyped
<1>1. Init => ReportTyped
  <2> SUFFICES ASSUME Init PROVE ReportTyped
    OBVIOUS
  <2>1. report = NoReport
    BY DEF Init, InsightsInit
  <2>2. stamp \in Stamps
    BY StampsAssumption DEF Init, InsightsInit, StampsAssumption
  <2>3. present \subseteq Items
    BY DEF Init, InsightsInit
  <2>4. 0 \in 0 .. Cardinality(Items)
    BY CorpusAssumption, FS_CardinalityType DEF CorpusAssumption
  <2> QED
    BY <2>1, <2>2, <2>3, <2>4
       DEF ReportTyped, ReportShape, InsightsTypeOK, NoReport, NoCounts
<1>2. ReportTyped /\ [Next]_vars => ReportTyped'
  <2> SUFFICES ASSUME ReportTyped, [Next]_vars PROVE ReportTyped'
    OBVIOUS
  <2>0. /\ stamp \in Stamps /\ present \subseteq Items
        /\ DOMAIN report.recent \subseteq Tags /\ DOMAIN report.prior \subseteq Tags
        /\ \A t \in DOMAIN report.samples : report.samples[t] \subseteq present
        /\ report.totalRecent \in 0 .. Cardinality(Items)
        /\ report.totalPrior \in 0 .. Cardinality(Items)
        /\ report.tags \subseteq DOMAIN report.recent
    BY DEF ReportTyped, InsightsTypeOK
  <2>1. CASE UNCHANGED reportVars
    BY <2>1 DEF ReportTyped, ReportShape, InsightsTypeOK, reportVars
  <2>2. ASSUME NEW i \in Items, Commit(i) PROVE ReportTyped'
    BY <2>0, <2>2 DEF Commit, ReportTyped, ReportShape, InsightsTypeOK
  <2>3. CASE CountRecent
    <3>1. 0 \in 0 .. Cardinality(Items)
      BY CorpusAssumption, FS_CardinalityType DEF CorpusAssumption
    <3>2. DOMAIN CountsByTag(Start, End) \subseteq Tags
      BY DEF CountsByTag
    <3>3. /\ UNCHANGED <<stamp, present>>
          /\ report' = [NoReport EXCEPT !.pc = "prior", !.start = store, !.had = present,
                          !.recent = CountsByTag(Start, End)]
      BY <2>3 DEF CountRecent
    <3>4. /\ report'.pc = "prior" /\ report'.recent = CountsByTag(Start, End)
          /\ report'.prior = NoCounts /\ report'.samples = NoCounts
          /\ report'.totalRecent = 0 /\ report'.totalPrior = 0 /\ report'.tags = {}
          /\ ReportShape'
      BY <3>3 DEF NoReport, ReportShape
    <3> QED
      BY <2>0, <3>1, <3>2, <3>3, <3>4 DEF ReportTyped, InsightsTypeOK, NoCounts
  <2>4. CASE CountPrior
    <3>1. DOMAIN CountsByTag(PriorStart, Start) \subseteq Tags
      BY DEF CountsByTag
    <3>2. /\ UNCHANGED <<stamp, present>>
          /\ report' = [report EXCEPT !.pc = "samples", !.prior = CountsByTag(PriorStart, Start)]
      BY <2>4 DEF CountPrior
    <3>3. /\ report'.pc = "samples" /\ report'.recent = report.recent
          /\ report'.prior = CountsByTag(PriorStart, Start) /\ report'.samples = report.samples
          /\ report'.totalRecent = report.totalRecent /\ report'.totalPrior = report.totalPrior
          /\ report'.tags = report.tags /\ ReportShape'
      BY <3>2 DEF ReportTyped, ReportShape
    <3> QED
      BY <2>0, <3>1, <3>2, <3>3 DEF ReportTyped, InsightsTypeOK
  <2>5. CASE DrawSamples
    <3>1. PICK drawn \in [DOMAIN report.recent -> SUBSET present] :
            report' = [report EXCEPT !.pc = "totals", !.samples = drawn]
      BY <2>5 DEF DrawSamples
    <3>2. UNCHANGED <<stamp, present>>
      BY <2>5 DEF DrawSamples
    <3>3. /\ report'.pc = "totals" /\ report'.recent = report.recent
          /\ report'.prior = report.prior /\ report'.samples = drawn
          /\ report'.totalRecent = report.totalRecent /\ report'.totalPrior = report.totalPrior
          /\ report'.tags = report.tags /\ ReportShape'
      BY <3>1 DEF ReportTyped, ReportShape
    <3> QED
      BY <2>0, <3>2, <3>3 DEF ReportTyped, InsightsTypeOK
  <2>6. CASE TotalRecent
    <3>1. PICK K \in TopTags :
            report' = [report EXCEPT !.pc = "total_prior", !.tags = K,
                         !.totalRecent = TotalItems(Start, End)]
      BY <2>6 DEF TotalRecent
    <3>2. UNCHANGED <<stamp, present>> /\ K \subseteq DOMAIN report.recent
      BY <2>6 DEF TotalRecent, TopTags
    <3>3. /\ report'.pc = "total_prior" /\ report'.recent = report.recent
          /\ report'.prior = report.prior /\ report'.samples = report.samples
          /\ report'.totalRecent = TotalItems(Start, End)
          /\ report'.totalPrior = report.totalPrior
          /\ report'.tags = K /\ ReportShape'
      BY <3>1 DEF ReportTyped, ReportShape
    <3>4. TotalItems(Start, End) \in 0 .. Cardinality(Items)
      BY <2>0, ItemTotals
    <3> QED
      BY <2>0, <3>2, <3>3, <3>4 DEF ReportTyped, InsightsTypeOK
  <2>7. CASE TotalPrior
    <3>1. /\ UNCHANGED <<stamp, present>>
          /\ report' = [report EXCEPT !.pc = "done", !.totalPrior = TotalItems(PriorStart, Start)]
      BY <2>7 DEF TotalPrior
    <3>2. /\ report'.pc = "done" /\ report'.recent = report.recent
          /\ report'.prior = report.prior /\ report'.samples = report.samples
          /\ report'.totalRecent = report.totalRecent
          /\ report'.totalPrior = TotalItems(PriorStart, Start)
          /\ report'.tags = report.tags /\ ReportShape'
      BY <3>1 DEF ReportTyped, ReportShape
    <3>3. TotalItems(PriorStart, Start) \in 0 .. Cardinality(Items)
      BY <2>0, ItemTotals
    <3> QED
      BY <2>0, <3>1, <3>2, <3>3 DEF ReportTyped, InsightsTypeOK
  <2> QED
    BY <2>1, <2>2, <2>3, <2>4, <2>5, <2>6, <2>7 DEF Next, vars, InsightsNext, ReportStatement
<1> QED
  BY <1>1, <1>2, PTL DEF Spec

\* The state of both pages is what the code says it is.
THEOREM ReadsTypes == Spec => []TypeOK
<1>1. SearchInv => SearchTypeOK
  BY DEF SearchInv, SearchShape, SearchTypeOK, Ways
<1>2. CorpusInv => CorpusTypeOK
  BY DEF CorpusInv
<1>3. ReportTyped => InsightsTypeOK
  BY DEF ReportTyped
<1> QED
  BY <1>1, <1>2, <1>3, CorpusInvariant, SearchInvariant, ReportTypes, PTL DEF TypeOK

===============================================================================
