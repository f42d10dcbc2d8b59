------------------------------ MODULE ItemProofs ------------------------------
(***************************************************************************)
(* The life of an item, for every set of items, producers and workers and  *)
(* every bound.  It has one job at a time, whatever is redelivered, inserted *)
(* twice at once, dropped or requeued; what the pipeline leaves on it never *)
(* outruns its evidence; and the whole implements the abstract Lifecycle.  *)
(***************************************************************************)
EXTENDS CatchmentProofs

(***************************************************************************)
(* One job per item: an item is in at most one place, so no second run     *)
(* rewrites a finished record.                                             *)
(***************************************************************************)

\* The items workers have jobs for.
Active == {work[w].item : w \in {v \in Workers : Busy(v)}}

\* What the unique index promises of open transactions: a key is inserted by
\* one of them at most, and by none once a committed row holds it.
KeysHeldOnce ==
    \A h \in Ingesters :
        /\ IsInjective(ing[h].created)
        /\ Inserting(h) \cap rows = {}
        /\ \A g \in Ingesters : g # h => Inserting(g) \cap Inserting(h) = {}

\* OneJobPerItem, place by place.
JobsApart ==
    /\ IsInjective(queue)
    /\ \A f, g \in failed : f.item = g.item => f = g
    /\ \A v, w \in Workers : Busy(v) /\ Busy(w) /\ work[v].item = work[w].item => v = w
    /\ \A h \in Ingesters :
         /\ Owed(h) \cap (Queued \cup Active \cup FailedItems \cup finished) = {}
         /\ \A g \in Ingesters : g # h => Owed(g) \cap Owed(h) = {}
    /\ Queued \cap (Active \cup FailedItems \cup finished) = {}
    /\ Active \cap (FailedItems \cup finished) = {}
    /\ FailedItems \cap finished = {}

JobsInv == KeysHeldOnce /\ JobsApart

(***************************************************************************)
(* Sequences without repetition, and the places as sets.                   *)
(***************************************************************************)

LEMMA Distinct ==
    ASSUME NEW S, NEW s \in Seq(S)
    PROVE  /\ \A x \in S : IsInjective(s) /\ x \notin Range(s) => IsInjective(Append(s, x))
           /\ s # <<>> /\ IsInjective(s) =>
                IsInjective(Tail(s)) /\ Head(s) \notin Range(Tail(s))
<1>1. ASSUME NEW x \in S, IsInjective(s), x \notin Range(s)
      PROVE  IsInjective(Append(s, x))
  <2> DEFINE t == Append(s, x)
  <2>1. /\ DOMAIN t = 1 .. Len(s) + 1 /\ t[Len(s) + 1] = x
        /\ \A k \in 1 .. Len(s) : t[k] = s[k]
    OBVIOUS
  <2>2. DOMAIN s = 1 .. Len(s) /\ Len(s) \in Nat
    OBVIOUS
  <2>3. \A k \in 1 .. Len(s) : s[k] # x
    BY <1>1, <2>2 DEF Range
  <2> HIDE DEF t
  <2>4. ASSUME NEW a \in DOMAIN t, NEW b \in DOMAIN t, t[a] = t[b] PROVE a = b
    <3>1. CASE a \in 1 .. Len(s) /\ b \in 1 .. Len(s)
      BY <1>1, <2>1, <2>2, <2>4, <3>1 DEF IsInjective
    <3>2. CASE a = Len(s) + 1 \/ b = Len(s) + 1
      BY <2>1, <2>2, <2>3, <2>4, <3>2
    <3> QED
      BY <2>1, <2>2, <3>1, <3>2
  <2> QED
    BY <2>4 DEF IsInjective, t
<1>2. ASSUME s # <<>>, IsInjective(s)
      PROVE  IsInjective(Tail(s)) /\ Head(s) \notin Range(Tail(s))
  <2> DEFINE t == Tail(s)
  <2>1. /\ DOMAIN t = 1 .. Len(s) - 1
        /\ \A k \in 1 .. Len(s) - 1 : t[k] = s[k + 1]
        /\ Head(s) = s[1]
    BY <1>2
  <2>2. DOMAIN s = 1 .. Len(s) /\ Len(s) \in Nat /\ Len(s) > 0
    BY <1>2
  <2> HIDE DEF t
  <2>3. \A a, b \in 1 .. Len(s) : s[a] = s[b] => a = b
    BY <1>2, <2>2 DEF IsInjective
  <2>4. IsInjective(t)
    BY <2>1, <2>2, <2>3 DEF IsInjective
  <2>5. ASSUME NEW k \in DOMAIN t, t[k] = Head(s) PROVE FALSE
    <3>1. k \in 1 .. Len(s) - 1 /\ k + 1 \in 1 .. Len(s) /\ s[k + 1] = s[1]
      BY <2>1, <2>2, <2>5
    <3> QED
      BY <2>2, <2>3, <3>1
  <2> QED
    BY <2>4, <2>5 DEF Range, t
<1> QED
  BY <1>1, <1>2

\* The two forms of the invariant agree.
LEMMA JobsApartSuffices == TypeOK => (JobsApart <=> OneJobPerItem)
<1> SUFFICES ASSUME TypeOK PROVE JobsApart <=> OneJobPerItem
  OBVIOUS
<1> USE DEF TypeOK, StoreTypeOK, IngestTypeOK, WorkTypeOK
<1>1. \A w \in Workers : /\ Busy(w) => work[w].item \in Items
                         /\ ~Busy(w) => work[w].item \notin Items
  <2> TAKE w \in Workers
  <2>1. work[w] \in WorkState
    OBVIOUS
  <2>2. work[w] \in JobState => Busy(w) /\ work[w].item \in Items
    BY DEF JobState, Busy
  <2>3. ASSUME work[w] = IdleWorker PROVE ~Busy(w) /\ work[w].item \notin Items
    BY <2>3, WorkersAssumption DEF IdleWorker, Busy
  <2> QED
    BY <2>1, <2>2, <2>3 DEF WorkState
<1>2. \A i \in Items : Running(i) <=> i \in Active
  BY <1>1 DEF Running, HasJob, Active
<1>3. Active \subseteq Items
  BY <1>1 DEF Active
<1>4. Queued \subseteq Items
  BY SeqRanges DEF Queued
<1>5. \A h \in Ingesters : Owed(h) \subseteq Items
  <2> TAKE h \in Ingesters
  <2>1. ing[h].created \in Seq(Items)
    BY IngUpdates
  <2> QED
    BY <2>1, SeqRanges DEF Owed
<1>6. FailedItems \subseteq Items /\ finished \subseteq Items
  BY DEF FailedItems
<1>7. (\A v, w \in Workers : Busy(v) /\ Busy(w) /\ work[v].item = work[w].item => v = w)
        <=> (\A v, w \in Workers : Busy(v) /\ work[v].item = work[w].item => v = w)
  BY <1>1
<1>8. (\A h \in Ingesters :
          Owed(h) \cap (Queued \cup Active \cup FailedItems \cup finished) = {})
        <=> (\A i \in Items : ~(Pending(i) /\ Scheduled(i)))
  BY <1>2, <1>5 DEF Pending, Scheduled
<1>9. Queued \cap (Active \cup FailedItems \cup finished) = {}
        <=> \A i \in Items :
              ~(i \in Queued /\ (Running(i) \/ i \in FailedItems \/ i \in finished))
  BY <1>2, <1>4
<1>10. Active \cap (FailedItems \cup finished) = {}
         <=> \A i \in Items : ~(Running(i) /\ (i \in FailedItems \/ i \in finished))
  BY <1>2, <1>3
<1>11. FailedItems \cap finished = {}
         <=> \A i \in Items : ~(i \in FailedItems /\ i \in finished)
  BY <1>6
<1> QED
  BY <1>7, <1>8, <1>9, <1>10, <1>11 DEF JobsApart, OneJobPerItem

(***************************************************************************)
(* Producers.                                                              *)
(***************************************************************************)

\* Where a producer's step moves an item: from nowhere into its transaction,
\* from its transaction to what it owes, from there to the queue.
LEMMA ProducerMoves ==
    ASSUME TypeOK, KeysHeldOnce, NEW h \in Ingesters, IngestStep(h)
    PROVE  /\ IsInjective(ing'[h].created)
           /\ \A g \in Ingesters \ {h} : /\ Owed(g)' = Owed(g)
                                         /\ Inserting(g)' = Inserting(g)
                                         /\ ing'[g].created = ing[g].created
           /\ rows \subseteq rows'
           /\ \/ /\ rows' = rows /\ queue' = queue /\ Owed(h)' \subseteq Owed(h)
                 /\ Inserting(h)' \subseteq Inserting(h)
              \/ /\ rows' = rows /\ queue' = queue /\ Owed(h)' = {}
                 /\ \E i \in Items \ rows :
                      /\ Inserting(h)' = Inserting(h) \cup {i}
                      /\ \A g \in Ingesters \ {h} : i \notin Inserting(g)
              \/ /\ rows' = rows \cup Inserting(h) /\ queue' = queue
                 /\ Owed(h)' = Inserting(h) /\ Inserting(h)' = {}
              \/ /\ rows' = rows
                 /\ \E i \in Owed(h) \cap Items :
                      queue' = Append(queue, i) /\ i \notin Owed(h)'
                 /\ Owed(h)' \subseteq Owed(h) /\ Inserting(h)' = {}
<1> USE DEF TypeOK, StoreTypeOK, IngestTypeOK
<1>1. ing[h].todo \in Seq(Items) /\ ing[h].created \in Seq(Items)
  BY IngUpdates
<1>2. IsInjective(ing[h].created)
  BY DEF KeysHeldOnce
<1>3. IsInjective(<<>>) /\ Range(<<>>) = {}
  BY DEF IsInjective, Range
<1>4. \A g \in Ingesters \ {h} : /\ Owed(g)' = Owed(g)
                                 /\ Inserting(g)' = Inserting(g)
                                 /\ ing'[g].created = ing[g].created
  BY ProducerStep DEF Owed, Inserting
<1>5. ing[h].created # <<>> =>
        /\ Head(ing[h].created) \in Items
        /\ Head(ing[h].created) \in Range(ing[h].created)
        /\ Range(Tail(ing[h].created)) \subseteq Range(ing[h].created)
        /\ IsInjective(Tail(ing[h].created))
        /\ Head(ing[h].created) \notin Range(Tail(ing[h].created))
  <2>1. ing[h].created # <<>> =>
          /\ Head(ing[h].created) \in Items
          /\ Range(ing[h].created) =
               {Head(ing[h].created)} \cup Range(Tail(ing[h].created))
    BY <1>1, SeqRanges
  <2>2. ing[h].created # <<>> =>
          /\ IsInjective(Tail(ing[h].created))
          /\ Head(ing[h].created) \notin Range(Tail(ing[h].created))
    BY <1>1, <1>2, Distinct
  <2> QED
    BY <2>1, <2>2
<1>6. CASE TakesBatch(h)
  <2>1. /\ ing'[h].created = <<>> /\ ing'[h].pc = "upsert"
        /\ rows' = rows /\ queue' = queue
    BY <1>6 DEF TakesBatch
  <2>2. Owed(h)' = {} /\ Inserting(h)' = {}
    BY <1>3, <2>1 DEF Owed, Inserting
  <2> QED
    BY <1>3, <1>4, <2>1, <2>2
<1>7. CASE Inserts(h)
  <2>1. /\ ing[h].pc = "upsert" /\ ing'[h].pc = "upsert"
        /\ rows' = rows /\ queue' = queue
    BY <1>7 DEF Inserts
  <2>2. Owed(h)' = {}
    BY <2>1 DEF Owed
  <2>3. CASE ing'[h].created = ing[h].created
    <3>1. Inserting(h)' = Inserting(h)
      BY <2>1, <2>3 DEF Inserting
    <3> QED
      BY <1>2, <1>4, <2>1, <2>2, <2>3, <3>1
  <2>4. CASE ing'[h].created # ing[h].created
    <3> DEFINE i == Head(ing[h].todo)
    <3>1. /\ ing'[h].created = Append(ing[h].created, i)
          /\ i \notin rows /\ i \notin Range(ing[h].created)
          /\ \A g \in Ingesters \ {h} : i \notin Inserting(g)
      BY <1>7, <2>4 DEF Inserts
    <3>2. i \in Items
      BY <1>1, <1>7, SeqRanges DEF Inserts
    <3>3. Range(ing'[h].created) = Range(ing[h].created) \cup {i}
      BY <1>1, <3>1, <3>2, SeqRanges
    <3>4. IsInjective(ing'[h].created)
      BY <1>1, <1>2, <3>1, <3>2, Distinct
    <3>5. Inserting(h)' = Inserting(h) \cup {i}
      BY <2>1, <3>3 DEF Inserting
    <3> HIDE DEF i
    <3> QED
      BY <1>4, <2>1, <2>2, <3>1, <3>2, <3>4, <3>5
  <2> QED
    BY <2>3, <2>4
<1>8. CASE Commits(h)
  <2>1. /\ ing'[h].created = ing[h].created
        /\ rows' = rows \cup Inserting(h) /\ queue' = queue
        /\ Owed(h)' = Inserting(h) /\ Inserting(h)' = {}
    BY <1>8 DEF Commits, Owed, Inserting
  <2> QED
    BY <1>2, <1>4, <2>1
<1>9. CASE Pushes(h)
  <2>1. /\ ing'[h].created = Tail(ing[h].created)
        /\ rows' = rows /\ queue' = Append(queue, Head(ing[h].created))
        /\ Owed(h)' = Range(Tail(ing[h].created)) /\ Owed(h) = Range(ing[h].created)
        /\ Inserting(h)' = {} /\ ing[h].created # <<>>
    BY <1>9 DEF Pushes, Owed, Inserting
  <2> QED
    BY <1>4, <1>5, <2>1
<1>10. CASE Stops(h)
  <2>1. ing'[h].created = <<>> /\ ing'[h].pc = "idle" /\ rows' = rows
    BY <1>10 DEF Stops, IdleIngester
  <2>2. Owed(h)' = {} /\ Inserting(h)' = {}
    BY <2>1 DEF Owed, Inserting
  <2>3. \/ queue' = queue
        \/ /\ queue' = Append(queue, Head(ing[h].created))
           /\ Head(ing[h].created) \in Owed(h) \cap Items
    BY <1>5, <1>10 DEF Stops, Owed
  <2> QED
    BY <1>3, <1>4, <2>1, <2>2, <2>3
<1>11. CASE SeesFailure(h)
  <2>1. /\ ing'[h] = ing[h] /\ rows' = rows /\ queue' = queue
    BY <1>11 DEF SeesFailure
  <2>2. Owed(h)' = Owed(h) /\ Inserting(h)' = Inserting(h)
    BY <2>1 DEF Owed, Inserting
  <2> QED
    BY <1>2, <1>4, <2>1, <2>2
<1> QED
  BY <1>6, <1>7, <1>8, <1>9, <1>10, <1>11, ProducerStep

LEMMA ProducerKeepsKeys ==
    ASSUME TypeOK, JobsHaveRows, KeysHeldOnce, NEW h \in Ingesters, IngestStep(h)
    PROVE  KeysHeldOnce'
<1>1. \A g \in Ingesters : /\ IsInjective(ing[g].created)
                           /\ Inserting(g) \cap rows = {}
                           /\ \A x \in Ingesters :
                                x # g => Inserting(x) \cap Inserting(g) = {}
  BY DEF KeysHeldOnce
<1>2. \A g \in Ingesters : IsInjective(ing'[g].created)
  BY <1>1, ProducerMoves
<1>3. \A g \in Ingesters \ {h} : Inserting(g)' = Inserting(g)
  BY ProducerMoves
<1>4. \/ rows' = rows /\ Inserting(h)' \subseteq Inserting(h)
      \/ /\ rows' = rows
         /\ \E i \in Items \ rows :
              /\ Inserting(h)' = Inserting(h) \cup {i}
              /\ \A g \in Ingesters \ {h} : i \notin Inserting(g)
      \/ rows' = rows \cup Inserting(h) /\ Inserting(h)' = {}
  BY ProducerMoves
<1>5. \A g \in Ingesters : Inserting(g)' \cap rows' = {}
  BY <1>1, <1>3, <1>4
<1>6. \A g \in Ingesters \ {h} : Inserting(g)' \cap Inserting(h)' = {}
  BY <1>1, <1>3, <1>4
<1>7. \A g, x \in Ingesters : x # g => Inserting(x)' \cap Inserting(g)' = {}
  BY <1>1, <1>3, <1>6
<1> QED
  BY <1>2, <1>5, <1>7 DEF KeysHeldOnce

LEMMA ProducerKeepsApart ==
    ASSUME TypeOK, JobsPlaced, JobsInv, NEW h \in Ingesters, IngestStep(h),
           UNCHANGED workVars
    PROVE  JobsApart'
<1> USE DEF TypeOK, StoreTypeOK
<1>1. KeysHeldOnce /\ JobsApart
  BY DEF JobsInv
<1>2. /\ Active' = Active /\ FailedItems' = FailedItems
      /\ finished' = finished /\ failed' = failed /\ work' = work
  BY ProducerStep DEF workVars, Active, Busy, FailedItems
<1>3. \A i \in Items : Range(Append(queue, i)) = Range(queue) \cup {i}
  BY SeqRanges
<1>4. \A i \in Items : IsInjective(queue) /\ i \notin Queued => IsInjective(Append(queue, i))
  BY Distinct DEF Queued
<1>5. \A g \in Ingesters \ {h} : Owed(g)' = Owed(g)
  BY <1>1, ProducerMoves
<1>a. /\ \A g \in Ingesters : Owed(g) \subseteq rows
      /\ Queued \subseteq rows /\ Active \subseteq rows
      /\ FailedItems \subseteq rows /\ finished \subseteq rows
  BY DEF JobsPlaced, Active, FailedItems
<1>6. CASE queue' = queue /\ Owed(h)' \subseteq Owed(h)
  <2>1. Queued' = Queued
    BY <1>6 DEF Queued
  <2> QED
    BY <1>1, <1>2, <1>5, <1>6, <2>1 DEF JobsApart, Busy
<1>7. CASE queue' = queue /\ Owed(h)' = Inserting(h)
  <2>1. Queued' = Queued
    BY <1>7 DEF Queued
  <2>2. Inserting(h) \cap rows = {}
    BY <1>1 DEF KeysHeldOnce
  <2>3. Owed(h)' \cap (Queued \cup Active \cup FailedItems \cup finished) = {}
    BY <1>7, <1>a, <2>2
  <2>4. \A g \in Ingesters \ {h} : Owed(g)' \cap Owed(h)' = {}
    BY <1>5, <1>7, <1>a, <2>2
  <2> QED
    BY <1>1, <1>2, <1>5, <1>7, <2>1, <2>3, <2>4 DEF JobsApart, Busy
<1>8. ASSUME NEW i \in Owed(h) \cap Items, queue' = Append(queue, i),
             i \notin Owed(h)', Owed(h)' \subseteq Owed(h)
      PROVE  JobsApart'
  <2>1. Queued' = Queued \cup {i}
    BY <1>3, <1>8 DEF Queued
  <2>2. i \notin Queued \cup Active \cup FailedItems \cup finished
    BY <1>1, <1>8 DEF JobsApart
  <2>3. IsInjective(queue')
    BY <1>1, <1>4, <1>8, <2>2 DEF JobsApart
  <2>4. \A g \in Ingesters : i \notin Owed(g)'
    BY <1>1, <1>5, <1>8 DEF JobsApart
  <2>5. \A g \in Ingesters : Owed(g)' \subseteq Owed(g)
    BY <1>5, <1>8
  <2> QED
    BY <1>1, <1>2, <2>1, <2>2, <2>3, <2>4, <2>5 DEF JobsApart, Busy
<1>9. \/ queue' = queue /\ Owed(h)' \subseteq Owed(h)
      \/ queue' = queue /\ Owed(h)' = Inserting(h)
      \/ \E i \in Owed(h) \cap Items :
           queue' = Append(queue, i) /\ i \notin Owed(h)' /\ Owed(h)' \subseteq Owed(h)
  BY <1>1, ProducerMoves
<1> QED
  BY <1>6, <1>7, <1>8, <1>9

(***************************************************************************)
(* Workers and operators.                                                  *)
(***************************************************************************)

LEMMA WorkerKeepsApart ==
    ASSUME TypeOK, JobsApart, NEW w \in Workers, WorkStep(w), UNCHANGED ingestVars
    PROVE  JobsApart'
<1> USE DEF TypeOK, StoreTypeOK, WorkTypeOK
<1>1. \A h \in Ingesters : Owed(h)' = Owed(h)
  BY DEF Owed, ingestVars
<1>2. \A v \in Workers \ {w} : work'[v] = work[v] /\ Busy(v)' = Busy(v)
  BY WorkerStep DEF Busy
<1>3. ASSUME queue' = queue, failed' = failed, finished' = finished,
             Busy(w), work'[w].item = work[w].item
      PROVE  JobsApart'
  <2>1. Active' \subseteq Active
    BY <1>2, <1>3 DEF Active
  <2>2. Queued' = Queued /\ FailedItems' = FailedItems
    BY <1>3 DEF Queued, FailedItems
  <2>3. \A u, v \in Workers : Busy(u)' /\ Busy(v)' /\ work'[u].item = work'[v].item => u = v
    BY <1>2, <1>3 DEF JobsApart
  <2> QED
    BY <1>1, <1>3, <2>1, <2>2, <2>3 DEF JobsApart
<1>4. CASE TakesJob(w)
  <2> DEFINE i == Head(queue)
  <2>1. /\ i \in Queued /\ i \notin Range(Tail(queue))
        /\ Range(Tail(queue)) \subseteq Queued /\ IsInjective(Tail(queue))
    <3>1. Range(queue) = {i} \cup Range(Tail(queue))
      BY <1>4, SeqRanges DEF TakesJob
    <3>2. IsInjective(Tail(queue)) /\ Head(queue) \notin Range(Tail(queue))
      BY <1>4, Distinct DEF TakesJob, JobsApart
    <3> QED
      BY <3>1, <3>2 DEF Queued
  <2>2. /\ queue' = Tail(queue) /\ work'[w].item = i
        /\ failed' = failed /\ finished' = finished
    BY <1>4 DEF TakesJob
  <2>3. Queued' \subseteq Queued /\ i \notin Queued' /\ IsInjective(queue')
    BY <2>1, <2>2 DEF Queued
  <2>4. FailedItems' = FailedItems
    BY <2>2 DEF FailedItems
  <2>5. Active' \subseteq Active \cup {i}
    BY <1>2, <2>2 DEF Active
  <2>6. i \notin Active \cup FailedItems \cup finished
    BY <2>1 DEF JobsApart
  <2>7. \A h \in Ingesters : i \notin Owed(h)
    BY <2>1 DEF JobsApart
  <2>8. \A u, v \in Workers : Busy(u)' /\ Busy(v)' /\ work'[u].item = work'[v].item => u = v
    <3>1. \A v \in Workers \ {w} : Busy(v) => work[v].item # i
      BY <2>6 DEF Active
    <3> QED
      BY <1>2, <2>2, <3>1 DEF JobsApart
  <2> HIDE DEF i
  <2> QED
    BY <1>1, <2>2, <2>3, <2>4, <2>5, <2>6, <2>7, <2>8 DEF JobsApart
<1>5. CASE EndsJob(w)
  <2> DEFINE i == work[w].item
  <2>1. /\ Busy(w) /\ ~Busy(w)' /\ queue' = queue
    BY <1>5 DEF EndsJob, Busy, IdleWorker
  <2>2. /\ i \in Active /\ i \notin Active' /\ Active' \subseteq Active
    BY <1>2, <2>1 DEF Active, JobsApart
  <2>3. Queued' = Queued
    BY <2>1 DEF Queued
  <2>4. /\ i \notin Queued \cup FailedItems \cup finished
        /\ \A h \in Ingesters : i \notin Owed(h)
    BY <2>2 DEF JobsApart
  <2>5. \A u, v \in Workers : Busy(u)' /\ Busy(v)' /\ work'[u].item = work'[v].item => u = v
    BY <1>2, <2>1 DEF JobsApart
  <2>6. /\ \A f, g \in failed' : f.item = g.item => f = g
        /\ \/ FailedItems' = FailedItems /\ finished' = finished \cup {i}
           \/ FailedItems' = FailedItems \cup {i} /\ finished' = finished
    <3>1. CASE finished' = finished \cup {i} /\ UNCHANGED failed
      BY <3>1 DEF JobsApart, FailedItems
    <3>2. CASE UNCHANGED finished /\ \E c \in Causes :
                 failed' = failed \cup {[item |-> i, cause |-> c]}
      <4>1. PICK c \in Causes : failed' = failed \cup {[item |-> i, cause |-> c]}
        BY <3>2
      <4> DEFINE x == [item |-> i, cause |-> c]
      <4>2. x.item = i /\ failed' = failed \cup {x}
        BY <4>1
      <4>3. \A f \in failed : f.item # i
        BY <2>4 DEF FailedItems
      <4> HIDE DEF x
      <4>4. \A f, g \in failed' : f.item = g.item => f = g
        BY <4>2, <4>3 DEF JobsApart
      <4>5. FailedItems' = FailedItems \cup {i}
        BY <4>2 DEF FailedItems
      <4> QED
        BY <3>2, <4>4, <4>5
    <3> QED
      BY <1>5, <3>1, <3>2 DEF EndsJob
  <2> HIDE DEF i
  <2>7. /\ IsInjective(queue')
        /\ \A h \in Ingesters :
             /\ Owed(h)' \cap (Queued' \cup Active' \cup FailedItems' \cup finished') = {}
             /\ \A g \in Ingesters : g # h => Owed(g)' \cap Owed(h)' = {}
    BY <1>1, <2>1, <2>2, <2>3, <2>4, <2>6 DEF JobsApart
  <2>8. /\ Queued' \cap (Active' \cup FailedItems' \cup finished') = {}
        /\ Active' \cap (FailedItems' \cup finished') = {}
        /\ FailedItems' \cap finished' = {}
    BY <2>2, <2>3, <2>4, <2>6 DEF JobsApart
  <2> QED
    BY <2>5, <2>6, <2>7, <2>8 DEF JobsApart
<1>6. CASE MovesOn(w) \/ Publishes(w)
  BY <1>3, <1>6 DEF MovesOn, Publishes
<1> QED
  BY <1>4, <1>5, <1>6, WorkerStep

LEMMA RequeueKeepsApart ==
    ASSUME TypeOK, JobsApart, NEW f \in failed, Requeue(f), UNCHANGED ingestVars
    PROVE  JobsApart'
<1> USE DEF TypeOK, StoreTypeOK
<1> DEFINE i == f.item
<1>1. i \in Items /\ i \in FailedItems
  BY DEF FailedItems
<1>2. /\ queue' = Append(queue, i) /\ failed' = failed \ {f}
      /\ finished' = finished /\ work' = work
  BY DEF Requeue
<1>3. i \notin FailedItems' /\ FailedItems' \subseteq FailedItems
  BY <1>2 DEF FailedItems, JobsApart
<1>4. Active' = Active /\ \A h \in Ingesters : Owed(h)' = Owed(h)
  BY <1>2 DEF Active, Busy, Owed, ingestVars
<1>5. Queued' = Queued \cup {i}
  BY <1>1, <1>2, SeqRanges DEF Queued
<1>6. /\ i \notin Queued \cup Active \cup finished
      /\ \A h \in Ingesters : i \notin Owed(h)
  BY <1>1 DEF JobsApart
<1>7. IsInjective(queue')
  BY <1>1, <1>2, <1>6, Distinct DEF Queued, JobsApart
<1> HIDE DEF i
<1> QED
  BY <1>2, <1>3, <1>4, <1>5, <1>6, <1>7 DEF JobsApart, Busy

(***************************************************************************)
(* Nothing falls between the places.                                       *)
(***************************************************************************)

\* As long as no producer failed, every row has a place.
RowsPlaced ==
    ingestFaults = 0 =>
        \A i \in rows : \/ \E h \in Ingesters : i \in Owed(h)
                        \/ i \in Queued \cup Active \cup FailedItems \cup finished

LEMMA ProducerKeepsRows ==
    ASSUME TypeOK, RowsPlaced, NEW h \in Ingesters, IngestStep(h), UNCHANGED workVars
    PROVE  RowsPlaced'
<1> USE DEF TypeOK, StoreTypeOK, IngestTypeOK
<1> SUFFICES ASSUME ingestFaults' = 0
             PROVE  \A i \in rows' :
                      \/ \E g \in Ingesters : i \in Owed(g)'
                      \/ i \in Queued' \cup Active' \cup FailedItems' \cup finished'
  BY DEF RowsPlaced
<1>1. ingestFaults = 0
  BY IngestersAssumption
     DEF IngestStep, Receive, FetchFails, Upsert, Commit, Enqueue, Acknowledge,
         EnqueueRaises, IngesterCrash, DeadlockVictim
<1>2. /\ Active' = Active /\ FailedItems' = FailedItems /\ finished' = finished
      /\ \A g \in Ingesters \ {h} : Owed(g)' = Owed(g)
  BY ProducerStep DEF workVars, Active, Busy, FailedItems, Owed
<1>3. ing[h].created \in Seq(Items)
  BY IngUpdates
<1>4. \A i \in Items : Range(Append(queue, i)) = Range(queue) \cup {i}
  BY SeqRanges
<1>5. Queued \subseteq Queued' /\ Owed(h) \subseteq Owed(h)' \cup Queued'
      /\ rows' \subseteq rows \cup Owed(h)'
  <2>1. CASE Pushes(h)
    <3>1. /\ Head(ing[h].created) \in Items
          /\ Range(ing[h].created) =
               {Head(ing[h].created)} \cup Range(Tail(ing[h].created))
      BY <1>3, <2>1, SeqRanges DEF Pushes
    <3>2. Queued' = Queued \cup {Head(ing[h].created)}
      BY <1>4, <2>1, <3>1 DEF Pushes, Queued
    <3> QED
      BY <2>1, <3>1, <3>2 DEF Pushes, Owed
  <2>2. CASE Stops(h)
    <3>1. Owed(h) = {} /\ rows' = rows
      BY <2>2 DEF Stops
    <3>2. Queued \subseteq Queued'
      <4>1. ing[h].created # <<>> => Head(ing[h].created) \in Items
        BY <1>3, SeqRanges
      <4> QED
        BY <1>4, <2>2, <4>1 DEF Stops, Queued
    <3> QED
      BY <3>1, <3>2
  <2>3. CASE Commits(h)
    BY <2>3 DEF Commits, Owed, Queued
  <2>4. CASE TakesBatch(h) \/ Inserts(h) \/ SeesFailure(h)
    BY <2>4 DEF TakesBatch, Inserts, SeesFailure, Owed, Queued
  <2> QED
    BY <2>1, <2>2, <2>3, <2>4, ProducerStep
<1> QED
  BY <1>1, <1>2, <1>5 DEF RowsPlaced

LEMMA WorkerKeepsRows ==
    ASSUME TypeOK, RowsPlaced, NEW w \in Workers, WorkStep(w), UNCHANGED ingestVars
    PROVE  RowsPlaced'
<1> USE DEF TypeOK, StoreTypeOK, WorkTypeOK
<1>1. /\ rows' = rows /\ ingestFaults' = ingestFaults
      /\ \A h \in Ingesters : Owed(h)' = Owed(h)
  BY WorkerStep DEF ingestVars, Owed
<1>2. Active \ {work[w].item} \subseteq Active' /\ (~Busy(w) => Active \subseteq Active')
  BY WorkerStep DEF Active, Busy
<1>3. work'[w].item \in Items => work'[w].item \in Active'
  <2>1. work'[w] \in WorkState
    BY WorkerStep
  <2>2. work'[w] = IdleWorker => work'[w].item \notin Items
    BY WorkersAssumption DEF IdleWorker
  <2>3. work'[w] \in JobState => Busy(w)'
    BY DEF JobState, Busy
  <2> QED
    BY <2>1, <2>2, <2>3 DEF WorkState, Active
<1>4. Busy(w) => work[w].item \in Items
  BY MovesKeepTypes DEF Steps
<1>5. Queued \cup Active \cup FailedItems \cup finished
        \subseteq Queued' \cup Active' \cup FailedItems' \cup finished'
  <2>1. CASE TakesJob(w)
    <3>1. Head(queue) \in Items /\ Range(queue) = {Head(queue)} \cup Range(Tail(queue))
      BY <2>1, SeqRanges DEF TakesJob
    <3>2. Queued \subseteq Queued' \cup Active'
      BY <1>3, <2>1, <3>1 DEF TakesJob, Queued
    <3> QED
      BY <1>2, <2>1, <3>2 DEF TakesJob, FailedItems
  <2>2. CASE MovesOn(w) \/ Publishes(w)
    BY <1>2, <1>3, <1>4, <2>2 DEF MovesOn, Publishes, Queued, FailedItems
  <2>3. CASE EndsJob(w)
    <3>1. /\ Queued' = Queued /\ FailedItems \subseteq FailedItems'
          /\ finished \subseteq finished'
      BY <2>3 DEF EndsJob, Queued, FailedItems
    <3>2. work[w].item \in FailedItems' \cup finished'
      <4>1. CASE finished' = finished \cup {work[w].item}
        BY <4>1
      <4>2. CASE \E c \in Causes :
                   failed' = failed \cup {[item |-> work[w].item, cause |-> c]}
        <5>1. PICK c \in Causes :
                failed' = failed \cup {[item |-> work[w].item, cause |-> c]}
          BY <4>2
        <5> DEFINE x == [item |-> work[w].item, cause |-> c]
        <5>2. x \in failed' /\ x.item = work[w].item
          BY <5>1
        <5> QED
          BY <5>2 DEF FailedItems
      <4> QED
        BY <2>3, <4>1, <4>2 DEF EndsJob
    <3> QED
      BY <1>2, <3>1, <3>2
  <2> QED
    BY <2>1, <2>2, <2>3, WorkerStep
<1> QED
  BY <1>1, <1>5 DEF RowsPlaced

LEMMA RequeueKeepsRows ==
    ASSUME TypeOK, RowsPlaced, NEW f \in failed, Requeue(f), UNCHANGED ingestVars
    PROVE  RowsPlaced'
<1> USE DEF TypeOK, StoreTypeOK
<1>1. /\ UNCHANGED <<rows, ingestFaults, work, finished>>
      /\ \A h \in Ingesters : Owed(h)' = Owed(h)
  BY DEF Requeue, ingestVars, Owed
<1>2. Queued' = Queued \cup {f.item}
  BY SeqRanges DEF Requeue, Queued
<1>3. FailedItems \subseteq FailedItems' \cup {f.item} /\ Active' = Active
  BY <1>1 DEF Requeue, FailedItems, Active, Busy
<1> QED
  BY <1>1, <1>2, <1>3 DEF RowsPlaced

(***************************************************************************)
(* The theorems.                                                           *)
(***************************************************************************)

LEMMA JobsInit == Init => JobsInv
<1> SUFFICES ASSUME Init PROVE JobsInv
  OBVIOUS
<1> USE DEF Init, StoreInit, IngestInit, WorkInit
<1>1. IsInjective(<<>>) /\ Range(<<>>) = {}
  BY DEF IsInjective, Range
<1>2. /\ \A h \in Ingesters : /\ Owed(h) = {} /\ Inserting(h) = {}
                              /\ ing[h].created = <<>>
      /\ \A w \in Workers : ~Busy(w)
      /\ Queued = {} /\ Active = {} /\ FailedItems = {}
  BY <1>1 DEF Owed, Inserting, IdleIngester, Busy, IdleWorker, Queued, Active, FailedItems
<1> QED
  BY <1>1, <1>2 DEF JobsInv, KeysHeldOnce, JobsApart

LEMMA JobsStep == SafetyInv /\ JobsInv /\ [Next]_vars => JobsInv'
<1> SUFFICES ASSUME SafetyInv, JobsInv, [Next]_vars PROVE JobsInv'
  OBVIOUS
<1>1. TypeOK /\ JobsHaveRows /\ JobsPlaced
  BY JobsPlacedSuffices DEF SafetyInv
<1>2. KeysHeldOnce /\ JobsApart
  BY DEF JobsInv
<1>3. UNCHANGED <<ing, rows>> => KeysHeldOnce'
  BY <1>2 DEF KeysHeldOnce, Inserting
<1>4. ASSUME NEW h \in Ingesters, IngestStep(h), UNCHANGED workVars
      PROVE  JobsInv'
  BY <1>1, <1>2, <1>4, ProducerKeepsKeys, ProducerKeepsApart DEF JobsInv
<1>5. ASSUME NEW w \in Workers, WorkStep(w), UNCHANGED ingestVars
      PROVE  JobsInv'
  <2>1. UNCHANGED <<ing, rows>>
    BY <1>1, <1>5, WorkerStep DEF ingestVars
  <2> QED
    BY <1>1, <1>2, <1>3, <1>5, <2>1, WorkerKeepsApart DEF JobsInv
<1>6. ASSUME NEW f \in failed, Requeue(f), UNCHANGED ingestVars
      PROVE  JobsInv'
  <2>1. UNCHANGED <<ing, rows>>
    BY <1>6 DEF Requeue, ingestVars
  <2> QED
    BY <1>1, <1>2, <1>3, <1>6, <2>1, RequeueKeepsApart DEF JobsInv
<1>7. CASE UNCHANGED vars
  <2>1. UNCHANGED <<ing, rows>>
    BY <1>7 DEF vars, storeVars, ingestVars
  <2>2. UNCHANGED <<queue, failed, finished, work, ing>>
    BY <1>7 DEF vars, storeVars, ingestVars, workVars
  <2>3. /\ Queued' = Queued /\ FailedItems' = FailedItems /\ Active' = Active
        /\ \A h \in Ingesters : Owed(h)' = Owed(h)
    BY <2>2 DEF Queued, FailedItems, Active, Busy, Owed
  <2>4. JobsApart'
    BY <1>2, <2>2, <2>3 DEF JobsApart, Busy
  <2> QED
    BY <1>3, <2>1, <2>4 DEF JobsInv
<1> QED
  BY <1>4, <1>5, <1>6, <1>7 DEF Next, Quiescent

\* The places stay apart and open transactions hold distinct keys.
THEOREM JobsInvariant == Spec => []JobsInv
BY JobsInit, JobsStep, Safety, PTL DEF Spec

\* An item has at most one job, whatever is redelivered, whoever inserts the
\* same record at the same time and whatever the operator requeues.
THEOREM ItemsHaveOneJob == Spec => []OneJobPerItem
<1>1. TypeOK /\ JobsInv => OneJobPerItem
  BY JobsApartSuffices DEF JobsInv
<1> QED
  BY <1>1, JobsInvariant, TypeCorrect, PTL

LEMMA RowsStep == SafetyInv /\ RowsPlaced /\ [Next]_vars => RowsPlaced'
<1> SUFFICES ASSUME SafetyInv, RowsPlaced, [Next]_vars PROVE RowsPlaced'
  OBVIOUS
<1>1. TypeOK
  BY DEF SafetyInv
<1>2. CASE UNCHANGED vars
  <2>1. UNCHANGED <<queue, failed, finished, work, ing, rows, ingestFaults>>
    BY <1>2 DEF vars, storeVars, ingestVars, workVars
  <2> QED
    BY <2>1 DEF RowsPlaced, Owed, Queued, FailedItems, Active, Busy
<1> QED
  BY <1>1, <1>2, ProducerKeepsRows, WorkerKeepsRows, RequeueKeepsRows
     DEF Next, Quiescent

\* Only a producer that failed between its commit and its enqueues leaves a
\* row without a job: no interleaving of healthy processes does.
THEOREM StrandingTakesAFault == Spec => []StrandedOnlyByFault
<1>1. Init => RowsPlaced
  BY DEF Init, StoreInit, RowsPlaced
<1>2. Spec => []RowsPlaced
  BY <1>1, RowsStep, Safety, PTL DEF Spec
<1>3. TypeOK /\ RowsPlaced => StrandedOnlyByFault
  <2> SUFFICES ASSUME TypeOK, RowsPlaced, ingestFaults = 0, NEW i \in rows
               PROVE  Pending(i) \/ Scheduled(i)
    BY DEF StrandedOnlyByFault, Stranded
  <2>1. i \in Active => Running(i)
    BY DEF Active, Running, HasJob
  <2> QED
    BY <2>1 DEF RowsPlaced, Pending, Scheduled
<1> QED
  BY <1>2, <1>3, TypeCorrect, PTL

\* The record of an item whose job RQ counts as successful is never rewritten:
\* the only process that could is another job of the same item.
THEOREM FinishedRecordsAreFinal == Spec => FinishedIsFinal
<1>1. ASSUME SafetyInv, JobsInv, [Next]_vars
      PROVE  [\A i \in finished : i \in finished' /\ db'[i] = db[i]]_vars
  <2>1. TypeOK /\ JobsApart
    BY <1>1 DEF SafetyInv, JobsInv
  <2>2. ASSUME NEW h \in Ingesters, IngestStep(h)
        PROVE  UNCHANGED <<db, finished>>
    BY <2>1, <2>2, ProducerStep
  <2>3. ASSUME NEW w \in Workers, WorkStep(w)
        PROVE  \A i \in finished : i \in finished' /\ db'[i] = db[i]
    <3>1. CASE Publishes(w)
      <4>1. work[w].item \notin finished
        BY <2>1, <3>1 DEF Publishes, JobsApart, Active
      <4>2. finished \subseteq Items
        BY <2>1 DEF TypeOK, StoreTypeOK
      <4> QED
        BY <2>1, <3>1, <4>1, <4>2 DEF Publishes, TypeOK, StoreTypeOK
    <3>2. CASE TakesJob(w) \/ MovesOn(w) \/ EndsJob(w)
      BY <3>2 DEF TakesJob, MovesOn, EndsJob
    <3> QED
      BY <2>1, <2>3, <3>1, <3>2, WorkerStep
  <2>4. ASSUME NEW f \in failed, Requeue(f)
        PROVE  UNCHANGED <<db, finished>>
    BY <2>4 DEF Requeue
  <2> QED
    BY <1>1, <2>2, <2>3, <2>4 DEF Next, Quiescent
<1> QED
  BY <1>1, JobsInvariant, Safety, PTL DEF Spec, FinishedIsFinal

(***************************************************************************)
(* What the pipeline leaves on an item: no tag outruns its evidence and no *)
(* outage hides behind a placeholder, through faults, requeues and reruns. *)
(***************************************************************************)

\* The items run_pipeline finds something to read in.
Readable == LinkItems \cup TextItems

\* What every version of a row satisfies, committed or in a transaction.  An
\* item is either readable, and its placeholder has a failure row, or it never
\* has an extraction: no rerun can find text where the first run found none.
RowOk(i, r) ==
    /\ "llm" \in r.tags => r.embedded
    /\ r.embedded => r.extractions # {}
    /\ r.extractions # {} => i \in Readable
    /\ "unclassified" \in r.tags => "classification" \in r.failures \/ i \notin Readable
    /\ r.failures # {} => "unclassified" \in r.tags

\* What a run that reached its end has left: the placeholder if it found
\* nothing to read, otherwise an embedding or the reason there is none.
Settled(r) ==
    IF r.extractions = {} THEN "unclassified" \in r.tags ELSE r.embedded \/ r.failures # {}

\* What a worker knows at each step of its job.  The fallback step of a dead
\* link is never reached: its failure row is refused and the job fails.
JobOk(s) ==
    /\ RowOk(s.item, s.row)
    /\ s.pc # "fallback"
    /\ s.pc = "classify" =>
         IF s.text THEN s.row.extractions # {} ELSE s.item \notin Readable
    /\ s.pc = "llm" => s.row.extractions # {} /\ s.row.embedded
    /\ s.pc \in {"commit", "finish"} => Settled(s.row)

RecordsInv ==
    /\ \A i \in Items : RowOk(i, db[i]) /\ (db[i].tags # {} => i \in rows)
    /\ \A w \in Workers : JobOk(work[w])
    /\ \A i \in finished : Settled(db[i])
    /\ \A w \in Workers : work[w].pc = "finish" => Settled(db[work[w].item])

(***************************************************************************)
(* The pipeline's building blocks.                                         *)
(***************************************************************************)

LEMMA BareRowOk == \A i : RowOk(i, BareRow)
BY DEF RowOk, BareRow

LEMMA IdleOk == JobOk(IdleWorker)
BY BareRowOk DEF JobOk, IdleWorker

\* What a busy worker's next state is, by the building block that makes it.
LEMMA NextJob ==
    ASSUME work \in [Workers -> WorkState], NEW w \in Workers, Busy(w)
    PROVE  /\ work[w] \in JobState
           /\ \A pc : Goto(w, pc) =>
                /\ work'[w].pc = pc /\ work'[w].item = work[w].item
                /\ work'[w].row = work[w].row /\ work'[w].text = work[w].text
           /\ \A pc, row : GotoWith(w, pc, row) =>
                /\ work'[w].pc = pc /\ work'[w].item = work[w].item
                /\ work'[w].row = row /\ work'[w].text = work[w].text
           /\ \A text, x : GotoText(w, text, x) =>
                /\ work'[w].pc = "classify" /\ work'[w].item = work[w].item
                /\ work'[w].row = [work[w].row EXCEPT !.extractions = @ \cup x]
                /\ work'[w].text = text
           /\ Release(w) => work'[w] = IdleWorker
<1>1. work[w] \in JobState
  BY WorkUpdates
<1>2. ASSUME NEW pc, Goto(w, pc)
      PROVE  /\ work'[w].pc = pc /\ work'[w].item = work[w].item
             /\ work'[w].row = work[w].row /\ work'[w].text = work[w].text
  BY <1>1, <1>2 DEF Goto, JobState
<1>3. ASSUME NEW pc, NEW row, GotoWith(w, pc, row)
      PROVE  /\ work'[w].pc = pc /\ work'[w].item = work[w].item
             /\ work'[w].row = row /\ work'[w].text = work[w].text
  BY <1>1, <1>3 DEF GotoWith, JobState
<1>4. ASSUME NEW text, NEW x, GotoText(w, text, x)
      PROVE  /\ work'[w].pc = "classify" /\ work'[w].item = work[w].item
             /\ work'[w].row = [work[w].row EXCEPT !.extractions = @ \cup x]
             /\ work'[w].text = text
  <2> DEFINE row == [work[w].row EXCEPT !.extractions = @ \cup x]
  <2>1. work' = [work EXCEPT ![w] =
                   [work[w] EXCEPT !.pc = "classify", !.text = text, !.row = row]]
    BY <1>4 DEF GotoText
  <2> HIDE DEF row
  <2>2. /\ work'[w].pc = "classify" /\ work'[w].item = work[w].item
        /\ work'[w].row = row /\ work'[w].text = text
    BY <1>1, <2>1 DEF JobState
  <2> QED
    BY <2>2 DEF row
<1>5. Release(w) => work'[w] = IdleWorker
  BY DEF Release
<1> QED
  BY <1>1, <1>2, <1>3, <1>4, <1>5

\* A classification that fails leaves the placeholder and its reason together.
LEMMA DegradedRowOk ==
    ASSUME NEW i \in Items, NEW r \in ItemRow, RowOk(i, r)
    PROVE  LET s == [[r EXCEPT !.tags = @ \cup {"unclassified"}]
                        EXCEPT !.failures = @ \cup {"classification"}]
           IN  RowOk(i, s) /\ Settled(s)
BY DEF RowOk, ItemRow, Settled

(***************************************************************************)
(* Every step of a worker keeps its own job in order.                      *)
(***************************************************************************)

LEMMA WorkerKeepsItsJob ==
    ASSUME TypeOK, RecordsInv, NEW w \in Workers, WorkStep(w)
    PROVE  JobOk(work'[w])
<1> USE DEF TypeOK, StoreTypeOK, WorkTypeOK
<1>a. JobOk(work[w])
  BY DEF RecordsInv
<1>b. Busy(w) => /\ work[w] \in JobState
                 /\ work[w].item \in Items
                 /\ work[w].row \in ItemRow
  BY NextJob DEF JobState
<1>c. \A c : FailJob(w, c) => JobOk(work'[w])
  BY IdleOk DEF FailJob, Release
<1>1. CASE Claim(w)
  BY <1>1, BareRowOk DEF Claim, JobOk
<1>2. CASE Load(w)
  <2>1. Busy(w)
    BY <1>2 DEF Load, Busy
  <2>2. RowOk(work[w].item, db[work[w].item])
    BY <1>b, <2>1 DEF RecordsInv
  <2> QED
    BY <1>2, <1>c, <2>1, <2>2, NextJob DEF Load, JobOk
<1>3. CASE SkipMedia(w)
  BY <1>a, <1>3, NextJob DEF SkipMedia, Busy, JobOk
<1>4. CASE FetchMedia(w)
  <2>1. Busy(w)
    BY <1>4 DEF FetchMedia, Busy
  <2> DEFINE r == [work[w].row EXCEPT !.rawRef = TRUE]
  <2>2. RowOk(work[w].item, r)
    BY <1>a, <1>b, <2>1 DEF JobOk, RowOk, ItemRow
  <2>3. work'[w].pc = "article" /\ work'[w].item = work[w].item /\ work'[w].row = r
    BY <1>4, <2>1, NextJob DEF FetchMedia
  <2> QED
    BY <2>2, <2>3 DEF JobOk
<1>5. CASE MediaFetchFails(w) \/ ArticleFails(w)
  <2>1. FailJob(w, "IntegrityError")
    BY <1>5 DEF MediaFetchFails, ArticleFails, Degrade, PipelineStages
  <2> QED
    BY <1>c, <2>1
<1>6. CASE ExtractArticle(w)
  <2>1. Busy(w) /\ GotoText(w, TRUE, {"article"}) /\ work[w].item \in Readable
    BY <1>6 DEF ExtractArticle, Busy, Readable
  <2> DEFINE r == [work[w].row EXCEPT !.extractions = @ \cup {"article"}]
  <2>2. RowOk(work[w].item, r) /\ r.extractions # {}
    BY <1>a, <1>b, <2>1 DEF JobOk, RowOk, ItemRow
  <2>3. /\ work'[w].pc = "classify" /\ work'[w].item = work[w].item
        /\ work'[w].row = r /\ work'[w].text = TRUE
    BY <2>1, NextJob
  <2> QED
    BY <2>2, <2>3 DEF JobOk
<1>7. CASE Passthrough(w)
  <2>1. Busy(w) /\ work[w].item \notin LinkItems
    BY <1>7, <1>a DEF Passthrough, Busy, JobOk
  <2>2. CASE work[w].item \in TextItems
    <3> DEFINE r == [work[w].row EXCEPT !.extractions = @ \cup {"passthrough"}]
    <3>1. GotoText(w, TRUE, {"passthrough"})
      BY <1>7, <2>2 DEF Passthrough
    <3>2. RowOk(work[w].item, r) /\ r.extractions # {}
      BY <1>a, <1>b, <2>1, <2>2 DEF JobOk, RowOk, ItemRow, Readable
    <3>3. /\ work'[w].pc = "classify" /\ work'[w].item = work[w].item
          /\ work'[w].row = r /\ work'[w].text = TRUE
      BY <2>1, <3>1, NextJob
    <3> QED
      BY <3>2, <3>3 DEF JobOk
  <2>3. CASE work[w].item \notin TextItems
    <3> DEFINE r == [work[w].row EXCEPT !.extractions = @ \cup {}]
    <3>0. (work[w].item \in TextItems) = FALSE
      BY <2>3
    <3>1. GotoText(w, FALSE, {})
      BY <1>7, <3>0, Zenon DEF Passthrough
    <3>2. RowOk(work[w].item, r)
      BY <1>a, <1>b, <2>1 DEF JobOk, RowOk, ItemRow
    <3>3. /\ work'[w].pc = "classify" /\ work'[w].item = work[w].item
          /\ work'[w].row = r /\ work'[w].text = FALSE
      BY <2>1, <3>1, NextJob
    <3> QED
      BY <2>1, <2>3, <3>2, <3>3 DEF JobOk, Readable
  <2> QED
    BY <2>2, <2>3
<1>8. CASE NothingToClassify(w)
  <2>1. Busy(w) /\ work[w].item \notin Readable
    BY <1>8, <1>a DEF NothingToClassify, Busy, JobOk
  <2> DEFINE r == [work[w].row EXCEPT !.tags = @ \cup {"unclassified"}]
  <2>2. RowOk(work[w].item, r) /\ Settled(r)
    BY <1>a, <1>b, <2>1 DEF JobOk, RowOk, ItemRow, Settled
  <2>3. work'[w].pc = "commit" /\ work'[w].item = work[w].item /\ work'[w].row = r
    BY <1>8, <2>1, NextJob DEF NothingToClassify
  <2> QED
    BY <2>2, <2>3 DEF JobOk
<1>9. CASE Embed(w)
  <2>1. Busy(w) /\ work[w].row.extractions # {}
    BY <1>9, <1>a DEF Embed, Busy, JobOk
  <2> DEFINE r == [work[w].row EXCEPT !.embedded = TRUE]
  <2>2. RowOk(work[w].item, r) /\ r.embedded /\ r.extractions # {}
    BY <1>a, <1>b, <2>1 DEF JobOk, RowOk, ItemRow
  <2>3. work'[w].pc = "llm" /\ work'[w].item = work[w].item /\ work'[w].row = r
    BY <1>9, <2>1, NextJob DEF Embed
  <2> QED
    BY <2>2, <2>3 DEF JobOk
<1>10. CASE Classify(w)
  <2>1. Busy(w) /\ work[w].row.embedded /\ work[w].row.extractions # {}
    BY <1>10, <1>a DEF Classify, Busy, JobOk
  <2>2. PICK t \in {{}, {"llm"}} :
          GotoWith(w, "commit", [work[w].row EXCEPT !.tags = @ \cup t])
    BY <1>10 DEF Classify
  <2> DEFINE r == [work[w].row EXCEPT !.tags = @ \cup t]
  <2>3. RowOk(work[w].item, r) /\ Settled(r)
    BY <1>a, <1>b, <2>1, <2>2 DEF JobOk, RowOk, ItemRow, Settled
  <2>4. work'[w].pc = "commit" /\ work'[w].item = work[w].item /\ work'[w].row = r
    BY <2>1, <2>2, NextJob
  <2> QED
    BY <2>3, <2>4 DEF JobOk
<1>11. CASE ClassificationFails(w)
  <2>1. Busy(w)
    BY <1>11 DEF ClassificationFails, Busy
  <2> DEFINE r == [[work[w].row EXCEPT !.tags = @ \cup {"unclassified"}]
                      EXCEPT !.failures = @ \cup {"classification"}]
  <2>2. GotoWith(w, "commit", r)
    BY <1>11 DEF ClassificationFails, Degrade, PipelineStages
  <2>3. RowOk(work[w].item, r) /\ Settled(r)
    BY <1>a, <1>b, <2>1, DegradedRowOk DEF JobOk
  <2> HIDE DEF r
  <2>4. work'[w].pc = "commit" /\ work'[w].item = work[w].item /\ work'[w].row = r
    BY <2>1, <2>2, NextJob
  <2> QED
    BY <2>3, <2>4 DEF JobOk
<1>12. CASE CommitJob(w)
  BY <1>a, <1>12, NextJob DEF CommitJob, Busy, JobOk
<1>13. CASE FinishJob(w)
  BY <1>13, IdleOk DEF FinishJob, Release
<1>14. CASE JobRaises(w) \/ WorkerDies(w)
  BY <1>14, <1>c DEF JobRaises, WorkerDies
<1> QED
  BY <1>1, <1>2, <1>3, <1>4, <1>5, <1>6, <1>7, <1>8, <1>9, <1>10, <1>11, <1>12,
     <1>13, <1>14 DEF WorkStep, WorkProgress

\* The step that makes a job's writes visible is the only way to its end.
LEMMA OnlyCommitsFinish ==
    ASSUME TypeOK, NEW w \in Workers, WorkStep(w), ~CommitJob(w)
    PROVE  work'[w].pc # "finish"
<1> USE DEF TypeOK, StoreTypeOK, WorkTypeOK
<1>1. Release(w) => work'[w].pc # "finish"
  BY DEF Release, IdleWorker
<1>2. ASSUME Busy(w), NEW pc, pc # "finish",
             Goto(w, pc) \/ \E row : GotoWith(w, pc, row)
      PROVE  work'[w].pc # "finish"
  BY <1>2, NextJob
<1>3. ASSUME Busy(w), NEW text, NEW x, GotoText(w, text, x)
      PROVE  work'[w].pc # "finish"
  BY <1>3, NextJob
<1>4. CASE Claim(w)
  BY <1>4 DEF Claim
<1>5. CASE Load(w) \/ SkipMedia(w) \/ FetchMedia(w)
  BY <1>1, <1>2, <1>5 DEF Load, SkipMedia, FetchMedia, FailJob, Busy
<1>6. CASE MediaFetchFails(w) \/ ArticleFails(w)
  BY <1>1, <1>6
     DEF MediaFetchFails, ArticleFails, Degrade, PipelineStages, FailJob
<1>7. CASE ExtractArticle(w)
  BY <1>3, <1>7 DEF ExtractArticle, Busy
<1>8. CASE Passthrough(w)
  <2>1. Busy(w)
    BY <1>8 DEF Passthrough, Busy
  <2>2. \E text, x : GotoText(w, text, x)
    BY <1>8, Zenon DEF Passthrough
  <2> QED
    BY <1>3, <2>1, <2>2
<1>9. CASE NothingToClassify(w) \/ Embed(w) \/ Classify(w)
  BY <1>2, <1>9 DEF NothingToClassify, Embed, Classify, Busy
<1>10. CASE ClassificationFails(w)
  BY <1>2, <1>10 DEF ClassificationFails, Degrade, PipelineStages, Busy
<1>11. CASE FinishJob(w) \/ JobRaises(w) \/ WorkerDies(w)
  BY <1>1, <1>11 DEF FinishJob, JobRaises, WorkerDies, FailJob
<1> QED
  BY <1>4, <1>5, <1>6, <1>7, <1>8, <1>9, <1>10, <1>11 DEF WorkStep, WorkProgress

LEMMA WorkerKeepsRecords ==
    ASSUME TypeOK, JobsPlaced, RecordsInv, NEW w \in Workers, WorkStep(w)
    PROVE  RecordsInv'
<1> USE DEF TypeOK, StoreTypeOK, WorkTypeOK
<1>1. \A v \in Workers : JobOk(work'[v])
  BY WorkerStep, WorkerKeepsItsJob DEF RecordsInv
<1>2. rows' = rows /\ (db' = db \/ CommitJob(w))
  BY WorkerStep
     DEF WorkStep, WorkProgress, Claim, Load, SkipMedia, FetchMedia, MediaFetchFails,
         ExtractArticle, ArticleFails, Passthrough, NothingToClassify, Embed, Classify,
         ClassificationFails, FinishJob, JobRaises, WorkerDies, storeVars
<1>3. CASE ~CommitJob(w)
  <2>1. \A i \in finished' : Settled(db'[i])
    <3>1. finished' = finished \/ FinishJob(w)
      BY DEF WorkStep, WorkProgress, Claim, Load, SkipMedia, FetchMedia, MediaFetchFails,
             ExtractArticle, ArticleFails, Passthrough, NothingToClassify, Embed, Classify,
             ClassificationFails, CommitJob, JobRaises, WorkerDies, storeVars
    <3> QED
      BY <1>2, <1>3, <3>1 DEF FinishJob, RecordsInv
  <2>2. work'[w].pc # "finish"
    BY <1>3, OnlyCommitsFinish
  <2>3. \A v \in Workers : work'[v].pc = "finish" => work'[v] = work[v]
    BY <2>2, WorkerStep
  <2> QED
    BY <1>1, <1>2, <1>3, <2>1, <2>3 DEF RecordsInv
<1>4. CASE CommitJob(w)
  <2>1. /\ Busy(w) /\ work[w] \in JobState /\ finished' = finished
        /\ db' = [db EXCEPT ![work[w].item] = work[w].row]
        /\ work'[w].item = work[w].item
    BY <1>4, NextJob DEF CommitJob, Busy
  <2>2. RowOk(work[w].item, work[w].row) /\ Settled(work[w].row)
    BY <1>4 DEF RecordsInv, JobOk, CommitJob
  <2>3. work[w].item \in rows /\ work[w].item \in Items
    BY <2>1 DEF JobsPlaced, JobState
  <2>4. ASSUME NEW i \in Items
        PROVE  /\ RowOk(i, db'[i]) /\ (db'[i].tags # {} => i \in rows')
               /\ Settled(db[i]) => Settled(db'[i])
    BY <1>2, <2>1, <2>2, <2>3 DEF RecordsInv
  <2>5. \A i \in finished' : Settled(db'[i])
    BY <2>1, <2>4 DEF RecordsInv
  <2>6. ASSUME NEW v \in Workers, work'[v].pc = "finish"
        PROVE  Settled(db'[work'[v].item])
    <3>1. CASE v = w
      BY <2>1, <2>2, <2>3, <3>1
    <3>2. CASE v # w
      <4>1. work'[v] = work[v] /\ Busy(v)
        BY <2>6, <3>2, WorkerStep DEF Busy
      <4>2. work[v].item \in Items /\ Settled(db[work[v].item])
        BY <2>6, <4>1, NextJob DEF RecordsInv, JobState
      <4> QED
        BY <2>4, <4>1, <4>2
    <3> QED
      BY <3>1, <3>2
  <2> QED
    BY <1>1, <2>4, <2>5, <2>6 DEF RecordsInv
<1> QED
  BY <1>2, <1>3, <1>4

(***************************************************************************)
(* The theorems.                                                           *)
(***************************************************************************)

LEMMA RecordsInit == Init => RecordsInv
BY BareRowOk, IdleOk
   DEF Init, StoreInit, WorkInit, RecordsInv, BareRow, IdleWorker

LEMMA RecordsStep == SafetyInv /\ RecordsInv /\ [Next]_vars => RecordsInv'
<1> SUFFICES ASSUME SafetyInv, RecordsInv, [Next]_vars PROVE RecordsInv'
  OBVIOUS
<1>1. TypeOK /\ JobsPlaced
  BY JobsPlacedSuffices DEF SafetyInv
<1>2. ASSUME NEW h \in Ingesters, IngestStep(h), UNCHANGED workVars
      PROVE  RecordsInv'
  <2>1. rows \subseteq rows' /\ UNCHANGED <<db, work, finished>>
    BY <1>1, <1>2, ProducerStep
       DEF TakesBatch, Inserts, Commits, Pushes, Stops, SeesFailure, workVars
  <2> QED
    BY <2>1 DEF RecordsInv
<1>3. ASSUME NEW w \in Workers, WorkStep(w)
      PROVE  RecordsInv'
  BY <1>1, <1>3, WorkerKeepsRecords
<1>4. CASE \E f \in failed : Requeue(f) /\ UNCHANGED ingestVars
  BY <1>4 DEF Requeue, RecordsInv
<1>5. CASE UNCHANGED vars
  BY <1>5 DEF vars, storeVars, workVars, RecordsInv
<1> QED
  BY <1>2, <1>3, <1>4, <1>5 DEF Next, Quiescent

\* Rows are in order in every reachable state, committed and uncommitted.
THEOREM RecordsInvariant == Spec => []RecordsInv
BY RecordsInit, RecordsStep, Safety, PTL DEF Spec

\* A model's tag has its extraction and its embedding, and no tag is on an
\* item without a row, whatever was rolled back, requeued or rerun.
THEOREM TagsNeverOutrun == Spec => []TagsHaveEvidence
<1>1. RecordsInv => TagsHaveEvidence
  BY DEF RecordsInv, RowOk, TagsHaveEvidence
<1> QED
  BY <1>1, RecordsInvariant, PTL

\* Of an item whose job succeeded the inbox tells the truth, through reruns.
THEOREM InboxTellsTheTruth == Spec => []InboxExplains
<1>1. TypeOK /\ RecordsInv => InboxExplains
  <2> SUFFICES ASSUME TypeOK, RecordsInv, NEW i \in finished
               PROVE  /\ InboxStatus(i) \in {"failed", "nothing to classify"} =>
                            "unclassified" \in db[i].tags
                      /\ InboxStatus(i) = "pending" => db[i].tags = {} /\ db[i].embedded
    BY DEF InboxExplains
  <2>1. i \in Items /\ db[i] \in ItemRow
    BY DEF TypeOK, StoreTypeOK
  <2>2. RowOk(i, db[i]) /\ Settled(db[i])
    BY <2>1 DEF RecordsInv
  <2>3. db[i].tags \subseteq {"unclassified", "llm"}
    BY <2>1 DEF ItemRow, TagMarks
  <2> QED
    BY <2>2, <2>3 DEF InboxStatus, RowOk, Settled
<1> QED
  BY <1>1, RecordsInvariant, TypeCorrect, PTL

\* A placeholder on an item that has text is explained by a failure row.
THEOREM OutagesAreVisible == Spec => []DegradedIsVisible
<1>1. RecordsInv => DegradedIsVisible
  BY DEF RecordsInv, RowOk, DegradedIsVisible
<1> QED
  BY <1>1, RecordsInvariant, PTL

(***************************************************************************)
(* Producers and workers together implement the item lifecycle.            *)
(***************************************************************************)

\* The items whose job has committed and not yet been recorded by RQ.
Published == {work[w].item : w \in {v \in Workers : work[v].pc = "finish"}}

\* The abstract stage of an item, from the sets it is in.
Place(i) ==
    IF i \in finished THEN "finished"
    ELSE IF i \in FailedItems THEN "failed"
    ELSE IF i \in Published THEN "published"
    ELSE IF i \in Active THEN "running"
    ELSE IF i \in Queued THEN "queued"
    ELSE IF i \in rows THEN "stored"
    ELSE "unknown"

StageMap == [i \in Items |-> Stage(i)]

PlacesAgree == \A i \in Items : Stage(i) = Place(i)

LEMMA StageIsPlace == TypeOK => PlacesAgree
<1> SUFFICES ASSUME TypeOK, NEW i \in Items PROVE Stage(i) = Place(i)
  BY DEF PlacesAgree
<1>1. (\E w \in Workers : HasJob(w, i) /\ work[w].pc = "finish") <=> i \in Published
  BY DEF Published, HasJob
<1>2. Running(i) <=> i \in Active
  <2>1. ASSUME NEW w \in Workers, work[w].item = i PROVE Busy(w)
    <3>1. work[w] \in WorkState
      BY DEF TypeOK, WorkTypeOK
    <3>2. work[w] # IdleWorker
      BY <2>1, WorkersAssumption DEF IdleWorker
    <3> QED
      BY <3>1, <3>2 DEF WorkState, JobState, Busy
  <2> QED
    BY <2>1 DEF Running, HasJob, Active
<1> QED
  BY <1>1, <1>2 DEF Stage, Place

\* One item moved: the abstract state changes at that item only.
LEMMA OneMoves ==
    ASSUME TypeOK, TypeOK', NEW i \in Items, NEW from, Place(i) \in from,
           \A j \in Items \ {i} : Place(j)' = Place(j)
    PROVE  StageMap[i] \in from /\ StageMap' = [StageMap EXCEPT ![i] = Place(i)']
<1>1. PlacesAgree
  BY StageIsPlace
<1>2. TypeOK' => PlacesAgree'
  BY StageIsPlace, PTL
<1> QED
  BY <1>1, <1>2 DEF StageMap, PlacesAgree

LEMMA NoneMoves ==
    ASSUME TypeOK, TypeOK', \A j \in Items : Place(j)' = Place(j)
    PROVE  StageMap' = StageMap
<1>1. PlacesAgree
  BY StageIsPlace
<1>2. TypeOK' => PlacesAgree'
  BY StageIsPlace, PTL
<1> QED
  BY <1>1, <1>2 DEF StageMap, PlacesAgree

LifeStep == \/ \E batch \in SUBSET Items : Life!Store(batch)
            \/ \E i \in Items : \/ Life!Enqueue(i) \/ Life!Start(i) \/ Life!Publish(i)
                                \/ Life!Finish(i) \/ Life!Fail(i) \/ Life!Retry(i)
            \/ UNCHANGED Life!vars

(***************************************************************************)
(* Each kind of step maps to a step of the lifecycle or to none.           *)
(***************************************************************************)

LEMMA ProducerMaps ==
    ASSUME SafetyInv, SafetyInv', JobsInv, NEW h \in Ingesters, IngestStep(h),
           UNCHANGED workVars
    PROVE  LifeStep
<1> USE DEF TypeOK, StoreTypeOK
<1>1. TypeOK /\ TypeOK' /\ KeysHeldOnce /\ JobsApart /\ JobsPlaced
  BY JobsPlacedSuffices DEF SafetyInv, JobsInv
<1>2. /\ db' = db /\ FailedItems' = FailedItems /\ finished' = finished
      /\ Active' = Active /\ Published' = Published
  BY <1>1, ProducerStep DEF FailedItems, workVars, Active, Busy, Published
<1>3. /\ Queued \subseteq rows /\ Active \subseteq rows /\ FailedItems \subseteq rows
      /\ finished \subseteq rows /\ Owed(h) \subseteq rows
  BY <1>1 DEF JobsPlaced, Active, FailedItems
<1>a. Published \subseteq Active
  BY DEF Published, Active, Busy
<1>4. CASE rows' = rows /\ queue' = queue
  <2>1. \A j \in Items : Place(j)' = Place(j)
    BY <1>2, <1>4 DEF Place, Queued
  <2> QED
    BY <1>1, <1>2, <2>1, NoneMoves DEF LifeStep, Life!vars, StageMap
<1>5. CASE rows' = rows \cup Inserting(h) /\ queue' = queue
  <2> DEFINE batch == Inserting(h)
  <2>1. batch \cap rows = {} /\ batch \subseteq Items
    BY <1>1, <1>5 DEF KeysHeldOnce
  <2>2. \A j \in batch : Place(j) = "unknown" /\ Place(j)' = "stored"
    <3> TAKE j \in batch
    <3>1. j \notin rows
      BY <2>1
    <3>2. j \notin Queued \cup Active \cup FailedItems \cup finished \cup Published
      BY <1>3, <1>a, <3>1
    <3>3. Queued' = Queued
      BY <1>5 DEF Queued
    <3> QED
      BY <1>2, <1>5, <3>1, <3>2, <3>3 DEF Place
  <2>3. \A j \in Items \ batch : Place(j)' = Place(j)
    BY <1>2, <1>5 DEF Place, Queued
  <2>4. PlacesAgree
    BY <1>1, StageIsPlace
  <2>5. TypeOK' => PlacesAgree'
    BY StageIsPlace, PTL
  <2> HIDE DEF batch
  <2>6. /\ \A j \in batch : StageMap[j] = "unknown"
        /\ StageMap' = [j \in Items |-> IF j \in batch THEN "stored" ELSE StageMap[j]]
    BY <1>1, <2>1, <2>2, <2>3, <2>4, <2>5 DEF StageMap, PlacesAgree
  <2>7. Life!Store(batch)
    BY <1>2, <2>6 DEF Life!Store, StageMap
  <2> QED
    BY <2>1, <2>7 DEF LifeStep
<1>6. ASSUME rows' = rows, NEW i \in Owed(h) \cap Items, queue' = Append(queue, i)
      PROVE  LifeStep
  <2>1. Queued' = Queued \cup {i}
    BY <1>6, SeqRanges, <1>1 DEF Queued
  <2>2. i \in rows /\ i \notin Queued \cup Active \cup FailedItems \cup finished
    BY <1>1, <1>3 DEF JobsApart
  <2>3. Place(i) = "stored" /\ Place(i)' = "queued"
    BY <1>2, <1>a, <2>1, <2>2 DEF Place
  <2>4. \A j \in Items \ {i} : Place(j)' = Place(j)
    BY <1>2, <1>6, <2>1 DEF Place
  <2>5. StageMap[i] \in {"stored"} /\ StageMap' = [StageMap EXCEPT ![i] = "queued"]
    BY <1>1, <2>3, <2>4, OneMoves
  <2>6. Life!Enqueue(i)
    BY <1>2, <2>5 DEF Life!Enqueue, Life!Move, StageMap
  <2> QED
    BY <2>6 DEF LifeStep
<1> QED
  BY <1>1, <1>4, <1>5, <1>6, ProducerMoves

LEMMA WorkerMaps ==
    ASSUME SafetyInv, SafetyInv', JobsInv, JobsInv', NEW w \in Workers, WorkStep(w),
           UNCHANGED ingestVars
    PROVE  LifeStep
<1> USE DEF TypeOK, StoreTypeOK, WorkTypeOK
<1>1. TypeOK /\ TypeOK' /\ JobsApart /\ JobsApart'
  BY DEF SafetyInv, JobsInv
<1>2. /\ rows' = rows
      /\ \A v \in Workers \ {w} : work'[v] = work[v] /\ (Busy(v)' <=> Busy(v))
  BY <1>1, WorkerStep DEF Busy
<1>3. Busy(w) => work[w] \in JobState /\ work[w].item \in Items /\ work[w].row \in ItemRow
  BY <1>1, NextJob DEF JobState
<1>4. work'[w].item \in Items => Busy(w)'
  <2>1. work'[w] \in WorkState
    BY <1>1, WorkerStep
  <2>2. work'[w] = IdleWorker => work'[w].item \notin Items
    BY WorkersAssumption DEF IdleWorker
  <2>3. work'[w] \in JobState => Busy(w)'
    BY DEF JobState, Busy
  <2> QED
    BY <2>1, <2>2, <2>3 DEF WorkState
\* What other workers hold does not change, and is not what this one holds.
<1>5. ASSUME NEW j, j # work[w].item \/ ~Busy(w), j # work'[w].item \/ ~Busy(w)'
      PROVE  (j \in Active' <=> j \in Active) /\ (j \in Published' <=> j \in Published)
  <2>1. j \in Active' <=> j \in Active
    BY <1>2, <1>5 DEF Active
  <2>2. j \in Published' <=> j \in Published
    BY <1>2, <1>5 DEF Published, Busy
  <2> QED
    BY <2>1, <2>2
<1>6. Busy(w) => (work[w].item \in Published <=> work[w].pc = "finish")
  BY <1>1 DEF Published, Busy, JobsApart
<1>7. Busy(w)' => (work'[w].item \in Published' <=> work'[w].pc = "finish")
  BY <1>1 DEF Published, Busy, JobsApart
<1>8. (Busy(w) => work[w].item \in Active) /\ (Busy(w)' => work'[w].item \in Active')
  BY DEF Active
<1>9. work[w].pc = "finish" => FinishJob(w) \/ WorkerDies(w)
  BY DEF WorkStep, WorkProgress, Claim, Load, SkipMedia, FetchMedia, MediaFetchFails,
         ExtractArticle, ArticleFails, Passthrough, NothingToClassify, Embed, Classify,
         ClassificationFails, CommitJob, JobRaises, InJob, Busy
<1>10. CASE TakesJob(w)
  <2>0. PICK i \in Items : i = Head(queue)
    BY <1>1, <1>10, SeqRanges DEF TakesJob
  <2>1. /\ i \in Items /\ Range(queue) = {i} \cup Range(Tail(queue))
        /\ i \notin Range(Tail(queue))
    BY <1>1, <1>10, <2>0, SeqRanges, Distinct DEF TakesJob, JobsApart
  <2>2. i \in Queued /\ Queued' = Queued \ {i}
    BY <1>10, <2>1 DEF TakesJob, Queued
  <2>3. i \notin Active \cup FailedItems \cup finished
    BY <1>1, <2>2 DEF JobsApart
  <2>4. /\ work'[w].item = i /\ ~Busy(w) /\ db' = db
        /\ FailedItems' = FailedItems /\ finished' = finished
    BY <1>10, <2>0 DEF TakesJob, FailedItems
  <2>5. Busy(w)' /\ work'[w].pc # "finish"
    <3>1. ~CommitJob(w)
      BY <2>4 DEF CommitJob, Busy
    <3> QED
      BY <1>1, <1>4, <2>1, <2>4, <3>1, OnlyCommitsFinish
  <2>6. i \in Active' /\ i \notin Published'
    BY <1>7, <1>8, <2>4, <2>5
  <2>7. i \notin Published
    BY <2>3 DEF Published, Active, Busy
  <2>8. Place(i) = "queued" /\ Place(i)' = "running"
    BY <1>2, <2>2, <2>3, <2>4, <2>6, <2>7 DEF Place
  <2>9. \A j \in Items \ {i} : Place(j)' = Place(j)
    <3> TAKE j \in Items \ {i}
    <3>1. (j \in Active' <=> j \in Active) /\ (j \in Published' <=> j \in Published)
      BY <1>5, <2>4
    <3> QED
      BY <1>2, <2>2, <2>4, <3>1 DEF Place
  <2>10. StageMap[i] \in {"queued"} /\ StageMap' = [StageMap EXCEPT ![i] = "running"]
    BY <1>1, <2>1, <2>8, <2>9, OneMoves
  <2>11. Life!Start(i)
    BY <2>4, <2>10 DEF Life!Start, Life!Move, StageMap
  <2> QED
    BY <2>1, <2>11 DEF LifeStep
<1>11. CASE Busy(w) /\ CommitJob(w)
  <2>0. PICK i \in Items : i = work[w].item
    BY <1>3, <1>11
  <2>1. /\ i \in Items /\ work'[w].item = i /\ work'[w].pc = "finish"
        /\ work[w].pc = "commit" /\ Busy(w)'
        /\ db' = [db EXCEPT ![i] = work[w].row] /\ work[w].row \in ItemRow
    BY <1>1, <1>3, <1>11, <2>0, NextJob DEF CommitJob, Busy
  <2>2. /\ FailedItems' = FailedItems /\ finished' = finished /\ Queued' = Queued
    BY <1>11 DEF CommitJob, FailedItems, Queued
  <2>3. /\ i \in Active /\ i \notin Published /\ i \in Published'
        /\ i \notin FailedItems \cup finished
    BY <1>1, <1>6, <1>7, <1>8, <1>11, <2>0, <2>1 DEF JobsApart
  <2>4. Place(i) = "running" /\ Place(i)' = "published"
    BY <2>2, <2>3 DEF Place
  <2>5. \A j \in Items \ {i} : Place(j)' = Place(j)
    <3> TAKE j \in Items \ {i}
    <3>1. (j \in Active' <=> j \in Active) /\ (j \in Published' <=> j \in Published)
      BY <1>5, <2>0, <2>1
    <3> QED
      BY <1>2, <2>2, <3>1 DEF Place
  <2>6. StageMap[i] \in {"running"} /\ StageMap' = [StageMap EXCEPT ![i] = "published"]
    BY <1>1, <2>1, <2>4, <2>5, OneMoves
  <2>7. Life!Publish(i)
    BY <2>1, <2>6 DEF Life!Publish, Life!Move, StageMap
  <2> QED
    BY <2>1, <2>7 DEF LifeStep
<1>12. CASE MovesOn(w) /\ ~CommitJob(w)
  <2>1. /\ Busy(w) /\ work'[w].item = work[w].item /\ Busy(w)'
        /\ db' = db /\ queue' = queue /\ failed' = failed /\ finished' = finished
    BY <1>3, <1>4, <1>12 DEF MovesOn
  <2>2. work'[w].pc # "finish" /\ work[w].pc # "finish"
    <3>1. work'[w].pc # "finish"
      BY <1>1, <1>12, OnlyCommitsFinish
    <3>2. FinishJob(w) \/ WorkerDies(w) => ~Busy(w)'
      BY <1>1 DEF FinishJob, WorkerDies, FailJob, Release, Busy, IdleWorker
    <3> QED
      BY <1>9, <2>1, <3>1, <3>2
  <2>3. \A j \in Items : Place(j)' = Place(j)
    <3> TAKE j \in Items
    <3>1. (j \in Active' <=> j \in Active) /\ (j \in Published' <=> j \in Published)
      <4>1. CASE j # work[w].item
        BY <1>5, <2>1, <4>1
      <4>2. CASE j = work[w].item
        BY <1>6, <1>7, <1>8, <2>1, <2>2, <4>2
      <4> QED
        BY <4>1, <4>2
    <3> QED
      BY <1>2, <2>1, <3>1 DEF Place, FailedItems, Queued
  <2>4. StageMap' = StageMap
    BY <1>1, <2>3, NoneMoves
  <2> QED
    BY <2>1, <2>4 DEF LifeStep, Life!vars, StageMap
<1>13. CASE EndsJob(w)
  <2>0. PICK i \in Items : i = work[w].item
    BY <1>3, <1>13 DEF EndsJob
  <2>1. /\ Busy(w) /\ ~Busy(w)' /\ i \in Items /\ db' = db /\ queue' = queue
    BY <1>3, <1>13 DEF EndsJob, Busy, IdleWorker
  <2>2. i \in Active /\ i \notin FailedItems \cup finished
    BY <1>1, <1>8, <2>0, <2>1 DEF JobsApart
  <2>3. \A j \in Items \ {i} : (j \in Active' <=> j \in Active)
                               /\ (j \in Published' <=> j \in Published)
    BY <1>5, <2>0, <2>1
  <2>4. Queued' = Queued
    BY <2>1 DEF Queued
  <2>5. CASE finished' = finished \cup {i} /\ failed' = failed
    <3>1. i \notin finished /\ finished' # finished
      BY <2>2, <2>5
    <3>2. FinishJob(w)
      BY <3>1
         DEF WorkStep, WorkProgress, Claim, Load, SkipMedia, FetchMedia, MediaFetchFails,
             ExtractArticle, ArticleFails, Passthrough, NothingToClassify, Embed, Classify,
             ClassificationFails, CommitJob, JobRaises, WorkerDies, storeVars
    <3>3. i \in Published
      BY <1>6, <2>0, <2>1, <3>2 DEF FinishJob
    <3>4. FailedItems' = FailedItems
      BY <2>5 DEF FailedItems
    <3>5. Place(i) = "published" /\ Place(i)' = "finished"
      BY <2>2, <2>5, <3>3 DEF Place
    <3>6. \A j \in Items \ {i} : Place(j)' = Place(j)
      BY <1>2, <2>3, <2>4, <2>5, <3>4 DEF Place
    <3>7. StageMap[i] \in {"published"} /\ StageMap' = [StageMap EXCEPT ![i] = "finished"]
      BY <1>1, <2>1, <3>5, <3>6, OneMoves
    <3>8. Life!Finish(i)
      BY <2>1, <3>7 DEF Life!Finish, Life!Move, StageMap
    <3> QED
      BY <2>1, <3>8 DEF LifeStep
  <2>6. CASE finished' = finished /\ \E c \in Causes :
               failed' = failed \cup {[item |-> i, cause |-> c]}
    <3>1. PICK c \in Causes : failed' = failed \cup {[item |-> i, cause |-> c]}
      BY <2>6
    <3> DEFINE x == [item |-> i, cause |-> c]
    <3>2. x.item = i /\ failed' = failed \cup {x}
      BY <3>1
    <3> HIDE DEF x
    <3>3. FailedItems' = FailedItems \cup {i}
      BY <3>2 DEF FailedItems
    <3>4. Place(i) \in {"running", "published"} /\ Place(i)' = "failed"
      BY <2>2, <2>6, <3>3 DEF Place
    <3>5. \A j \in Items \ {i} : Place(j)' = Place(j)
      BY <1>2, <2>3, <2>4, <2>6, <3>3 DEF Place
    <3>6. /\ StageMap[i] \in {"running", "published"}
          /\ StageMap' = [StageMap EXCEPT ![i] = "failed"]
      BY <1>1, <2>1, <3>4, <3>5, OneMoves
    <3>7. Life!Fail(i)
      BY <2>1, <3>6 DEF Life!Fail, Life!Move, StageMap
    <3> QED
      BY <2>1, <3>7 DEF LifeStep
  <2> QED
    BY <1>13, <2>0, <2>5, <2>6 DEF EndsJob
<1>14. CASE Publishes(w) /\ ~CommitJob(w)
  <2>1. db' = db
    BY <1>14
       DEF WorkStep, WorkProgress, Claim, Load, SkipMedia, FetchMedia, MediaFetchFails,
           ExtractArticle, ArticleFails, Passthrough, NothingToClassify, Embed, Classify,
           ClassificationFails, FinishJob, JobRaises, WorkerDies, storeVars
  <2>2. MovesOn(w)
    <3>1. /\ Busy(w) /\ work'[w].item = work[w].item /\ work'[w].row = work[w].row
          /\ UNCHANGED <<blobs, queue, failed, finished>>
      BY <1>14 DEF Publishes
    <3> QED
      BY <2>1, <3>1 DEF MovesOn
  <2> QED
    BY <1>12, <1>14, <2>2
<1>15. CommitJob(w) => Busy(w)
  BY DEF CommitJob, Busy
<1> QED
  BY <1>1, <1>10, <1>11, <1>12, <1>13, <1>14, <1>15, WorkerStep

LEMMA RequeueMaps ==
    ASSUME SafetyInv, SafetyInv', JobsInv, NEW f \in failed, Requeue(f)
    PROVE  LifeStep
<1> USE DEF TypeOK, StoreTypeOK
<1> DEFINE i == f.item
<1>1. TypeOK /\ TypeOK' /\ JobsApart
  BY DEF SafetyInv, JobsInv
<1>2. i \in Items /\ i \in FailedItems
  BY <1>1 DEF FailedItems
<1>3. /\ queue' = Append(queue, i) /\ failed' = failed \ {f}
      /\ UNCHANGED <<finished, work, rows, db>>
  BY DEF Requeue
<1>4. FailedItems' = FailedItems \ {i}
  BY <1>1, <1>3 DEF FailedItems, JobsApart
<1>5. Queued' = Queued \cup {i}
  BY <1>1, <1>2, <1>3, SeqRanges DEF Queued
<1>6. Active' = Active /\ Published' = Published
  BY <1>3 DEF Active, Published, Busy
<1>7. i \notin Active \cup Published \cup finished
  <2>1. Published \subseteq Active
    BY DEF Published, Active, Busy
  <2> QED
    BY <1>1, <1>2, <2>1 DEF JobsApart
<1> HIDE DEF i
<1>8. Place(i) = "failed" /\ Place(i)' = "queued"
  BY <1>2, <1>3, <1>4, <1>5, <1>6, <1>7 DEF Place
<1>9. \A j \in Items \ {i} : Place(j)' = Place(j)
  BY <1>3, <1>4, <1>5, <1>6 DEF Place
<1>10. StageMap[i] \in {"failed"} /\ StageMap' = [StageMap EXCEPT ![i] = "queued"]
  BY <1>1, <1>2, <1>8, <1>9, OneMoves
<1>11. Life!Retry(i)
  BY <1>3, <1>10 DEF Life!Retry, Life!Move, StageMap
<1> QED
  BY <1>2, <1>11 DEF LifeStep

(***************************************************************************)
(* The theorem.                                                            *)
(***************************************************************************)

LEMMA LifeInit == Init => Life!Init
<1> SUFFICES ASSUME Init PROVE Life!Init
  OBVIOUS
<1> USE DEF Init, StoreInit, WorkInit
<1>1. /\ finished = {} /\ FailedItems = {} /\ Queued = {} /\ rows = {}
  BY DEF FailedItems, Queued, Range
<1>2. \A w \in Workers : work[w].pc # "finish" /\ work[w].item = NoItem
  BY DEF IdleWorker
<1>3. \A i \in Items : Stage(i) = "unknown"
  BY <1>1, <1>2, WorkersAssumption DEF Stage, Running, HasJob
<1> QED
  BY <1>3 DEF Life!Init

LEMMA StepsMap ==
    SafetyInv /\ SafetyInv' /\ JobsInv /\ JobsInv' /\ [Next]_vars
        => [Life!Next]_(Life!vars)
<1> SUFFICES ASSUME SafetyInv, SafetyInv', JobsInv, JobsInv', [Next]_vars
             PROVE  LifeStep
  BY DEF LifeStep, Life!Next
<1>1. CASE UNCHANGED vars
  <2>1. UNCHANGED <<db, queue, failed, finished, work, rows>>
    BY <1>1 DEF vars, storeVars, workVars
  <2>2. \A j \in Items : Place(j)' = Place(j)
    BY <2>1 DEF Place, Published, Active, Busy, FailedItems, Queued
  <2>3. StageMap' = StageMap
    BY <2>2, NoneMoves DEF SafetyInv
  <2> QED
    BY <2>1, <2>3 DEF LifeStep, Life!vars, StageMap
<1> QED
  BY <1>1, ProducerMaps, WorkerMaps, RequeueMaps DEF Next, Quiescent

\* Producers and workers, their transactions, the queue and its registries
\* implement the lifecycle of an item, faults and requeues included.
THEOREM IngestionImplementsLifecycle == Spec => ImplementsLifecycle
BY LifeInit, StepsMap, Safety, JobsInvariant, PTL DEF Spec, ImplementsLifecycle, Life!Spec

===============================================================================
