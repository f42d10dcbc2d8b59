--------------------------- MODULE CatchmentProofs ----------------------------
(***************************************************************************)
(* Safety of the ingestion path, for every set of items, producers and     *)
(* workers and every bound.                                                *)
(***************************************************************************)
EXTENDS Catchment, TLAPS

USE ItemsAssumption, IngestersAssumption, WorkersAssumption
    DEF ItemsAssumption, IngestersAssumption, WorkersAssumption

(***************************************************************************)
(* Types.                                                                  *)
(***************************************************************************)

\* Every batch a producer can be handed is a sequence of items.
LEMMA BatchesAreSequences ==
    ASSUME NEW h \in Ingesters, NEW b \in Batches(h)
    PROVE  b \in Seq(Items) /\ Range(b) \subseteq Items
<1>1. PICK n \in 0 .. MaxBatch :
        b \in [1 .. n -> {i \in Items : SourceOf[i] = IngesterSource[h]}]
  BY DEF Batches
<1>2. n \in Nat
  BY <1>1
<1>3. b \in [1 .. n -> Items]
  BY <1>1
<1>4. b \in Seq(Items)
  BY <1>2, <1>3
<1> QED
  BY <1>3, <1>4 DEF Range

\* The updates the pipeline makes to an item's row keep it a row.
LEMMA RowUpdates ==
    /\ BareRow \in ItemRow
    /\ \A r \in ItemRow :
         /\ [r EXCEPT !.rawRef = TRUE] \in ItemRow
         /\ [r EXCEPT !.embedded = TRUE] \in ItemRow
         /\ \A x \in SUBSET Extractors : [r EXCEPT !.extractions = @ \cup x] \in ItemRow
         /\ \A t \in SUBSET TagMarks : [r EXCEPT !.tags = @ \cup t] \in ItemRow
         /\ \A s \in PipelineStages : [r EXCEPT !.failures = @ \cup {s}] \in ItemRow
BY DEF ItemRow, BareRow

\* What a worker moves to: another step of the same job, or no job.
LEMMA WorkUpdates ==
    ASSUME work \in [Workers -> WorkState], NEW w \in Workers
    PROVE  /\ IdleWorker \in WorkState
           /\ Busy(w) => work[w] \in JobState
           /\ \A s \in WorkState : [work EXCEPT ![w] = s] \in [Workers -> WorkState]
<1>1. work[w] = IdleWorker => ~Busy(w)
  BY DEF Busy, IdleWorker
<1> QED
  BY <1>1 DEF WorkState

Steps == {"load", "media", "article", "fallback",
          "classify", "llm", "commit", "finish"}

\* A job that moves on is still that job.
LEMMA JobUpdates ==
    ASSUME NEW s \in JobState
    PROVE  /\ s.item \in Items /\ s.row \in ItemRow
           /\ \A pc \in Steps : [s EXCEPT !.pc = pc] \in JobState
           /\ \A pc \in Steps, row \in ItemRow :
                [s EXCEPT !.pc = pc, !.row = row] \in JobState
           /\ \A text \in BOOLEAN, row \in ItemRow :
                [s EXCEPT !.pc = "classify", !.text = text, !.row = row] \in JobState
BY DEF JobState, Steps

LEMMA MovesKeepTypes ==
    ASSUME work \in [Workers -> WorkState], NEW w \in Workers, Busy(w),
           NEW pc \in Steps
    PROVE  /\ work[w].item \in Items
           /\ work[w].row \in ItemRow
           /\ Goto(w, pc) => work' \in [Workers -> WorkState]
           /\ \A row \in ItemRow : GotoWith(w, pc, row) => work' \in [Workers -> WorkState]
           /\ \A text \in BOOLEAN, x \in SUBSET Extractors :
                GotoText(w, text, x) => work' \in [Workers -> WorkState]
           /\ Release(w) => work' \in [Workers -> WorkState]
<1>1. work[w] \in JobState
  BY WorkUpdates
<1>2. /\ work[w].item \in Items
      /\ work[w].row \in ItemRow
  BY <1>1, JobUpdates
<1>3. \A s \in JobState : [work EXCEPT ![w] = s] \in [Workers -> WorkState]
  BY WorkUpdates DEF WorkState
<1>4. Goto(w, pc) => work' \in [Workers -> WorkState]
  BY <1>1, <1>3, JobUpdates DEF Goto
<1>5. ASSUME NEW row \in ItemRow, GotoWith(w, pc, row)
      PROVE  work' \in [Workers -> WorkState]
  BY <1>1, <1>3, <1>5, JobUpdates DEF GotoWith
<1>6. ASSUME NEW text \in BOOLEAN, NEW x \in SUBSET Extractors, GotoText(w, text, x)
      PROVE  work' \in [Workers -> WorkState]
  <2>1. [work[w].row EXCEPT !.extractions = @ \cup x] \in ItemRow
    BY <1>2, RowUpdates
  <2>2. [work[w] EXCEPT !.pc = "classify", !.text = text,
                        !.row = [work[w].row EXCEPT !.extractions = @ \cup x]] \in JobState
    BY <1>1, <2>1, JobUpdates
  <2> QED
    BY <1>3, <1>6, <2>2 DEF GotoText
<1>7. Release(w) => work' \in [Workers -> WorkState]
  BY WorkUpdates DEF Release
<1> QED
  BY <1>2, <1>4, <1>5, <1>6, <1>7

(***************************************************************************)
(* A worker does one of four things.  The invariants are proved from these *)
(* summaries, and only these two lemmas look inside the pipeline's stages. *)
(***************************************************************************)

TakesJob(w) ==
    /\ ~Busy(w)
    /\ queue # <<>>
    /\ queue' = Tail(queue)
    /\ work'[w].item = Head(queue)
    /\ work'[w].row = BareRow
    /\ UNCHANGED <<db, blobs, failed, finished>>

MovesOn(w) ==
    /\ Busy(w)
    /\ work'[w].item = work[w].item
    /\ blobs' = blobs \/ blobs' = blobs \cup {work[w].item}
    /\ work'[w].row.rawRef => \/ work[w].row.rawRef
                              \/ work[w].item \in blobs'
                              \/ db[work[w].item].rawRef
    /\ UNCHANGED <<db, queue, failed, finished>>

Publishes(w) ==
    /\ Busy(w)
    /\ db' = [db EXCEPT ![work[w].item] = work[w].row]
    /\ work'[w].item = work[w].item
    /\ work'[w].row = work[w].row
    /\ UNCHANGED <<blobs, queue, failed, finished>>

EndsJob(w) ==
    /\ Busy(w)
    /\ work'[w] = IdleWorker
    /\ UNCHANGED <<db, blobs, queue>>
    /\ \/ finished' = finished \cup {work[w].item} /\ UNCHANGED failed
       \/ /\ \E c \in Causes :
               /\ failed' = failed \cup {[item |-> work[w].item, cause |-> c]}
               /\ c = "LookupError" => work[w].item \notin rows
          /\ UNCHANGED finished

\* A job that fails is filed under its cause.
LEMMA FailingEndsJob ==
    ASSUME work \in [Workers -> WorkState], NEW w \in Workers, Busy(w),
           NEW c \in Causes, c = "LookupError" => work[w].item \notin rows,
           FailJob(w, c), UNCHANGED <<db, blobs, queue, finished>>
    PROVE  EndsJob(w) /\ work' \in [Workers -> WorkState]
<1>1. work' \in [Workers -> WorkState]
  BY MovesKeepTypes DEF FailJob, Steps
<1>2. work'[w] = IdleWorker
  BY DEF FailJob, Release
<1> QED
  BY <1>1, <1>2 DEF FailJob, EndsJob

\* A degraded stage either leaves its failure row or fails the job.
LEMMA DegradingMovesOrEnds ==
    ASSUME work \in [Workers -> WorkState], NEW w \in Workers, Busy(w),
           NEW stage, NEW pc \in Steps, NEW row \in ItemRow,
           row.rawRef = work[w].row.rawRef,
           Degrade(w, stage, pc, row), UNCHANGED <<db, blobs, queue, finished>>
    PROVE  (MovesOn(w) \/ EndsJob(w)) /\ work' \in [Workers -> WorkState]
<1>1. CASE stage \in PipelineStages
  <2> DEFINE row2 == [row EXCEPT !.failures = @ \cup {stage}]
  <2>1. row2 \in ItemRow
    BY <1>1, RowUpdates
  <2>2. row2.rawRef = work[w].row.rawRef
    BY DEF ItemRow
  <2>3. GotoWith(w, pc, row2) /\ UNCHANGED failed
    BY <1>1 DEF Degrade
  <2> HIDE DEF row2
  <2>4. work' \in [Workers -> WorkState]
    BY <2>1, <2>3, MovesKeepTypes
  <2>5. work[w] \in JobState
    BY WorkUpdates
  <2>6. work'[w].item = work[w].item /\ work'[w].row = row2
    BY <2>3, <2>5 DEF GotoWith, JobState
  <2> QED
    BY <2>2, <2>3, <2>4, <2>6 DEF MovesOn
<1>2. CASE stage \notin PipelineStages
  <2>1. FailJob(w, "IntegrityError")
    BY <1>2 DEF Degrade
  <2> QED
    BY <2>1, FailingEndsJob DEF Causes
<1> QED
  BY <1>1, <1>2

LEMMA MovingOn ==
    ASSUME work \in [Workers -> WorkState], NEW w \in Workers, Busy(w),
           UNCHANGED <<db, queue, failed, finished>>
    PROVE  /\ \A pc \in Steps :
                Goto(w, pc) /\ UNCHANGED blobs
                  => MovesOn(w) /\ work' \in [Workers -> WorkState]
           /\ \A pc \in Steps, row \in ItemRow :
                /\ GotoWith(w, pc, row)
                /\ blobs' = blobs \/ blobs' = blobs \cup {work[w].item}
                /\ row.rawRef => \/ work[w].row.rawRef
                                 \/ work[w].item \in blobs'
                                 \/ db[work[w].item].rawRef
                => MovesOn(w) /\ work' \in [Workers -> WorkState]
           /\ \A text \in BOOLEAN, x \in SUBSET Extractors :
                GotoText(w, text, x) /\ UNCHANGED blobs
                  => MovesOn(w) /\ work' \in [Workers -> WorkState]
<1>1. work[w] \in JobState
  BY WorkUpdates
<1>2. ASSUME NEW pc \in Steps, Goto(w, pc), UNCHANGED blobs
      PROVE  MovesOn(w) /\ work' \in [Workers -> WorkState]
  <2>1. work'[w].item = work[w].item /\ work'[w].row = work[w].row
    BY <1>1, <1>2 DEF Goto, JobState
  <2> QED
    BY <1>2, <2>1, MovesKeepTypes DEF MovesOn
<1>3. ASSUME NEW pc \in Steps, NEW row \in ItemRow, GotoWith(w, pc, row),
             blobs' = blobs \/ blobs' = blobs \cup {work[w].item},
             row.rawRef => \/ work[w].row.rawRef
                           \/ work[w].item \in blobs'
                           \/ db[work[w].item].rawRef
      PROVE  MovesOn(w) /\ work' \in [Workers -> WorkState]
  <2>1. work'[w].item = work[w].item /\ work'[w].row = row
    BY <1>1, <1>3 DEF GotoWith, JobState
  <2> QED
    BY <1>3, <2>1, MovesKeepTypes DEF MovesOn
<1>4. ASSUME NEW text \in BOOLEAN, NEW x \in SUBSET Extractors, GotoText(w, text, x),
             UNCHANGED blobs
      PROVE  MovesOn(w) /\ work' \in [Workers -> WorkState]
  <2> DEFINE row == [work[w].row EXCEPT !.extractions = @ \cup x]
  <2>1. row.rawRef = work[w].row.rawRef
    BY <1>1 DEF JobState, ItemRow
  <2>2. work' = [work EXCEPT ![w] =
                   [work[w] EXCEPT !.pc = "classify", !.text = text, !.row = row]]
    BY <1>4 DEF GotoText
  <2> HIDE DEF row
  <2>3. work'[w].item = work[w].item /\ work'[w].row = row
    BY <1>1, <2>2 DEF JobState
  <2>4. work' \in [Workers -> WorkState]
    BY <1>4, MovesKeepTypes DEF Steps
  <2> QED
    BY <1>4, <2>1, <2>3, <2>4 DEF MovesOn
<1> QED
  BY <1>2, <1>3, <1>4

\* Every step of a worker is one of the four, and leaves the rest alone.
LEMMA WorkerStep ==
    ASSUME TypeOK, NEW w \in Workers, WorkStep(w)
    PROVE  /\ UNCHANGED <<rows, health, requeues>>
           /\ work' \in [Workers -> WorkState]
           /\ workFaults' \in 0 .. MaxWorkFaults
           /\ \A v \in Workers \ {w} : work'[v] = work[v]
           /\ TakesJob(w) \/ MovesOn(w) \/ Publishes(w) \/ EndsJob(w)
<1> USE DEF TypeOK, StoreTypeOK, WorkTypeOK
<1>a. Busy(w) => work[w].item \in Items /\ work[w].row \in ItemRow
  BY MovesKeepTypes DEF Steps
<1>0. \A i \in Items : db[i] \in ItemRow
  OBVIOUS
<1>1. CASE Claim(w)
  <2>1. Head(queue) \in Items /\ BareRow \in ItemRow
    BY <1>1, RowUpdates DEF Claim
  <2> DEFINE s == [pc |-> "load", item |-> Head(queue), row |-> BareRow, text |-> FALSE]
  <2>2. s \in JobState
    BY <2>1 DEF JobState
  <2>3. work' = [work EXCEPT ![w] = s]
    BY <1>1 DEF Claim
  <2>4. s.item = Head(queue) /\ s.row = BareRow
    OBVIOUS
  <2> HIDE DEF s
  <2>5. work' \in [Workers -> WorkState] /\ work'[w] = s
    BY <2>2, <2>3, WorkUpdates DEF WorkState
  <2>6. \A v \in Workers \ {w} : work'[v] = work[v]
    BY <2>3
  <2> QED
    BY <1>1, <2>4, <2>5, <2>6 DEF Claim, TakesJob
<1>2. ASSUME ~Claim(w)
      PROVE  \A v \in Workers \ {w} : work'[v] = work[v]
  BY <1>2 DEF WorkStep, WorkProgress, Load, SkipMedia, FetchMedia, MediaFetchFails,
       ExtractArticle, ArticleFails, Passthrough, NothingToClassify, Embed, Classify,
       ClassificationFails, CommitJob, FinishJob, JobRaises, WorkerDies,
       Degrade, FailJob, Goto, GotoWith, GotoText, Release
<1>3. CASE Load(w)
  <2>1. Busy(w)
    BY <1>3 DEF Load, Busy
  <2>2. CASE work[w].item \in rows
    <3>1. db[work[w].item] \in ItemRow
      BY <1>a, <2>1
    <3> QED
      BY <1>2, <1>3, <2>1, <2>2, <3>1, MovingOn DEF Load, Claim, Steps
  <2>3. CASE work[w].item \notin rows
    BY <1>2, <1>3, <2>1, <2>3, FailingEndsJob DEF Load, Claim, Causes
  <2> QED
    BY <2>2, <2>3
<1>4. CASE SkipMedia(w)
  BY <1>2, <1>4, MovingOn DEF SkipMedia, Claim, Busy, Steps, storeVars
<1>5. CASE FetchMedia(w)
  <2>1. Busy(w)
    BY <1>5 DEF FetchMedia, Busy
  <2>2. [work[w].row EXCEPT !.rawRef = TRUE] \in ItemRow
    BY <1>a, <2>1, RowUpdates
  <2> QED
    BY <1>2, <1>5, <2>1, <2>2, MovingOn DEF FetchMedia, Claim, Steps
<1>6. CASE MediaFetchFails(w)
  BY <1>a, <1>2, <1>6, DegradingMovesOrEnds DEF MediaFetchFails, Claim, Busy, Steps
<1>7. CASE ExtractArticle(w)
  BY <1>2, <1>7, MovingOn DEF ExtractArticle, Claim, Busy, Extractors, storeVars
<1>8. CASE ArticleFails(w)
  BY <1>a, <1>2, <1>8, DegradingMovesOrEnds DEF ArticleFails, Claim, Busy, Steps
<1>9. CASE Passthrough(w)
  <2>1. Busy(w)
    BY <1>9 DEF Passthrough, Busy
  <2>2. \E text \in BOOLEAN, x \in SUBSET Extractors : GotoText(w, text, x)
    <3> DEFINE given == work[w].item \in TextItems
    <3>1. given \in BOOLEAN /\ (IF given THEN {"passthrough"} ELSE {}) \in SUBSET Extractors
      BY DEF Extractors
    <3>2. GotoText(w, given, IF given THEN {"passthrough"} ELSE {})
      BY <1>9 DEF Passthrough
    <3> QED
      BY <3>1, <3>2
  <2> QED
    BY <1>2, <1>9, <2>1, <2>2, MovingOn DEF Passthrough, Claim, storeVars
<1>10. ASSUME NEW t \in SUBSET TagMarks, Busy(w)
       PROVE  /\ [work[w].row EXCEPT !.tags = @ \cup t] \in ItemRow
              /\ [work[w].row EXCEPT !.tags = @ \cup t].rawRef = work[w].row.rawRef
              /\ [work[w].row EXCEPT !.embedded = TRUE] \in ItemRow
              /\ [work[w].row EXCEPT !.embedded = TRUE].rawRef = work[w].row.rawRef
  BY <1>a, <1>10 DEF ItemRow
<1>11. CASE NothingToClassify(w)
  BY <1>2, <1>10, <1>11, MovingOn
     DEF NothingToClassify, Claim, Busy, Steps, TagMarks, storeVars
<1>12. CASE Embed(w)
  BY <1>2, <1>10, <1>12, MovingOn DEF Embed, Claim, Busy, Steps, storeVars
<1>13. CASE Classify(w)
  BY <1>2, <1>10, <1>13, MovingOn DEF Classify, Claim, Busy, Steps, TagMarks, storeVars
<1>14. CASE ClassificationFails(w)
  BY <1>2, <1>10, <1>14, DegradingMovesOrEnds
     DEF ClassificationFails, Claim, Busy, Steps, TagMarks
<1>15. CASE CommitJob(w)
  <2>1. Busy(w) /\ Goto(w, "finish")
    BY <1>15 DEF CommitJob, Busy
  <2>2. work[w] \in JobState
    BY <2>1, WorkUpdates
  <2>3. work'[w].item = work[w].item /\ work'[w].row = work[w].row
    BY <2>1, <2>2 DEF Goto, JobState
  <2>4. work' \in [Workers -> WorkState]
    BY <2>1, MovesKeepTypes DEF Steps
  <2> QED
    BY <1>2, <1>15, <2>1, <2>3, <2>4 DEF CommitJob, Claim, Publishes
<1>16. CASE FinishJob(w)
  <2>1. Busy(w) /\ Release(w)
    BY <1>16 DEF FinishJob, Busy
  <2>2. work' \in [Workers -> WorkState]
    BY <2>1, MovesKeepTypes DEF Steps
  <2> QED
    BY <1>2, <1>16, <2>1, <2>2 DEF FinishJob, Release, Claim, EndsJob
<1>17. CASE JobRaises(w)
  BY <1>2, <1>17, FailingEndsJob DEF JobRaises, InJob, Claim, Busy, Causes
<1>18. CASE WorkerDies(w)
  BY <1>2, <1>18, FailingEndsJob DEF WorkerDies, Claim, Busy, Causes
<1> QED
  BY <1>1, <1>3, <1>4, <1>5, <1>6, <1>7, <1>8, <1>9, <1>11, <1>12, <1>13, <1>14,
     <1>15, <1>16, <1>17, <1>18 DEF WorkStep, WorkProgress

(***************************************************************************)
(* Producers.                                                              *)
(***************************************************************************)

LEMMA SeqRanges ==
    ASSUME NEW S, NEW s \in Seq(S)
    PROVE  /\ Range(s) \subseteq S
           /\ \A x \in S : Append(s, x) \in Seq(S) /\ Range(Append(s, x)) = Range(s) \cup {x}
           /\ s # <<>> => /\ Head(s) \in S
                          /\ Tail(s) \in Seq(S)
                          /\ Range(s) = {Head(s)} \cup Range(Tail(s))
<1>1. Range(s) \subseteq S
  BY DEF Range
<1>2. ASSUME NEW x \in S
      PROVE  Append(s, x) \in Seq(S) /\ Range(Append(s, x)) = Range(s) \cup {x}
  <2> DEFINE t == Append(s, x)
  <2>1. t \in Seq(S) /\ Len(t) = Len(s) + 1 /\ t[Len(s) + 1] = x
    OBVIOUS
  <2>2. \A k \in 1 .. Len(s) : t[k] = s[k]
    OBVIOUS
  <2>3. DOMAIN t = DOMAIN s \cup {Len(s) + 1}
    OBVIOUS
  <2>4. \A k \in DOMAIN s : t[k] = s[k]
    BY <2>2
  <2> HIDE DEF t
  <2> QED
    BY <2>1, <2>3, <2>4 DEF Range
<1>3. ASSUME s # <<>>
      PROVE  /\ Head(s) \in S /\ Tail(s) \in Seq(S)
             /\ Range(s) = {Head(s)} \cup Range(Tail(s))
  <2>1. Head(s) \in S /\ Tail(s) \in Seq(S) /\ Len(Tail(s)) = Len(s) - 1 /\ Len(s) > 0
    BY <1>3
  <2>2. \A k \in 1 .. Len(s) - 1 : Tail(s)[k] = s[k + 1]
    BY <1>3
  <2>3. Head(s) = s[1]
    BY <1>3
  <2>4. ASSUME NEW y \in Range(s) PROVE y \in {Head(s)} \cup Range(Tail(s))
    <3>1. PICK k \in 1 .. Len(s) : s[k] = y
      BY <2>4 DEF Range
    <3>2. CASE k = 1
      BY <2>3, <3>1, <3>2
    <3>3. CASE k # 1
      <4>1. k - 1 \in 1 .. Len(s) - 1 /\ Tail(s)[k - 1] = y
        BY <2>1, <2>2, <3>1, <3>3
      <4>2. k - 1 \in DOMAIN Tail(s)
        BY <2>1, <4>1
      <4> QED
        BY <4>1, <4>2 DEF Range
    <3> QED
      BY <3>2, <3>3
  <2>5. ASSUME NEW y \in {Head(s)} \cup Range(Tail(s)) PROVE y \in Range(s)
    <3>1. CASE y = Head(s)
      BY <2>1, <2>3, <3>1 DEF Range
    <3>2. CASE y \in Range(Tail(s))
      <4>1. PICK k \in 1 .. Len(s) - 1 : Tail(s)[k] = y
        BY <2>1, <3>2 DEF Range
      <4>2. k + 1 \in 1 .. Len(s) /\ s[k + 1] = y
        BY <2>1, <2>2, <4>1
      <4> QED
        BY <4>2 DEF Range
    <3> QED
      BY <2>5, <3>1, <3>2
  <2> QED
    BY <2>1, <2>4, <2>5
<1> QED
  BY <1>1, <1>2, <1>3

\* One statement, commit or enqueue of a producer keeps `ing` typed.
LEMMA IngUpdates ==
    ASSUME ing \in [Ingesters -> IngesterState], NEW h \in Ingesters
    PROVE  /\ ing[h] \in IngesterState
           /\ ing[h].todo \in Seq(Items) /\ ing[h].created \in Seq(Items)
           /\ ing[h].batch \subseteq Items
           /\ \A s \in IngesterState : /\ [ing EXCEPT ![h] = s] \in [Ingesters -> IngesterState]
                                       /\ [ing EXCEPT ![h] = s][h] = s
           /\ IdleIngester \in IngesterState
           /\ \A t, c \in Seq(Items) :
                [ing[h] EXCEPT !.todo = t, !.created = c] \in IngesterState
           /\ \A c \in Seq(Items) : [ing[h] EXCEPT !.created = c] \in IngesterState
           /\ [ing[h] EXCEPT !.pc = "enqueue"] \in IngesterState
<1>1. ing[h] \in IngesterState
  OBVIOUS
<1>2. IdleIngester \in IngesterState
  BY DEF IdleIngester, IngesterState
<1>3. /\ ing[h].todo \in Seq(Items) /\ ing[h].created \in Seq(Items)
      /\ ing[h].batch \subseteq Items
  BY <1>1 DEF IngesterState
<1>4. /\ \A t, c \in Seq(Items) :
             [ing[h] EXCEPT !.todo = t, !.created = c] \in IngesterState
      /\ \A c \in Seq(Items) : [ing[h] EXCEPT !.created = c] \in IngesterState
      /\ [ing[h] EXCEPT !.pc = "enqueue"] \in IngesterState
  BY <1>1 DEF IngesterState
<1> QED
  BY <1>1, <1>2, <1>3, <1>4

\* What a producer's steps do to its own state and to what others see.
TakesBatch(h) ==
    /\ ing[h].pc = "idle"
    /\ \E b \in Batches(h) :
         ing'[h] = [pc |-> "upsert", todo |-> b, batch |-> Range(b), created |-> <<>>]
    /\ UNCHANGED <<rows, health, queue, acked>>

Inserts(h) ==
    /\ ing[h].pc = "upsert"
    /\ ing[h].todo # <<>>
    /\ ing'[h].pc = "upsert"
    /\ ing'[h].batch = ing[h].batch
    /\ ing'[h].todo = Tail(ing[h].todo)
    /\ \/ ing'[h].created = ing[h].created
          /\ Head(ing[h].todo) \in rows \cup Range(ing[h].created)
       \/ /\ ing'[h].created = Append(ing[h].created, Head(ing[h].todo))
          /\ Head(ing[h].todo) \notin rows \cup Range(ing[h].created)
          /\ \A g \in Ingesters \ {h} : Head(ing[h].todo) \notin Inserting(g)
    /\ UNCHANGED <<rows, health, queue, acked>>

Commits(h) ==
    /\ ing[h].pc = "upsert"
    /\ ing[h].todo = <<>>
    /\ ing'[h].pc = "enqueue"
    /\ ing'[h].todo = ing[h].todo
    /\ ing'[h].batch = ing[h].batch
    /\ ing'[h].created = ing[h].created
    /\ rows' = rows \cup Range(ing[h].created)
    /\ health' = RecordHealth(IngesterSource[h], "success")
    /\ UNCHANGED <<queue, acked>>

Pushes(h) ==
    /\ ing[h].pc = "enqueue"
    /\ ing[h].created # <<>>
    /\ queue' = Append(queue, Head(ing[h].created))
    /\ ing'[h].pc = "enqueue"
    /\ ing'[h].todo = ing[h].todo
    /\ ing'[h].batch = ing[h].batch
    /\ ing'[h].created = Tail(ing[h].created)
    /\ UNCHANGED <<rows, health, acked>>

Stops(h) ==
    /\ ing'[h] = IdleIngester
    /\ ingestFaults' = 0 => Owed(h) = {}
    /\ \/ queue' = queue
       \/ /\ ing[h].pc = "enqueue" /\ ing[h].created # <<>>
          /\ queue' = Append(queue, Head(ing[h].created))
    /\ \/ acked' = acked
       \/ ing[h].pc = "enqueue" /\ acked' = acked \cup ing[h].batch
    /\ UNCHANGED <<rows, health>>

SeesFailure(h) ==
    /\ ing'[h] = ing[h]
    /\ health' = RecordHealth(IngesterSource[h], "failure")
    /\ UNCHANGED <<rows, queue, acked>>

LEMMA ProducerStep ==
    ASSUME TypeOK, NEW h \in Ingesters, IngestStep(h)
    PROVE  /\ UNCHANGED <<db, blobs, failed, finished>>
           /\ ing' \in [Ingesters -> IngesterState]
           /\ deliveries' \in 0 .. MaxDeliveries
           /\ ingestFaults' \in 0 .. MaxIngestFaults
           /\ \A g \in Ingesters \ {h} : ing'[g] = ing[g]
           /\ \/ TakesBatch(h) \/ Inserts(h) \/ Commits(h) \/ Pushes(h)
              \/ Stops(h) \/ SeesFailure(h)
<1> USE DEF TypeOK, IngestTypeOK, storeVars
<1>1. ASSUME NEW s \in IngesterState, ing' = [ing EXCEPT ![h] = s]
      PROVE  /\ ing' \in [Ingesters -> IngesterState]
             /\ ing'[h] = s
             /\ \A g \in Ingesters \ {h} : ing'[g] = ing[g]
  BY <1>1
<1>2. CASE Receive(h)
  <2>1. PICK b \in Batches(h) :
          ing' = [ing EXCEPT ![h] = [pc |-> "upsert", todo |-> b,
                                     batch |-> Range(b), created |-> <<>>]]
    BY <1>2 DEF Receive
  <2>2. b \in Seq(Items) /\ Range(b) \subseteq Items
    BY BatchesAreSequences
  <2>3. [pc |-> "upsert", todo |-> b, batch |-> Range(b), created |-> <<>>]
          \in IngesterState
    BY <2>2 DEF IngesterState
  <2>4. deliveries' \in 0 .. MaxDeliveries
    BY <1>2 DEF Receive
  <2> QED
    BY <1>1, <1>2, <2>1, <2>3, <2>4 DEF Receive, TakesBatch
<1>3. CASE FetchFails(h)
  BY <1>3 DEF FetchFails, SeesFailure
<1>4. CASE Upsert(h)
  <2>1. ing[h].pc = "upsert" /\ ing[h].todo # <<>>
    BY <1>4 DEF Upsert
  <2>a. ing[h].todo \in Seq(Items) /\ ing[h].created \in Seq(Items)
    BY IngUpdates
  <2>2. Head(ing[h].todo) \in Items /\ Tail(ing[h].todo) \in Seq(Items)
    BY <2>1, <2>a, SeqRanges
  <2>b. Append(ing[h].created, Head(ing[h].todo)) \in Seq(Items)
    BY <2>2, <2>a, SeqRanges
  <2> DEFINE i == Head(ing[h].todo)
             c == IF i \in rows \cup Inserting(h)
                  THEN ing[h].created ELSE Append(ing[h].created, i)
             s == [ing[h] EXCEPT !.todo = Tail(ing[h].todo), !.created = c]
  <2>3. c \in Seq(Items)
    BY <2>a, <2>b
  <2>4. s \in IngesterState
    BY <2>2, <2>3, IngUpdates
  <2>5. ing' = [ing EXCEPT ![h] = s]
    BY <1>4 DEF Upsert
  <2>6. /\ s.pc = ing[h].pc /\ s.batch = ing[h].batch
        /\ s.todo = Tail(ing[h].todo) /\ s.created = c
    BY IngUpdates DEF IngesterState
  <2>7. \/ c = ing[h].created /\ i \in rows \cup Range(ing[h].created)
        \/ /\ c = Append(ing[h].created, i)
           /\ i \notin rows \cup Range(ing[h].created)
           /\ \A g \in Ingesters \ {h} : i \notin Inserting(g)
    BY <1>4, <2>1 DEF Inserting, Upsert, WaitsFor
  <2>8. ing' \in [Ingesters -> IngesterState] /\ ing'[h] = s
        /\ \A g \in Ingesters \ {h} : ing'[g] = ing[g]
    BY <1>1, <2>4, <2>5
  <2> HIDE DEF s, c
  <2> QED
    BY <1>4, <2>1, <2>6, <2>7, <2>8 DEF Upsert, Inserts
<1>5. CASE Commit(h)
  <2> DEFINE s == [ing[h] EXCEPT !.pc = "enqueue"]
  <2>1. s \in IngesterState
    BY IngUpdates
  <2>2. s.pc = "enqueue" /\ s.batch = ing[h].batch
        /\ s.todo = ing[h].todo /\ s.created = ing[h].created
    BY IngUpdates DEF IngesterState
  <2>3. ing' = [ing EXCEPT ![h] = s]
    BY <1>5 DEF Commit
  <2>4. ing' \in [Ingesters -> IngesterState] /\ ing'[h] = s
        /\ \A g \in Ingesters \ {h} : ing'[g] = ing[g]
    BY <1>1, <2>1, <2>3
  <2> HIDE DEF s
  <2> QED
    BY <1>5, <2>2, <2>4 DEF Commit, Commits
<1>6. CASE Enqueue(h)
  <2> DEFINE s == [ing[h] EXCEPT !.created = Tail(ing[h].created)]
  <2>1. Tail(ing[h].created) \in Seq(Items)
    BY <1>6, IngUpdates, SeqRanges DEF Enqueue
  <2>2. s \in IngesterState
    BY <2>1, IngUpdates
  <2>3. s.pc = ing[h].pc /\ s.batch = ing[h].batch
        /\ s.todo = ing[h].todo /\ s.created = Tail(ing[h].created)
    BY IngUpdates DEF IngesterState
  <2>4. ing' = [ing EXCEPT ![h] = s]
    BY <1>6 DEF Enqueue
  <2>5. ing' \in [Ingesters -> IngesterState] /\ ing'[h] = s
        /\ \A g \in Ingesters \ {h} : ing'[g] = ing[g]
    BY <1>1, <2>2, <2>4
  <2> HIDE DEF s
  <2> QED
    BY <1>6, <2>3, <2>5 DEF Enqueue, Pushes
<1>7. ASSUME ing' = [ing EXCEPT ![h] = IdleIngester]
      PROVE  /\ ing' \in [Ingesters -> IngesterState]
             /\ ing'[h] = IdleIngester
             /\ \A g \in Ingesters \ {h} : ing'[g] = ing[g]
  BY <1>1, <1>7, IngUpdates
<1>8. CASE Acknowledge(h)
  <2>1. Owed(h) = {}
    BY <1>8 DEF Acknowledge, Owed, Range
  <2> QED
    BY <1>7, <1>8, <2>1 DEF Acknowledge, Stops
<1>9. CASE EnqueueRaises(h)
  BY <1>7, <1>9 DEF EnqueueRaises, Stops
<1>10. CASE IngesterCrash(h)
  BY <1>7, <1>10 DEF IngesterCrash, Stops
<1>11. CASE DeadlockVictim(h)
  <2>1. Owed(h) = {}
    BY <1>11 DEF DeadlockVictim, WaitsFor, Owed
  <2> QED
    BY <1>7, <1>11, <2>1 DEF DeadlockVictim, Stops
<1> QED
  BY <1>2, <1>3, <1>4, <1>5, <1>6, <1>8, <1>9, <1>10, <1>11 DEF IngestStep

(***************************************************************************)
(* The inductive invariant, part by part, over the summaries.              *)
(***************************************************************************)

\* Only a source's own report changes its health row, and nothing takes back
\* that it once succeeded.
LEMMA HealthUpdates ==
    ASSUME health \in [Sources -> HealthRow], NEW src \in Sources,
           NEW outcome \in {"success", "failure"},
           health' = RecordHealth(src, outcome)
    PROVE  /\ health' \in [Sources -> HealthRow]
           /\ \A x \in Sources : health[x].succeeded => health'[x].succeeded
           /\ outcome = "success" => health'[src].succeeded
BY DEF RecordHealth, HealthRow

\* A producer's step, with the fields it changed typed.
LEMMA ProducerKeepsTypes ==
    ASSUME TypeOK, NEW h \in Ingesters, IngestStep(h), UNCHANGED workVars
    PROVE  TypeOK'
<1> USE DEF TypeOK, StoreTypeOK, IngestTypeOK, WorkTypeOK, workVars
<1>1. /\ ing[h] \in IngesterState
      /\ ing[h].created \in Seq(Items) /\ Range(ing[h].created) \subseteq Items
      /\ ing[h].created # <<>> => Head(ing[h].created) \in Items
      /\ ing[h].batch \subseteq Items
  <2>1. ing[h].created \in Seq(Items)
    BY IngUpdates
  <2> QED
    BY <2>1, IngUpdates, SeqRanges
<1>2. IngesterSource[h] \in Sources
  OBVIOUS
<1>3. rows' \subseteq Items /\ queue' \in Seq(Items) /\ acked' \subseteq Items
  <2>1. ing[h].created # <<>> => Append(queue, Head(ing[h].created)) \in Seq(Items)
    BY <1>1
  <2>2. queue' \in Seq(Items)
    BY <2>1, ProducerStep
       DEF TakesBatch, Inserts, Commits, Pushes, Stops, SeesFailure
  <2>3. rows' \subseteq Items /\ acked' \subseteq Items
    BY <1>1, ProducerStep
       DEF TakesBatch, Inserts, Commits, Pushes, Stops, SeesFailure
  <2> QED
    BY <2>2, <2>3
<1>4. health' \in [Sources -> HealthRow]
  BY <1>2, ProducerStep, HealthUpdates
     DEF TakesBatch, Inserts, Commits, Pushes, Stops, SeesFailure
<1> QED
  BY <1>3, <1>4, ProducerStep

LEMMA ProducerKeepsBatches ==
    ASSUME TypeOK, BatchesAccounted, NEW h \in Ingesters, IngestStep(h)
    PROVE  BatchesAccounted'
<1> DEFINE Ok(s, r) ==
             /\ \A i \in Range(s.todo) \cup Range(s.created) :
                   SourceOf[i] = IngesterSource[h]
             /\ s.pc = "upsert" =>
                   s.batch \subseteq Range(s.todo) \cup Range(s.created) \cup r
             /\ s.pc = "enqueue" => s.batch \subseteq r
<1>1. rows \subseteq rows'
  BY ProducerStep DEF TakesBatch, Inserts, Commits, Pushes, Stops, SeesFailure
<1>2. ASSUME NEW g \in Ingesters \ {h}
      PROVE  /\ \A i \in Range(ing'[g].todo) \cup Range(ing'[g].created) :
                   SourceOf[i] = IngesterSource[g]
             /\ ing'[g].pc = "upsert" =>
                   ing'[g].batch \subseteq
                     Range(ing'[g].todo) \cup Range(ing'[g].created) \cup rows'
             /\ ing'[g].pc = "enqueue" => ing'[g].batch \subseteq rows'
  BY <1>1, ProducerStep DEF BatchesAccounted
<1>3. Ok(ing[h], rows)
  BY DEF BatchesAccounted
<1>4. ing[h].todo \in Seq(Items) /\ ing[h].created \in Seq(Items)
  BY IngUpdates DEF TypeOK, IngestTypeOK
<1>5. Range(<<>>) = {}
  BY DEF Range
<1>6. Ok(ing'[h], rows')
  <2>1. CASE TakesBatch(h)
    <3>1. PICK b \in Batches(h) :
            ing'[h] = [pc |-> "upsert", todo |-> b, batch |-> Range(b), created |-> <<>>]
      BY <2>1 DEF TakesBatch
    <3>2. \A i \in Range(b) : SourceOf[i] = IngesterSource[h]
      BY DEF Batches, Range
    <3> QED
      BY <1>5, <3>1, <3>2
  <2>2. CASE Inserts(h)
    <3>1. /\ Head(ing[h].todo) \in Items
          /\ Range(ing[h].todo) = {Head(ing[h].todo)} \cup Range(Tail(ing[h].todo))
      BY <1>4, <2>2, SeqRanges DEF Inserts
    <3>2. Range(Append(ing[h].created, Head(ing[h].todo)))
            = Range(ing[h].created) \cup {Head(ing[h].todo)}
      BY <1>4, <3>1, SeqRanges
    <3>3. /\ Range(ing'[h].todo) \subseteq Range(ing[h].todo)
          /\ Range(ing'[h].created) \subseteq Range(ing[h].created) \cup Range(ing[h].todo)
          /\ Range(ing[h].todo) \cup Range(ing[h].created) \subseteq
               Range(ing'[h].todo) \cup Range(ing'[h].created) \cup rows'
      BY <2>2, <3>1, <3>2 DEF Inserts
    <3> QED
      BY <1>1, <1>3, <2>2, <3>3 DEF Inserts
  <2>3. CASE Commits(h)
    BY <1>3, <1>5, <2>3 DEF Commits
  <2>4. CASE Pushes(h)
    <3>1. Range(ing'[h].created) \subseteq Range(ing[h].created)
      BY <1>4, <2>4, SeqRanges DEF Pushes
    <3> QED
      BY <1>3, <2>4, <3>1 DEF Pushes
  <2>5. CASE Stops(h)
    BY <1>5, <2>5 DEF Stops, IdleIngester
  <2>6. CASE SeesFailure(h)
    BY <1>3, <2>6 DEF SeesFailure
  <2> QED
    BY <2>1, <2>2, <2>3, <2>4, <2>5, <2>6, ProducerStep
<1> QED
  BY <1>2, <1>6 DEF BatchesAccounted

LEMMA ProducerKeepsReports ==
    ASSUME TypeOK, BatchesAccounted, StoredImpliesHealthy, AckedIsStored,
           NEW h \in Ingesters, IngestStep(h)
    PROVE  StoredImpliesHealthy' /\ AckedIsStored'
<1> USE DEF TypeOK, StoreTypeOK, IngestTypeOK
<1>1. ing[h].created \in Seq(Items)
  BY IngUpdates
<1>2. Range(ing[h].created) \subseteq Items
  BY <1>1, SeqRanges
<1>3. IngesterSource[h] \in Sources /\ \A i \in Items : SourceOf[i] \in Sources
  OBVIOUS
<1>4. CASE Commits(h)
  <2>1. /\ \A x \in Sources : health[x].succeeded => health'[x].succeeded
        /\ health'[IngesterSource[h]].succeeded
    BY <1>3, <1>4, HealthUpdates DEF Commits
  <2>2. \A i \in Range(ing[h].created) : SourceOf[i] = IngesterSource[h]
    BY DEF BatchesAccounted
  <2> QED
    BY <1>2, <1>3, <1>4, <2>1, <2>2 DEF Commits, StoredImpliesHealthy, AckedIsStored
<1>5. CASE SeesFailure(h)
  <2>1. \A x \in Sources : health[x].succeeded => health'[x].succeeded
    BY <1>3, <1>5, HealthUpdates DEF SeesFailure
  <2> QED
    BY <1>3, <1>5, <2>1 DEF SeesFailure, StoredImpliesHealthy, AckedIsStored
<1>6. CASE TakesBatch(h) \/ Inserts(h) \/ Pushes(h)
  BY <1>6 DEF TakesBatch, Inserts, Pushes, StoredImpliesHealthy, AckedIsStored
<1>7. CASE Stops(h)
  <2>1. acked' \subseteq rows
    BY <1>7 DEF Stops, BatchesAccounted, AckedIsStored
  <2> QED
    BY <1>7, <2>1 DEF Stops, StoredImpliesHealthy, AckedIsStored
<1> QED
  BY <1>4, <1>5, <1>6, <1>7, ProducerStep

\* JobsHaveRows, place by place.
JobsPlaced ==
    /\ \A h \in Ingesters : Owed(h) \subseteq rows
    /\ Queued \subseteq rows
    /\ \A w \in Workers : Busy(w) => work[w].item \in rows
    /\ \A f \in failed : f.item \in rows /\ f.cause # "LookupError"
    /\ finished \subseteq rows

LEMMA JobsPlacedSuffices == TypeOK => (JobsPlaced <=> JobsHaveRows)
<1> SUFFICES ASSUME TypeOK PROVE JobsPlaced <=> JobsHaveRows
  OBVIOUS
<1> USE DEF TypeOK, StoreTypeOK, IngestTypeOK, WorkTypeOK
<1>1. \A w \in Workers : /\ Busy(w) => work[w].item \in Items
                         /\ ~Busy(w) => work[w].item \notin Items
  BY MovesKeepTypes DEF Busy, WorkState, JobState, IdleWorker, Steps
<1>2. Queued \subseteq Items
  BY SeqRanges DEF Queued
<1>3. \A h \in Ingesters : Owed(h) \subseteq Items
  <2> TAKE h \in Ingesters
  <2>1. ing[h].created \in Seq(Items)
    BY IngUpdates
  <2>2. Range(ing[h].created) \subseteq Items
    BY <2>1, SeqRanges
  <2> QED
    BY <2>2 DEF Owed
<1>4. \A f \in failed : f.item \in Items
  OBVIOUS
<1>5. (\A i \in Items : Pending(i) => i \in rows)
        <=> (\A h \in Ingesters : Owed(h) \subseteq rows)
  BY <1>3 DEF Pending
<1>6. (\A i \in Items : Running(i) => i \in rows)
        <=> (\A w \in Workers : Busy(w) => work[w].item \in rows)
  BY <1>1 DEF Running, HasJob
<1>7. (\A i \in Items : i \in FailedItems => i \in rows)
        <=> (\A f \in failed : f.item \in rows)
  BY <1>4 DEF FailedItems
<1> QED
  BY <1>2, <1>5, <1>6, <1>7 DEF JobsPlaced, JobsHaveRows, Scheduled

LEMMA ProducerKeepsJobs ==
    ASSUME TypeOK, JobsPlaced, NEW h \in Ingesters, IngestStep(h), UNCHANGED workVars
    PROVE  JobsPlaced'
<1> USE DEF TypeOK, StoreTypeOK, IngestTypeOK, workVars
<1>1. /\ ing[h].created \in Seq(Items)
      /\ ing[h].created # <<>> =>
           /\ Head(ing[h].created) \in Items
           /\ Range(ing[h].created)
                = {Head(ing[h].created)} \cup Range(Tail(ing[h].created))
  <2>1. ing[h].created \in Seq(Items)
    BY IngUpdates
  <2> QED
    BY <2>1, SeqRanges
<1>2. rows \subseteq rows'
  BY ProducerStep DEF TakesBatch, Inserts, Commits, Pushes, Stops, SeesFailure
<1>3. \A g \in Ingesters \ {h} : Owed(g)' \subseteq rows'
  BY <1>2, ProducerStep DEF JobsPlaced, Owed
<1>4. Owed(h)' \subseteq rows'
  <2>1. CASE Commits(h)
    BY <1>2, <2>1 DEF Commits, Owed
  <2>2. CASE Pushes(h)
    <3>1. Range(ing'[h].created) \subseteq Range(ing[h].created)
      BY <1>1, <2>2 DEF Pushes
    <3>2. Range(ing[h].created) \subseteq rows
      BY <2>2 DEF Pushes, JobsPlaced, Owed
    <3> QED
      BY <1>2, <3>1, <3>2 DEF Owed
  <2>3. CASE TakesBatch(h) \/ Inserts(h) \/ Stops(h)
    <3>1. ing'[h].pc # "enqueue"
      <4>1. CASE TakesBatch(h)
        BY <4>1 DEF TakesBatch
      <4>2. CASE Inserts(h)
        BY <4>2 DEF Inserts
      <4>3. CASE Stops(h)
        BY <4>3 DEF Stops, IdleIngester
      <4> QED
        BY <2>3, <4>1, <4>2, <4>3
    <3> QED
      BY <3>1 DEF Owed
  <2>4. CASE SeesFailure(h)
    <3>1. Owed(h)' = Owed(h)
      BY <2>4 DEF SeesFailure, Owed
    <3> QED
      BY <1>2, <3>1 DEF JobsPlaced
  <2> QED
    BY <2>1, <2>2, <2>3, <2>4, ProducerStep
<1>5. Queued' \subseteq rows'
  <2>1. \A i \in Items : Range(Append(queue, i)) = Range(queue) \cup {i}
    BY SeqRanges
  <2>2. ing[h].pc = "enqueue" /\ ing[h].created # <<>> => Head(ing[h].created) \in rows
    BY <1>1 DEF JobsPlaced, Owed
  <2>3. \/ queue' = queue
        \/ /\ ing[h].pc = "enqueue" /\ ing[h].created # <<>>
           /\ queue' = Append(queue, Head(ing[h].created))
    BY ProducerStep DEF TakesBatch, Inserts, Commits, Pushes, Stops, SeesFailure
  <2> QED
    <3>1. Range(queue) \subseteq rows
      BY DEF JobsPlaced, Queued
    <3>2. Range(queue') \subseteq rows
      <4>1. CASE queue' = queue
        BY <3>1, <4>1
      <4>2. CASE /\ ing[h].pc = "enqueue" /\ ing[h].created # <<>>
                 /\ queue' = Append(queue, Head(ing[h].created))
        <5>1. Head(ing[h].created) \in Items \cap rows
          BY <1>1, <2>2, <4>2
        <5> QED
          BY <2>1, <3>1, <4>2, <5>1
      <4> QED
        BY <2>3, <4>1, <4>2
    <3> QED
      BY <1>2, <3>2 DEF Queued
<1>6. /\ \A w \in Workers : Busy(w)' => work'[w].item \in rows'
      /\ \A f \in failed' : f.item \in rows' /\ f.cause # "LookupError"
      /\ finished' \subseteq rows'
  BY <1>2, ProducerStep DEF JobsPlaced, Busy
<1> QED
  BY <1>3, <1>4, <1>5, <1>6 DEF JobsPlaced

LEMMA WorkerKeepsJobs ==
    ASSUME TypeOK, JobsPlaced, NEW w \in Workers, WorkStep(w), UNCHANGED ingestVars
    PROVE  JobsPlaced'
<1> USE DEF TypeOK, StoreTypeOK, WorkTypeOK, ingestVars
<1>1. rows' = rows /\ ing' = ing
  BY WorkerStep
<1>2. \A h \in Ingesters : Owed(h)' \subseteq rows'
  BY <1>1 DEF JobsPlaced, Owed
<1>3. Queued' \subseteq rows'
  <2>1. queue # <<>> => Range(Tail(queue)) \subseteq Range(queue)
    BY SeqRanges
  <2>2. queue' = queue \/ (queue # <<>> /\ queue' = Tail(queue))
    BY WorkerStep DEF TakesJob, MovesOn, Publishes, EndsJob
  <2> QED
    BY <1>1, <2>1, <2>2 DEF JobsPlaced, Queued
<1>4. \A v \in Workers \ {w} : Busy(v)' => work'[v].item \in rows'
  BY <1>1, WorkerStep DEF JobsPlaced, Busy
<1>5. Busy(w)' => work'[w].item \in rows'
  <2>1. queue # <<>> => Head(queue) \in rows
    BY SeqRanges DEF JobsPlaced, Queued
  <2>2. work'[w] = IdleWorker => ~Busy(w)'
    BY DEF Busy, IdleWorker
  <2> QED
    BY <1>1, <2>1, <2>2, WorkerStep
       DEF JobsPlaced, TakesJob, MovesOn, Publishes, EndsJob
<1>6. /\ \A f \in failed' : f.item \in rows' /\ f.cause # "LookupError"
      /\ finished' \subseteq rows'
  BY <1>1, WorkerStep DEF JobsPlaced, TakesJob, MovesOn, Publishes, EndsJob
<1> QED
  BY <1>2, <1>3, <1>4, <1>5, <1>6 DEF JobsPlaced

LEMMA WorkerKeepsBlobs ==
    ASSUME TypeOK, RawRefHasBlob, NEW w \in Workers, WorkStep(w)
    PROVE  RawRefHasBlob'
<1> USE DEF TypeOK, StoreTypeOK, WorkTypeOK
<1>1. blobs \subseteq blobs'
  BY WorkerStep DEF TakesJob, MovesOn, Publishes, EndsJob
<1>2. \A v \in Workers \ {w} : work'[v].row.rawRef => work'[v].item \in blobs'
  BY <1>1, WorkerStep DEF RawRefHasBlob
<1>3. Busy(w) => work[w].item \in Items
  BY MovesKeepTypes DEF Steps
<1>4. work'[w].row.rawRef => work'[w].item \in blobs'
  BY <1>1, <1>3, WorkerStep
     DEF RawRefHasBlob, TakesJob, MovesOn, Publishes, EndsJob, IdleWorker, BareRow
<1>5. \A i \in Items : db'[i].rawRef => i \in blobs'
  BY <1>1, <1>3, WorkerStep DEF RawRefHasBlob, TakesJob, MovesOn, Publishes, EndsJob
<1> QED
  BY <1>2, <1>4, <1>5 DEF RawRefHasBlob

LEMMA WorkerKeepsTypes ==
    ASSUME TypeOK, NEW w \in Workers, WorkStep(w), UNCHANGED ingestVars
    PROVE  TypeOK'
<1> USE DEF TypeOK, StoreTypeOK, WorkTypeOK, IngestTypeOK, ingestVars
<1>1. Busy(w) => work[w].item \in Items /\ work[w].row \in ItemRow
  BY MovesKeepTypes DEF Steps
<1>2. queue' \in Seq(Items)
  <2>1. queue # <<>> => Tail(queue) \in Seq(Items)
    BY SeqRanges
  <2> QED
    BY <2>1, WorkerStep DEF TakesJob, MovesOn, Publishes, EndsJob
<1>3. db' \in [Items -> ItemRow]
  BY <1>1, WorkerStep DEF TakesJob, MovesOn, Publishes, EndsJob
<1>4. blobs' \subseteq Items /\ finished' \subseteq Items
  BY <1>1, WorkerStep DEF TakesJob, MovesOn, Publishes, EndsJob
<1>5. failed' \subseteq [item : Items, cause : Causes]
  BY <1>1, WorkerStep DEF TakesJob, MovesOn, Publishes, EndsJob
<1> QED
  BY <1>2, <1>3, <1>4, <1>5, WorkerStep

(***************************************************************************)
(* The theorems.                                                           *)
(***************************************************************************)

LEMMA RequeueKeeps ==
    ASSUME SafetyInv, NEW f \in failed, Requeue(f), UNCHANGED ingestVars
    PROVE  SafetyInv'
<1> USE DEF TypeOK, StoreTypeOK, WorkTypeOK, IngestTypeOK, ingestVars
<1>1. f.item \in Items
  BY DEF SafetyInv
<1>2. TypeOK'
  BY <1>1 DEF SafetyInv, Requeue
<1>3. JobsPlaced'
  <2>1. JobsPlaced
    BY JobsPlacedSuffices DEF SafetyInv
  <2>2. Range(Append(queue, f.item)) = Range(queue) \cup {f.item}
    BY <1>1, SeqRanges DEF SafetyInv
  <2> QED
    BY <2>1, <2>2 DEF JobsPlaced, Requeue, Owed, Queued, Busy
<1>4. JobsHaveRows'
  BY <1>2, <1>3, JobsPlacedSuffices, PTL
<1> QED
  BY <1>2, <1>4
     DEF SafetyInv, Requeue, BatchesAccounted, RawRefHasBlob, StoredImpliesHealthy,
         AckedIsStored

\* SafetyInv is inductive.
LEMMA SafetyStep == SafetyInv /\ [Next]_vars => SafetyInv'
<1> SUFFICES ASSUME SafetyInv, [Next]_vars PROVE SafetyInv'
  OBVIOUS
<1>1. /\ TypeOK /\ BatchesAccounted /\ JobsPlaced /\ RawRefHasBlob
      /\ StoredImpliesHealthy /\ AckedIsStored
  BY JobsPlacedSuffices DEF SafetyInv
<1>2. TypeOK' /\ JobsPlaced' => JobsHaveRows'
  BY JobsPlacedSuffices, PTL
<1>3. ASSUME NEW h \in Ingesters, IngestStep(h), UNCHANGED workVars
      PROVE  SafetyInv'
  <2>1. TypeOK' /\ BatchesAccounted' /\ JobsPlaced'
    BY <1>1, <1>3, ProducerKeepsTypes, ProducerKeepsBatches, ProducerKeepsJobs
  <2>2. StoredImpliesHealthy' /\ AckedIsStored'
    BY <1>1, <1>3, ProducerKeepsReports
  <2>3. RawRefHasBlob'
    BY <1>1, <1>3, ProducerStep DEF RawRefHasBlob, workVars
  <2> QED
    BY <1>2, <2>1, <2>2, <2>3 DEF SafetyInv
<1>4. ASSUME NEW w \in Workers, WorkStep(w), UNCHANGED ingestVars
      PROVE  SafetyInv'
  <2>1. TypeOK' /\ JobsPlaced' /\ RawRefHasBlob'
    BY <1>1, <1>4, WorkerKeepsTypes, WorkerKeepsJobs, WorkerKeepsBlobs
  <2>2. BatchesAccounted' /\ StoredImpliesHealthy' /\ AckedIsStored'
    BY <1>1, <1>4, WorkerStep
       DEF BatchesAccounted, StoredImpliesHealthy, AckedIsStored, ingestVars
  <2> QED
    BY <1>2, <2>1, <2>2 DEF SafetyInv
<1>5. CASE \E f \in failed : Requeue(f) /\ UNCHANGED ingestVars
  BY <1>5, RequeueKeeps
<1>6. CASE UNCHANGED vars
  BY <1>6
     DEF vars, storeVars, ingestVars, workVars, SafetyInv, TypeOK, StoreTypeOK,
         IngestTypeOK, WorkTypeOK, BatchesAccounted, JobsHaveRows, Pending, Scheduled,
         Running, HasJob, Queued, FailedItems, Owed, RawRefHasBlob,
         StoredImpliesHealthy, AckedIsStored
<1> QED
  BY <1>3, <1>4, <1>5, <1>6 DEF Next, Quiescent

LEMMA SafetyInit == Init => SafetyInv
<1> SUFFICES ASSUME Init PROVE SafetyInv
  OBVIOUS
<1> USE DEF Init, StoreInit, IngestInit, WorkInit
<1>1. TypeOK
  BY DEF TypeOK, StoreTypeOK, IngestTypeOK, WorkTypeOK, IdleIngester, IngesterState,
         WorkState, BareRow, ItemRow, HealthRow
<1>2. Range(<<>>) = {}
  BY DEF Range
<1>3. JobsPlaced
  BY <1>2 DEF JobsPlaced, Owed, Queued, Busy, IdleIngester, IdleWorker
<1>4. BatchesAccounted
  BY <1>2 DEF BatchesAccounted, IdleIngester
<1>5. RawRefHasBlob /\ StoredImpliesHealthy /\ AckedIsStored
  BY DEF RawRefHasBlob, StoredImpliesHealthy, AckedIsStored, IdleWorker, BareRow
<1> QED
  BY <1>1, <1>3, <1>4, <1>5, JobsPlacedSuffices DEF SafetyInv

\* The inductive invariant holds in every reachable state.
THEOREM Safety == Spec => []SafetyInv
BY SafetyInit, SafetyStep, PTL DEF Spec

\* Every variable keeps its type.
THEOREM TypeCorrect == Spec => []TypeOK
<1>1. SafetyInv => TypeOK
  BY DEF SafetyInv
<1> QED
  BY <1>1, Safety, PTL

\* Every job refers to a committed row (the commit precedes the enqueue), so
\* the LookupError of process_item never fires.
THEOREM CommitPrecedesEnqueue == Spec => []JobsHaveRows
<1>1. SafetyInv => JobsHaveRows
  BY DEF SafetyInv
<1> QED
  BY <1>1, Safety, PTL

\* A raw_ref names a blob that is complete, through every rollback and crash.
THEOREM RawRefsResolve == Spec => []RawRefHasBlob
<1>1. SafetyInv => RawRefHasBlob
  BY DEF SafetyInv
<1> QED
  BY <1>1, Safety, PTL

\* No item comes from a connector that never reported success: health commits
\* with the batch.
THEOREM HealthCommitsWithItems == Spec => []StoredImpliesHealthy
<1>1. SafetyInv => StoredImpliesHealthy
  BY DEF SafetyInv
<1> QED
  BY <1>1, Safety, PTL

\* A batch is acknowledged only when all of it is stored, duplicates of
\* another process's batch included.
THEOREM AcknowledgedIsDurable == Spec => []AckedIsStored
<1>1. SafetyInv => AckedIsStored
  BY DEF SafetyInv
<1> QED
  BY <1>1, Safety, PTL

===============================================================================
