------------------------------- MODULE Pipeline -------------------------------
(***************************************************************************)
(* The RQ workers running process_item: claim a job, fetch media, extract  *)
(* text, embed and classify, all inside one database transaction, then let *)
(* RQ record the outcome.  Blob writes are the one effect outside the      *)
(* transaction.  Degraded stages write a pipeline_failures row and carry   *)
(* on; anything else rolls the transaction back and fails the job.         *)
(***************************************************************************)
EXTENDS CatchmentStore

CONSTANTS
    Workers,         \* RQ worker processes
    NoItem,          \* what a worker without a job holds
    MaxWorkFaults,   \* bound: uncaught exceptions, timeouts and worker deaths
    MaxRequeues      \* bound: failed jobs an operator puts back

ASSUME WorkersAssumption ==
    /\ NoItem \notin Items
    /\ MaxWorkFaults \in Nat
    /\ MaxRequeues \in Nat

VARIABLES
    work,         \* [Workers -> WorkState]
    workFaults,   \* faults so far
    requeues      \* requeues so far

workVars == <<work, workFaults, requeues>>

\* row: the item's row as this transaction sees it, own writes included.
\* text: run_pipeline has an extraction to classify.
JobState == [pc : {"load", "media", "article", "fallback",
                   "classify", "llm", "commit", "finish"},
             item : Items, row : ItemRow, text : BOOLEAN]

IdleWorker == [pc |-> "idle", item |-> NoItem, row |-> BareRow, text |-> FALSE]

WorkState == JobState \cup {IdleWorker}

Busy(w) == work[w].pc # "idle"

\* The steps at which process_item's transaction is open.
InJob(w) == work[w].pc \notin {"idle", "finish"}

HasJob(w, i) == work[w].item = i

(***************************************************************************)
(* Building blocks.                                                        *)
(***************************************************************************)

Goto(w, pc) == work' = [work EXCEPT ![w].pc = pc]

GotoWith(w, pc, row) == work' = [work EXCEPT ![w] = [@ EXCEPT !.pc = pc, !.row = row]]

\* items.add_extraction for each of `extractors`, then on to classification.
GotoText(w, text, extractors) ==
    LET row == [work[w].row EXCEPT !.extractions = @ \cup extractors]
    IN  work' = [work EXCEPT ![w] =
                    [@ EXCEPT !.pc = "classify", !.text = text, !.row = row]]

Release(w) == work' = [work EXCEPT ![w] = IdleWorker]

\* The exception leaves process_item: session_scope rolls back, RQ moves the
\* job to the failed registry and, with no Retry configured, leaves it there.
FailJob(w, cause) ==
    /\ failed' = failed \cup {[item |-> work[w].item, cause |-> cause]}
    /\ Release(w)

\* Mutation of Degrade: a failure row is accepted whatever its stage.
DegradeUnchecked(w, stage, pc, row) ==
    /\ GotoWith(w, pc, [row EXCEPT !.failures = @ \cup {stage}])
    /\ UNCHANGED failed

\* failures.record flushes its insert, so a stage the CHECK constraint does
\* not admit raises IntegrityError here, inside the degrading handler.
Degrade(w, stage, pc, row) ==
    IF stage \in PipelineStages
    THEN /\ GotoWith(w, pc, [row EXCEPT !.failures = @ \cup {stage}])
         /\ UNCHANGED failed
    ELSE FailJob(w, "IntegrityError")

NeedsMedia(w) == work[w].item \in MediaItems /\ ~work[w].row.rawRef

(***************************************************************************)
(* Actions.                                                                *)
(***************************************************************************)

\* RQ pops the oldest job and forks a work-horse for it.
Claim(w) ==
    /\ ~Busy(w)
    /\ queue # <<>>
    /\ queue' = Tail(queue)
    /\ work' = [work EXCEPT ![w] = [pc |-> "load", item |-> Head(queue),
                                    row |-> BareRow, text |-> FALSE]]
    /\ UNCHANGED <<rows, db, blobs, health, failed, finished, workFaults, requeues>>

\* items.get: LookupError when the job outlived, or outran, its row.
Load(w) ==
    /\ work[w].pc = "load"
    /\ IF work[w].item \in rows
       THEN /\ GotoWith(w, "media", db[work[w].item])
            /\ UNCHANGED failed
       ELSE FailJob(w, "LookupError")
    /\ UNCHANGED <<rows, db, blobs, health, queue, finished, workFaults, requeues>>

\* Nothing to fetch: no media id, or raw_ref says an earlier run has it.
SkipMedia(w) ==
    /\ work[w].pc = "media"
    /\ ~NeedsMedia(w)
    /\ Goto(w, "article")
    /\ UNCHANGED <<storeVars, workFaults, requeues>>

\* Mutation of FetchMedia: raw_ref is recorded before the bytes are stored.
FetchMediaLater(w) ==
    /\ work[w].pc = "media"
    /\ NeedsMedia(w)
    /\ GotoWith(w, "article", [work[w].row EXCEPT !.rawRef = TRUE])
    /\ UNCHANGED <<storeVars, workFaults, requeues>>

\* The bytes are at their final path before raw_ref is written, and stay there
\* if the transaction is rolled back.
FetchMedia(w) ==
    /\ work[w].pc = "media"
    /\ NeedsMedia(w)
    /\ blobs' = blobs \cup {work[w].item}
    /\ GotoWith(w, "article", [work[w].row EXCEPT !.rawRef = TRUE])
    /\ UNCHANGED <<rows, db, health, queue, failed, finished, workFaults, requeues>>

\* MediaFetchError or MissingConfiguration: record the failure, go on without.
MediaFetchFails(w) ==
    /\ work[w].pc = "media"
    /\ NeedsMedia(w)
    /\ Degrade(w, "media_fetch", "article", work[w].row)
    /\ UNCHANGED <<rows, db, blobs, health, queue, finished, workFaults, requeues>>

\* Article text when the url yields any, otherwise the text the source gave.
ExtractArticle(w) ==
    /\ work[w].pc = "article"
    /\ work[w].item \in LinkItems
    /\ GotoText(w, TRUE, {"article"})
    /\ UNCHANGED <<storeVars, workFaults, requeues>>

\* A dead or paywalled link: record the failure, fall back to the source text.
ArticleFails(w) ==
    /\ work[w].pc = "article"
    /\ work[w].item \in LinkItems
    /\ Degrade(w, "article_extraction", "fallback", work[w].row)
    /\ UNCHANGED <<rows, db, blobs, health, queue, finished, workFaults, requeues>>

\* passthrough(text): an extraction only if the source supplied any text.
Passthrough(w) ==
    LET given == work[w].item \in TextItems
    IN  /\ \/ work[w].pc = "fallback"
           \/ work[w].pc = "article" /\ work[w].item \notin LinkItems
        /\ GotoText(w, given, IF given THEN {"passthrough"} ELSE {})
        /\ UNCHANGED <<storeVars, workFaults, requeues>>

\* Mutations of the classification steps.

\* An item with nothing to classify is dropped silently.
DropWithoutText(w) ==
    /\ work[w].pc = "classify"
    /\ ~work[w].text
    /\ Goto(w, "commit")
    /\ UNCHANGED <<storeVars, workFaults, requeues>>

\* The model is asked before, and without, storing the embedding.
EmbedNotStored(w) ==
    /\ work[w].pc = "classify"
    /\ work[w].text
    /\ Goto(w, "llm")
    /\ UNCHANGED <<storeVars, workFaults, requeues>>

\* The session commits half-way through the job.
EmbedCommits(w) ==
    /\ work[w].pc = "classify"
    /\ work[w].text
    /\ db' = [db EXCEPT ![work[w].item] = work[w].row]
    /\ Goto(w, "llm")
    /\ UNCHANGED <<rows, blobs, health, queue, failed, finished, workFaults, requeues>>

\* The outage is logged but leaves no failure row.
FailsInvisibly(w) ==
    /\ \/ work[w].pc = "classify" /\ work[w].text
       \/ work[w].pc = "llm"
    /\ GotoWith(w, "commit", [work[w].row EXCEPT !.tags = @ \cup {"unclassified"}])
    /\ UNCHANGED <<storeVars, workFaults, requeues>>

\* The job retries until the provider is back.
FailsIntoRetry(w) ==
    /\ work[w].pc = "llm"
    /\ Goto(w, "classify")
    /\ UNCHANGED <<storeVars, workFaults, requeues>>

\* No text: the placeholder, and no failure row -- nothing went wrong.
NothingToClassify(w) ==
    /\ work[w].pc = "classify"
    /\ ~work[w].text
    /\ GotoWith(w, "commit", [work[w].row EXCEPT !.tags = @ \cup {"unclassified"}])
    /\ UNCHANGED <<storeVars, workFaults, requeues>>

\* The embedder answers; set_embedding precedes the model call.
Embed(w) ==
    /\ work[w].pc = "classify"
    /\ work[w].text
    /\ GotoWith(w, "llm", [work[w].row EXCEPT !.embedded = TRUE])
    /\ UNCHANGED <<storeVars, workFaults, requeues>>

\* The model answers with usable suggestions; all may fall below the threshold.
Classify(w) ==
    /\ work[w].pc = "llm"
    /\ \E assigned \in {{}, {"llm"}} :
         GotoWith(w, "commit", [work[w].row EXCEPT !.tags = @ \cup assigned])
    /\ UNCHANGED <<storeVars, workFaults, requeues>>

\* EmbeddingError, LLMError, MissingConfiguration or ValueError, before or
\* after the embedding was stored: failure row, then the placeholder.
ClassificationFails(w) ==
    /\ \/ work[w].pc = "classify" /\ work[w].text
       \/ work[w].pc = "llm"
    /\ Degrade(w, "classification", "commit",
               [work[w].row EXCEPT !.tags = @ \cup {"unclassified"}])
    /\ UNCHANGED <<rows, db, blobs, health, queue, finished, workFaults, requeues>>

\* The end of session_scope: everything the job wrote becomes visible at once.
CommitJob(w) ==
    /\ work[w].pc = "commit"
    /\ db' = [db EXCEPT ![work[w].item] = work[w].row]
    /\ Goto(w, "finish")
    /\ UNCHANGED <<rows, blobs, health, queue, failed, finished, workFaults, requeues>>

\* RQ moves the job to the finished registry.
FinishJob(w) ==
    /\ work[w].pc = "finish"
    /\ finished' = finished \cup {work[w].item}
    /\ Release(w)
    /\ UNCHANGED <<rows, db, blobs, health, queue, failed, workFaults, requeues>>

\* Anything the degrading handlers do not catch, the job timeout included.
JobRaises(w) ==
    /\ InJob(w)
    /\ workFaults < MaxWorkFaults
    /\ FailJob(w, "Exception")
    /\ workFaults' = workFaults + 1
    /\ UNCHANGED <<rows, db, blobs, health, queue, finished, requeues>>

\* The work-horse dies, possibly after its commit; RQ files the job as failed.
WorkerDies(w) ==
    /\ Busy(w)
    /\ workFaults < MaxWorkFaults
    /\ FailJob(w, "Abandoned")
    /\ workFaults' = workFaults + 1
    /\ UNCHANGED <<rows, db, blobs, health, queue, finished, requeues>>

\* An operator requeues a failed job.
Requeue(f) ==
    /\ f \in failed
    /\ requeues < MaxRequeues
    /\ failed' = failed \ {f}
    /\ queue' = Append(queue, f.item)
    /\ requeues' = requeues + 1
    /\ UNCHANGED <<rows, db, blobs, health, finished, work, workFaults>>

WorkTypeOK ==
    /\ work \in [Workers -> WorkState]
    /\ workFaults \in 0 .. MaxWorkFaults
    /\ requeues \in 0 .. MaxRequeues

WorkInit ==
    /\ work = [w \in Workers |-> IdleWorker]
    /\ workFaults = 0
    /\ requeues = 0

\* The steps of a worker that is alive and whose job is not cut short.
WorkProgress(w) ==
    \/ Claim(w)
    \/ Load(w)
    \/ SkipMedia(w)
    \/ FetchMedia(w)
    \/ MediaFetchFails(w)
    \/ ExtractArticle(w)
    \/ ArticleFails(w)
    \/ Passthrough(w)
    \/ NothingToClassify(w)
    \/ Embed(w)
    \/ Classify(w)
    \/ ClassificationFails(w)
    \/ CommitJob(w)
    \/ FinishJob(w)

WorkStep(w) == WorkProgress(w) \/ JobRaises(w) \/ WorkerDies(w)

===============================================================================
