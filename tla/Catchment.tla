------------------------------ MODULE Catchment -------------------------------
(***************************************************************************)
(* The whole ingestion path: producers (Ingestion) and workers (Pipeline)  *)
(* running against one database, blob store and job queue.                 *)
(***************************************************************************)
EXTENDS Ingestion, Pipeline

vars == <<storeVars, ingestVars, workVars>>

Init == StoreInit /\ IngestInit /\ WorkInit

\* A job that has set raw_ref holds its item's row until it ends, and an insert
\* of the same key waits for it: the handler can only give up meanwhile.
HeldByJob(i) ==
    \E w \in Workers : InJob(w) /\ HasJob(w, i) /\ work[w].row.rawRef # db[i].rawRef

GivesWay(h) ==
    (ing[h].pc = "upsert" /\ ing[h].todo # <<>> /\ HeldByJob(Head(ing[h].todo))) =>
        ing'[h].pc = "idle"

\* Nothing is in flight and nothing more will be delivered: the system waits.
Quiescent ==
    /\ \A h \in Ingesters : ing[h].pc = "idle"
    /\ deliveries = MaxDeliveries
    /\ \A w \in Workers : ~Busy(w)
    /\ queue = <<>>
    /\ UNCHANGED vars

Next ==
    \/ \E h \in Ingesters : IngestStep(h) /\ GivesWay(h) /\ UNCHANGED workVars
    \/ \E w \in Workers : WorkStep(w) /\ UNCHANGED ingestVars
    \/ \E f \in failed : Requeue(f) /\ UNCHANGED ingestVars
    \/ Quiescent

Spec == Init /\ [][Next]_vars

\* A handler that runs and a worker that runs do not stop of their own accord:
\* RQ keeps popping jobs, and every external call has a timeout.
Fairness ==
    /\ \A h \in Ingesters : WF_vars(IngestProgress(h) /\ GivesWay(h) /\ UNCHANGED workVars)
    /\ \A w \in Workers : WF_vars(WorkProgress(w) /\ UNCHANGED ingestVars)

FairSpec == Spec /\ Fairness

TypeOK == StoreTypeOK /\ IngestTypeOK /\ WorkTypeOK

(***************************************************************************)
(* Where an item's job is.                                                 *)
(***************************************************************************)

Pending(i) == \E h \in Ingesters : i \in Owed(h)
Running(i) == \E w \in Workers : HasJob(w, i)
Scheduled(i) == i \in Queued \/ Running(i) \/ i \in FailedItems \/ i \in finished

\* Stored, and no process will ever enqueue it: a later delivery of the same
\* record is a duplicate and duplicates get no job.
Stranded == {i \in rows : ~Pending(i) /\ ~Scheduled(i)}

(***************************************************************************)
(* Safety.                                                                 *)
(***************************************************************************)

\* Every job, wherever it is, refers to a committed item row: "commit before
\* enqueuing" holds across batches, crashes and requeues, so the pipeline's
\* LookupError never fires.
JobsHaveRows ==
    /\ \A i \in Items : Pending(i) \/ Scheduled(i) => i \in rows
    /\ \A f \in failed : f.cause # "LookupError"

\* An item has at most one job: never queued twice, never on two workers,
\* never queued while it runs, has failed or has finished -- whatever is
\* redelivered and whoever is inserting the same record at the same time.
OneJobPerItem ==
    /\ IsInjective(queue)
    /\ \A f, g \in failed : f.item = g.item => f = g
    /\ \A v, w \in Workers : Busy(v) /\ work[v].item = work[w].item => v = w
    /\ \A h, g \in Ingesters : h # g => Owed(h) \cap Owed(g) = {}
    /\ \A i \in Items :
         /\ ~(Pending(i) /\ Scheduled(i))
         /\ ~(i \in Queued /\ (Running(i) \/ i \in FailedItems \/ i \in finished))
         /\ ~(Running(i) /\ (i \in FailedItems \/ i \in finished))
         /\ ~(i \in FailedItems /\ i \in finished)

\* A raw_ref, committed or still inside a job's transaction, always names a
\* blob that is complete in the store -- whatever was rolled back in between.
RawRefHasBlob ==
    /\ \A i \in Items : db[i].rawRef => i \in blobs
    /\ \A w \in Workers : work[w].row.rawRef => work[w].item \in blobs

\* An item with a row came from a transaction that also recorded its source
\* as alive: there is no item from a connector that never reported success.
StoredImpliesHealthy ==
    \A i \in rows : health[SourceOf[i]].succeeded

\* A producer that reported success has really stored the batch.
AckedIsStored == acked \subseteq rows

\* A committed tag never outruns what it was derived from: a model's tag has
\* its extraction and embedding, and only an item with neither tag is untouched.
TagsHaveEvidence ==
    \A i \in Items :
        /\ "llm" \in db[i].tags => db[i].extractions # {} /\ db[i].embedded
        /\ db[i].embedded => db[i].extractions # {}
        /\ db[i].tags # {} => i \in rows

\* A placeholder on an item that had text to classify is explained by a
\* failure row, so an outage is never mistaken for "nothing to tag".
DegradedIsVisible ==
    \A i \in Items :
        "unclassified" \in db[i].tags /\ db[i].extractions # {} =>
            "classification" \in db[i].failures

\* What the inbox says of an item: a model's tag outweighs an open failure.
InboxStatus(i) ==
    CASE "llm" \in db[i].tags -> "classified"
      [] "llm" \notin db[i].tags /\ db[i].failures # {} -> "failed"
      [] "llm" \notin db[i].tags /\ db[i].failures = {} /\ db[i].extractions = {} ->
            "nothing to classify"
      [] OTHER -> "pending"

\* "Three states the placeholder tag alone cannot distinguish": of an item
\* whose job RQ counts as successful the inbox tells the truth, through
\* reruns too.  It failed or had no text only with the placeholder to show
\* for it, and is pending only if no suggestion passed the threshold.
InboxExplains ==
    \A i \in finished :
        /\ InboxStatus(i) \in {"failed", "nothing to classify"} =>
              "unclassified" \in db[i].tags
        /\ InboxStatus(i) = "pending" => db[i].tags = {} /\ db[i].embedded

\* Rows are left without a job only when a producer failed between its commit
\* and its enqueues; no interleaving of healthy processes strands an item.
StrandedOnlyByFault == ingestFaults = 0 => Stranded = {}

\* A finished item's record is final: no second run rewrites it.
FinishedIsFinal ==
    [][\A i \in finished : i \in finished' /\ db'[i] = db[i]]_vars

\* What the safety invariants rest on: a batch holds records of one source,
\* and none of them is lost between its arrival and its commit.
BatchesAccounted ==
    \A h \in Ingesters :
        /\ \A i \in Range(ing[h].todo) \cup Range(ing[h].created) :
              SourceOf[i] = IngesterSource[h]
        /\ ing[h].pc = "upsert" =>
              ing[h].batch \subseteq Range(ing[h].todo) \cup Range(ing[h].created) \cup rows
        /\ ing[h].pc = "enqueue" => ing[h].batch \subseteq rows

\* Inductive; proved in CatchmentProofs.
SafetyInv ==
    /\ TypeOK
    /\ BatchesAccounted
    /\ JobsHaveRows
    /\ RawRefHasBlob
    /\ StoredImpliesHealthy
    /\ AckedIsStored

(***************************************************************************)
(* Liveness.                                                               *)
(***************************************************************************)

\* Every job on the queue is eventually finished or filed as failed: no degrade
\* path and no waiting handler leaves one running for ever or loses it.
JobsSettle ==
    \A i \in Items : i \in Queued ~> (i \in finished \/ i \in FailedItems)

\* Handlers do not wait for each other for ever: a batch whose insert is
\* blocked by another transaction's key is eventually resolved.
HandlersReturn ==
    \A h \in Ingesters : ing[h].pc # "idle" ~> ing[h].pc = "idle"

(***************************************************************************)
(* Claims of the documentation that the code does not keep.                *)
(***************************************************************************)

\* "Degrades rather than raising": an unfetchable voice note or dead link
\* leaves a reviewable item and a failure row, not a failed job.
FailureRowsAreAccepted == \A f \in failed : f.cause # "IntegrityError"

\* "upsert the item, enqueue a job -- and returns; Meta retries anything it
\* thinks failed": an acknowledged message has been given its job.
AckedHasJob == \A i \in acked : Pending(i) \/ Scheduled(i)

(***************************************************************************)
(* Refinement.                                                             *)
(***************************************************************************)

Stage(i) ==
    IF i \in finished THEN "finished"
    ELSE IF i \in FailedItems THEN "failed"
    ELSE IF \E w \in Workers : HasJob(w, i) /\ work[w].pc = "finish" THEN "published"
    ELSE IF Running(i) THEN "running"
    ELSE IF i \in Queued THEN "queued"
    ELSE IF i \in rows THEN "stored"
    ELSE "unknown"

Life == INSTANCE Lifecycle WITH
            Results <- ItemRow,
            NoResult <- BareRow,
            stage <- [i \in Items |-> Stage(i)],
            result <- db

\* Producers and workers together implement the item lifecycle.
ImplementsLifecycle == Life!Spec

===============================================================================
