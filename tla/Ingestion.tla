------------------------------ MODULE Ingestion -------------------------------
(***************************************************************************)
(* The producers: the WhatsApp webhook handler and the pollers.  Both      *)
(* follow one protocol -- upsert every record of a batch in one            *)
(* transaction that also records connector health, commit, and only then   *)
(* enqueue one job per row the batch created.  The commit and the enqueues *)
(* are separate steps against separate systems, and a process can stop     *)
(* between any two of them.                                                *)
(***************************************************************************)
EXTENDS CatchmentStore

CONSTANTS
    Ingesters,       \* processes that take batches: API workers, poll jobs
    IngesterSource,  \* [Ingesters -> Sources]
    Polled,          \* the sources fetched by a connector rather than delivered
    MaxBatch,        \* bound: records per delivered batch
    MaxDeliveries,   \* bound: batches delivered, redeliveries and polls included
    MaxIngestFaults  \* bound: crashes and Redis errors on the producer side

ASSUME IngestersAssumption ==
    /\ IngesterSource \in [Ingesters -> Sources]
    /\ Polled \subseteq Sources
    /\ MaxBatch \in Nat
    /\ MaxDeliveries \in Nat
    /\ MaxIngestFaults \in Nat

VARIABLES
    ing,           \* [Ingesters -> IngesterState]
    deliveries,    \* batches delivered so far
    ingestFaults,  \* producer faults so far
    acked          \* items of batches answered with a success

ingestVars == <<ing, deliveries, ingestFaults, acked>>

Batches(h) ==
    UNION {[1 .. n -> {i \in Items : SourceOf[i] = IngesterSource[h]}] :
             n \in 0 .. MaxBatch}

\* todo: records not yet upserted; batch: all its items; created: the rows this
\* transaction inserted, then the jobs still to enqueue, in insertion order.
IngesterState == [pc : {"idle", "upsert", "enqueue"},
                  todo : Seq(Items), batch : SUBSET Items, created : Seq(Items)]

IdleIngester == [pc |-> "idle", todo |-> <<>>, batch |-> {}, created |-> <<>>]

\* Rows inserted by a transaction of h that is still open: invisible to others,
\* and their (source, source_id) keys are locked by the unique index.
Inserting(h) == IF ing[h].pc = "upsert" THEN Range(ing[h].created) ELSE {}

\* Jobs h still owes the queue for rows it has committed.
Owed(h) == IF ing[h].pc = "enqueue" THEN Range(ing[h].created) ELSE {}

\* h's next insert waits for another transaction holding the same key.
WaitsFor(h, g) ==
    /\ ing[h].pc = "upsert"
    /\ ing[h].todo # <<>>
    /\ g # h
    /\ Head(ing[h].todo) \in Inserting(g)

(***************************************************************************)
(* Actions.                                                                *)
(***************************************************************************)

\* A verified webhook arrives, or a poll has fetched its list of records.  The
\* sender redelivers as it likes, so any batch may arrive at any time; a batch
\* of receipts only is empty.
Receive(h) ==
    /\ ing[h].pc = "idle"
    /\ deliveries < MaxDeliveries
    /\ \E b \in Batches(h) :
         ing' = [ing EXCEPT ![h] = [pc |-> "upsert", todo |-> b,
                                    batch |-> Range(b), created |-> <<>>]]
    /\ deliveries' = deliveries + 1
    /\ UNCHANGED <<storeVars, ingestFaults, acked>>

\* connector.fetch() raised: the failure is recorded in its own transaction
\* and the exception goes to the caller.
FetchFails(h) ==
    /\ ing[h].pc = "idle"
    /\ IngesterSource[h] \in Polled
    /\ deliveries < MaxDeliveries
    /\ health' = RecordHealth(IngesterSource[h], "failure")
    /\ deliveries' = deliveries + 1
    /\ UNCHANGED <<rows, db, blobs, queue, failed, finished, ing, ingestFaults, acked>>

\* Mutations of Upsert, Commit and Enqueue: each is a plausible bug, and no
\* step of the specification uses it.

\* The job is pushed inside the upsert loop, ahead of the commit.
UpsertEnqueuesEarly(h) ==
    /\ ing[h].pc = "upsert"
    /\ ing[h].todo # <<>>
    /\ queue' = Append(queue, Head(ing[h].todo))
    /\ ing' = [ing EXCEPT ![h].todo = Tail(@)]
    /\ UNCHANGED <<rows, db, blobs, health, failed, finished,
                   deliveries, ingestFaults, acked>>

\* A duplicate counts as created.
UpsertForgetsDuplicates(h) ==
    /\ ing[h].pc = "upsert"
    /\ ing[h].todo # <<>>
    /\ ing' = [ing EXCEPT ![h].todo = Tail(@),
                          ![h].created = Append(@, Head(ing[h].todo))]
    /\ UNCHANGED <<storeVars, deliveries, ingestFaults, acked>>

\* Select, then insert, with no unique constraint to wait on.
UpsertWithoutConstraint(h) ==
    /\ ing[h].pc = "upsert"
    /\ ing[h].todo # <<>>
    /\ LET i == Head(ing[h].todo) IN
         ing' = [ing EXCEPT ![h].todo = Tail(@),
                            ![h].created =
                               IF i \in rows \cup Inserting(h) THEN @ ELSE Append(@, i)]
    /\ UNCHANGED <<storeVars, deliveries, ingestFaults, acked>>

\* A row another transaction has inserted but not committed counts as there.
UpsertTrustsInFlight(h) ==
    /\ ing[h].pc = "upsert"
    /\ ing[h].todo # <<>>
    /\ LET i == Head(ing[h].todo)
           seen == rows \cup UNION {Inserting(g) : g \in Ingesters}
       IN  ing' = [ing EXCEPT ![h].todo = Tail(@),
                              ![h].created = IF i \in seen THEN @ ELSE Append(@, i)]
    /\ UNCHANGED <<storeVars, deliveries, ingestFaults, acked>>

\* Health is left to a later transaction.
CommitWithoutHealth(h) ==
    /\ ing[h].pc = "upsert"
    /\ ing[h].todo = <<>>
    /\ rows' = rows \cup Range(ing[h].created)
    /\ ing' = [ing EXCEPT ![h].pc = "enqueue"]
    /\ UNCHANGED <<db, blobs, health, queue, failed, finished,
                   deliveries, ingestFaults, acked>>

\* One job per batch instead of one per created row.
EnqueueFirstOnly(h) ==
    /\ ing[h].pc = "enqueue"
    /\ ing[h].created # <<>>
    /\ queue' = Append(queue, Head(ing[h].created))
    /\ ing' = [ing EXCEPT ![h].created = <<>>]
    /\ UNCHANGED <<rows, db, blobs, health, failed, finished,
                   deliveries, ingestFaults, acked>>

\* A record whose insert returned no row is put back to be tried again.
UpsertRetriesDuplicates(h) ==
    /\ ing[h].pc = "upsert"
    /\ ing[h].todo # <<>>
    /\ \A g \in Ingesters : ~WaitsFor(h, g)
    /\ LET i == Head(ing[h].todo)
           rest == Tail(ing[h].todo)
       IN  ing' = [ing EXCEPT ![h] =
                      IF i \in rows \cup Inserting(h)
                      THEN [@ EXCEPT !.todo = Append(rest, i)]
                      ELSE [@ EXCEPT !.todo = rest, !.created = Append(ing[h].created, i)]]
    /\ UNCHANGED <<storeVars, deliveries, ingestFaults, acked>>

\* INSERT ... ON CONFLICT DO NOTHING.  The key is free (created), or a visible
\* row holds it (not created); an uncommitted row of another transaction makes
\* the statement wait.
Upsert(h) ==
    /\ ing[h].pc = "upsert"
    /\ ing[h].todo # <<>>
    /\ \A g \in Ingesters : ~WaitsFor(h, g)
    /\ LET i == Head(ing[h].todo)
           created == IF i \in rows \cup Inserting(h)
                      THEN ing[h].created ELSE Append(ing[h].created, i)
       IN  ing' = [ing EXCEPT ![h] = [@ EXCEPT !.todo = Tail(ing[h].todo),
                                                 !.created = created]]
    /\ UNCHANGED <<storeVars, deliveries, ingestFaults, acked>>

\* work.commit() / the end of session_scope: the rows and the health record
\* become visible together.
Commit(h) ==
    /\ ing[h].pc = "upsert"
    /\ ing[h].todo = <<>>
    /\ rows' = rows \cup Range(ing[h].created)
    /\ health' = RecordHealth(IngesterSource[h], "success")
    /\ ing' = [ing EXCEPT ![h].pc = "enqueue"]
    /\ UNCHANGED <<db, blobs, queue, failed, finished, deliveries, ingestFaults, acked>>

\* queue.enqueue for the next created id.
Enqueue(h) ==
    /\ ing[h].pc = "enqueue"
    /\ ing[h].created # <<>>
    /\ queue' = Append(queue, Head(ing[h].created))
    /\ ing' = [ing EXCEPT ![h].created = Tail(@)]
    /\ UNCHANGED <<rows, db, blobs, health, failed, finished,
                   deliveries, ingestFaults, acked>>

\* Every job is on the queue: the webhook answers 200, the poll returns.
Acknowledge(h) ==
    /\ ing[h].pc = "enqueue"
    /\ ing[h].created = <<>>
    /\ acked' = acked \cup ing[h].batch
    /\ ing' = [ing EXCEPT ![h] = IdleIngester]
    /\ UNCHANGED <<storeVars, deliveries, ingestFaults>>

\* Redis refused the push, or took it and the reply was lost: the exception
\* leaves the handler, the remaining ids are dropped and nothing is acked.
EnqueueRaises(h) ==
    /\ ing[h].pc = "enqueue"
    /\ ing[h].created # <<>>
    /\ ingestFaults < MaxIngestFaults
    /\ \/ queue' = queue
       \/ queue' = Append(queue, Head(ing[h].created))
    /\ ing' = [ing EXCEPT ![h] = IdleIngester]
    /\ ingestFaults' = ingestFaults + 1
    /\ UNCHANGED <<rows, db, blobs, health, failed, finished, deliveries, acked>>

\* The process dies, or its transaction raises: an open transaction is rolled
\* back, a committed one stays, and ids not yet enqueued are forgotten.
IngesterCrash(h) ==
    /\ ing[h].pc # "idle"
    /\ ingestFaults < MaxIngestFaults
    /\ ing' = [ing EXCEPT ![h] = IdleIngester]
    /\ ingestFaults' = ingestFaults + 1
    /\ UNCHANGED <<storeVars, deliveries, acked>>

\* Batches inserting the same keys in different orders wait for each other in
\* a cycle; Postgres aborts one of them.
DeadlockVictim(h) ==
    /\ \E C \in SUBSET Ingesters :
         /\ h \in C
         /\ \A x \in C : \E y \in C : WaitsFor(x, y)
         /\ \A y \in C : \E x \in C : WaitsFor(x, y)
    /\ ing' = [ing EXCEPT ![h] = IdleIngester]
    /\ UNCHANGED <<storeVars, deliveries, ingestFaults, acked>>

IngestTypeOK ==
    /\ ing \in [Ingesters -> IngesterState]
    /\ deliveries \in 0 .. MaxDeliveries
    /\ ingestFaults \in 0 .. MaxIngestFaults
    /\ acked \subseteq Items

IngestInit ==
    /\ ing = [h \in Ingesters |-> IdleIngester]
    /\ deliveries = 0
    /\ ingestFaults = 0
    /\ acked = {}

IngestStep(h) ==
    \/ Receive(h)
    \/ FetchFails(h)
    \/ Upsert(h)
    \/ Commit(h)
    \/ Enqueue(h)
    \/ Acknowledge(h)
    \/ EnqueueRaises(h)
    \/ IngesterCrash(h)
    \/ DeadlockVictim(h)

\* The steps of a handler that has taken a batch; delivering and failing are
\* the environment's.
IngestProgress(h) ==
    Upsert(h) \/ Commit(h) \/ Enqueue(h) \/ Acknowledge(h) \/ DeadlockVictim(h)

===============================================================================
