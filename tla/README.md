# Verification of Catchment

TLA+ models of Catchment's concurrent core, the TLC configurations that check
them, and machine-checked proofs of the main safety properties. Paths such as
`jobs/pipeline.py` are relative to `src/catchment/`.

## 1. The system

Catchment collects items (WhatsApp messages, Substack posts, mail), turns them
into text, tags them with an LLM and lets people curate the tag graph. It is a
set of separate processes that meet in three stores and have no shared memory.

| Process | Source | What it does |
|---|---|---|
| API process | `ingestion/whatsapp.py`, `dependencies.py` | verifies a webhook, upserts its messages, commits, enqueues a job per created row, answers 200 |
| Poller (cron) | `jobs/polling.py`, `ingestion/substack.py`, `ingestion/email_imap.py` | fetches records from a connector and follows the same protocol |
| RQ worker | `worker.py`, `jobs/queue.py`, `jobs/pipeline.py` | pops a job and runs `process_item` in a forked process |
| Internal API | `internal_api.py`, `internal_graph_api.py`, `internal_insights_api.py` | dashboard reads, and the one write: deciding a proposal |
| Apply job | `taxonomy/apply.py` | carries out approved proposals; only tests call it at this commit |
| Admin console | `admin/queries/*.sql` | hand-run SQL, including an approval |
| Embedder, Groq, Langfuse, Meta, IMAP | external | answer, fail or time out |

| Store | State |
|---|---|
| PostgreSQL | `items`, `extractions`, `item_embeddings`, `connector_health`, `pipeline_failures`; `tags`, `item_tags`, `tag_edges`, `taxonomy_proposals` |
| Redis (RQ) | queue, started, finished and failed registries |
| Blob directory | media bytes, outside every transaction |

Components, their operations, what is hard, and what makes them correct:

- **Producers.** *Operations:* receive a batch, upsert each record, commit with
  the health record, enqueue, acknowledge. *Hard:* redelivery while the first
  delivery is in flight; two transactions inserting the same keys; a crash
  between commit and enqueue. *Correct when:* an acknowledged batch is durable,
  an item gets at most one job, and no job precedes its row.
- **Queue and workers.** *Operations:* claim, finish, fail, abandon, requeue.
  *Hard:* a worker that dies after its commit and before RQ's record; no retry
  is configured. *Correct when:* one run per item at a time, every job ends in a
  registry, and a finished item is not rewritten.
- **Pipeline.** *Operations:* media, article, passthrough, embed, classify,
  commit; each stage may degrade or raise. *Hard:* everything shares one
  transaction except the blob. *Correct when:* a `raw_ref` resolves, tags have
  the evidence they were derived from, and a degraded item shows that it is.
- **Tag graph.** *Operations:* get-or-create, assign, link under a broader tag,
  merge. *Hard:* `READ COMMITTED`, so every statement may see something else.
  *Correct when:* merges lose no assignment and none stays on a merged tag, the
  hierarchy gets no cycle that the check for one could see, and one answer adds
  a bounded number of tags and edges.
- **Taxonomy review.** *Operations:* approve, reject, apply, mark applied.
  *Hard:* two reviewers, the SQL console and the apply job at once; savepoints,
  deadlock victims and crashes inside a merge; proposals nobody can apply.
  *Correct when:* a proposal is decided once, no tag is folded without a
  recorded approval, and a listed merge is applied in the end.
- **Connectors.** *Operations:* poll a mail folder (search, keep the newest,
  fetch one by one) or a list of feeds; derive a source id; store the batch.
  *Hard:* no watermark is kept, so the source id and the window are all that
  makes a poll exact; the folder is renumbered, a title is edited, a feed is
  down. *Correct when:* a message or post is one item, and one bad message or
  dead feed does not cost the others.
- **Retrieval and the tag explorer.** *Operations:* seed, walk, collect, rank;
  draw a neighbourhood. *Hard:* every statement sees another commit, the graph
  may be cyclic, answers are truncated. *Correct when:* seeds rank first, what
  is within reach is found at its distance, and a drawing is connected.
- **Insights.** *Operations:* count two windows, draw samples, total both.
  *Hard:* six statements, each seeing another commit; an item may commit after
  the report has begun with an `ingested_at` inside its window. *Correct when:*
  an item is counted in one window, totals cover the counts, and the samples are
  evidence of the count they stand beside.
- **Blob store.** *Operations:* put (temporary file, write, sync, rename), then
  commit the reference. *Hard:* failure, kill and power loss at every point; a
  job and its rerun put the same key. *Correct when:* no file under a key is
  torn, a committed reference names a blob, and a put is atomic.
- **Tracing, configuration, logging.** No state of their own (§7).

## 2. Modules

| Module | Models | Extends |
|---|---|---|
| `CatchmentStore` | item tables and constraints, blobs, RQ queue and registries | |
| `Ingestion` | webhook handlers and pollers | `CatchmentStore` |
| `Pipeline` | workers, one action per step and per way out of it | `CatchmentStore` |
| `Catchment` | the composition; properties, fairness, refinement | `Ingestion`, `Pipeline` |
| `Lifecycle` | abstract: what happens to one item | |
| `CatchmentProofs` | theorems about `Catchment`, and what its steps change | `Catchment`, `TLAPS` |
| `ItemProofs` | one job per item, what the pipeline leaves on it, the refinement of `Lifecycle` | `CatchmentProofs` |
| `Sublists` | what a loop keeps of a list | |
| `Lemmas` | induction over sets of numbers, enumerations, sublists, caps | `Sublists`, `TLAPS` |
| `TagStore` | tag tables, open transactions, row locks | |
| `Tagging` | the classification of one item, as the tag graph sees it | `TagStore`, `Sublists` |
| `Merging` | decisions, the apply job, the statements of a merge | `TagStore` |
| `Taxonomy` | the composition, deadlock detection; properties, refinement | `Tagging`, `Merging` |
| `ReviewGate` | abstract: what the review queue promises | |
| `TaxonomyProofs` | merges are reviewed, types, caps, cycles, assignments kept, the refinement of `ReviewGate` | `Taxonomy`, `Lemmas` |
| `Polls` | `poll_source`, record by record: fetch, store, health | |
| `MailPolling` | polls of a mail folder, with the folder as environment | `Polls` |
| `FeedPolling` | polls of feeds, with their publishers as environment | `Polls`, `Sublists` |
| `Polling` | the composition: a deployment with either connector | `MailPolling`, `FeedPolling` |
| `PollingProofs` | one item per mail message and per post, types | `Polling`, `Lemmas` |
| `TagWalks` | bounded walks of the hierarchy, the explorer's neighbourhood | |
| `Corpus` | assignments and edges as transactions commit them | `TagWalks` |
| `Retrieval` | one search, statement by statement | `Corpus` |
| `Insights` | one trends report, statement by statement | `Corpus` |
| `Reads` | the composition: a search or a report against the writers | `Retrieval`, `Insights` |
| `InsightsProofs` | theorems about the report | `Reads`, `TLAPS` |
| `RetrievalProofs` | theorems about the search and the explorer | `Reads`, `Lemmas` |
| `BlobStore` | jobs putting media, and a machine that may lose power | |
| `AtomicBlobs` | abstract: what the blob store promises | |
| `BlobStoreProofs` | theorems about `BlobStore` | `BlobStore`, `TLAPS` |
| `MCCatchment`, `MCTaxonomy`, `MCPolling`, `MCReads`, `MCBlobStore` | instances for TLC | |

### How state corresponds to code

*Catchment.* `rows` and `db` are the committed item rows and what is known
about each (`rawRef`, `extractions`, `embedded`, `tags`, `failures`); `health`
is `connector_health`; `blobs` the files; `queue`, `failed` and `finished` RQ's
queue and registries. `ing[h]` is the local state of one handler or poll:
records still to upsert, and the rows its transaction created, which become the
jobs it owes once it has committed. `work[w]` is a worker's job: where in
`run_pipeline` it is, and the item's row as its open transaction sees it.
Committing copies that row to `db`; an exception throws it away.

*Uniqueness.* `ON CONFLICT DO NOTHING` returns nothing when a visible row has
the key, and waits when an uncommitted one has it; `WaitsFor` and
`DeadlockVictim` are that wait and Postgres's answer to a cycle of them. A job
that has updated its item's row (`set_raw_ref`) also makes such an insert wait:
`HeldByJob`, `GivesWay`.

*Degrading.* `Degrade` inserts the failure row. Its stage is checked against the
CHECK constraint, as the flush inside the handler checks it.

*External failures.* A degrading handler catches the errors it names. Everything
else (a database error, an error of the wrong class, RQ's timeout, `OSError` in
`put`) is `JobRaises`; the death of the work-horse is `WorkerDies`, which may
also come after the commit.

*Taxonomy.* `tags`, `links`, `edges` and `proposals` are committed tables;
`tx[p]` holds what p has written and not committed. `Seen...(p)` is what a
statement of p reads. A write waits while another transaction holds the row, and
reads afresh when it goes on. Foreign keys take `KEY SHARE` locks, which do not
conflict with these updates. The reviewer's transaction decides and then applies
one proposal; the apply job runs a list under savepoints in one transaction.
`SkipInapplicable` is a payload that cannot be applied: its savepoint is rolled
back and the run goes on. Placing a tag is three statements: `FindParent` looks
up the broader tag, `WalkDown` its descendants, `Link` adds the edge, and does
not look again at what the walk saw. `apply.py:8` says one transaction per
proposal; the code uses one session scope for the list (`apply.py:50-64`), and
the model follows the code.

*Polls.* `poll` is the local state of the one cron job: what is still to be
fetched and the records read so far. `MessageId` is `message_source_id`,
`EntryId` the id part of `_to_record`: a message or an entry is reduced to which
identifying fields it has. A message in `Unreadable` has no body, or headers
that raise what the except clause of `_fetch_one` names: it is skipped at every
poll. One in `Breaking` raises something else, as a Date header of 8-bit text
does (an `AttributeError` in the library's date parser), and ends the poll it is
fetched in (`FetchBreaks`). `items` are the committed rows of that source,
`health` its last outcome. `StoreBatch` is the second half of `poll_source` up
to its commit; pushing the created ids to the queue is in `Ingestion`. The
folder and the feeds are environment: the actions that change them are not code
of the repository. `source` says which connector the deployment has; two
connectors share no row, so a deployment with both is two of these.

*Search.* `store` is what is committed; jobs and merges change it between any
two statements of a search. `search` is the local state of `search()`: the
seeds, the walks still to do, the depth each tag was reached at. `start` keeps
the store the search began with, for the properties only. Scores are scaled by
7200, which makes them exact up to depth 8. The vector index is taken as exact.
`item_tag_pairs` returns at most `PairLimit` rows and has no ORDER BY, so
`Collect` takes any that many of the assignments that match. Which hits are left
out is then anybody's guess: `AllRead` says that none was cut, and what a search
promises of nearest depths and of completeness holds only then. `Levels` and
`Kept` are the explorer's `_levels` and `_bound`, as pure operators; their
properties are checked in every graph the run reaches.

*Report.* `report` holds the results `trends()` has so far, one action per
statement (`CountRecent` .. `TotalPrior`). `stamp` is `ingested_at`, which a row
gets when its transaction begins: `Commit` makes an item visible whenever its
transaction ends, with the stamp it had from the start. Time is counted from the
report's own `now`.

*Blobs.* `written` and `synced` are how much of a job's file is in it and how
much of that is on disk; `final` is what a key's name leads to, `onDisk` what it
may lead to after a power loss, since `put` syncs the file and not its
directory. `CommitRef` stands for the rest of the job: `Pipeline` has it in
detail, with a blob that exists or not.

*Abstractions.* A slug is a tag's identity. A suggestion is one that passed the
confidence threshold. Which items count as similar depends on vectors, so any
subset may. Confidences are small numbers with the same order.
`list_approved` orders by stamps of several clocks, so any order is allowed.
Provenance (`assigned_by`, `trace_id`) is not in the tag model. A decision of a
proposal someone has decided already is a 409 and changes nothing, so it is not
a step. `FetchMedia` is `put` and `set_raw_ref` in one step: the key is the
content's digest, so nobody can tell a blob without a reference from none, and
`BlobStore` has what happens inside `put`.

## 3. Runs

| Run | Expected | What it shows |
|---|---|---|
| `catchment_safety` | pass | one API process, one poller, two workers and every fault: job, row, blob, health, tag and failure invariants, that finished records are final, that the inbox tells the truth about them, and that the composition implements `Lifecycle` |
| `catchment_redelivery` | pass | two API processes with overlapping batches and crashes: one job per item, acknowledged is durable; with fairness, queued jobs settle, one whose job raises, is timed out or dies included, and handlers return |
| `catchment_degrade` | violation | finding 1 |
| `catchment_stranded` | violation | finding 2 |
| `taxonomy` | pass | two reviewers, the apply job and the SQL page over two merges behind a split; and a graph growing under one worker with arbitrary answers: nothing is folded without approval, no assignment is lost, listed merges are applied, `ReviewGate` is implemented, no cycle that `link_broader` could have seen, caps hold |
| `taxonomy_merged` | violation | finding 3 |
| `taxonomy_lost` | violation | finding 4 |
| `polling` | pass | a mail folder or feeds that change under the polls: one item per message or post; what stays in the window beside unreadable mail, or on a working feed, is ingested |
| `mail_poison` | violation | finding 5 |
| `feed_outage` | violation | finding 6 |
| `reads` | pass | a search or a report among writers: seeds first, depths are distances, nothing missed unless assignments were cut, drawings connected; counted once, totals cover counts, samples are evidence |
| `blobs` | pass | three puts, two of one key, with failures, kills and two power losses: files whole, references resolve, temporary files explained, `AtomicBlobs` is implemented |

### Bounds and why they are enough

- *Items*: a captioned voice note (media and text), a bare sticker (media, no
  text) and a post (link, no text of its own) take every branch of
  `run_pipeline` between them. Two items of one source give opposite-order
  batches.
- `MaxBatch = 2` allows a duplicate inside a batch and a partial enqueue.
  `MaxDeliveries` 2 or 3 is a delivery, its redelivery while it is in flight,
  and one after it.
- `MaxIngestFaults`, `MaxWorkFaults` and `MaxRequeues` bound faults, not
  behaviour between them. One fault before or after a commit and one rerun
  reaches every recovery path; the redelivery run has two faults of producers and
  one of a worker, so that a job can fail while a handler waits for its row.
- Two workers are interchangeable in `catchment_safety`, hence the symmetry. No
  liveness run uses symmetry.
- *Taxonomy*, in review: two merges into one target, with an item carrying
  source and target, force the collision rule and make two appliers meet on
  rows; a third proposal is an approved split, which cannot be applied and is
  listed before or after the merges. `Limit` is 2, so that a list of the apply
  job can be cut. Edges from the target to a source and between the sources make
  loops and duplicates when they are repointed. `MaxConf = 2` is the least that
  tells greater from smaller.
- *Taxonomy*, growing: two suggestions per answer with a cap of one new tag make
  the cap bite. `MaxDepth` is 3, the longest path among the four tags, so the
  run is about the check and not about its depth bound (8 in production). The
  two situations are two initial states of one run.
- `polling`, mail: four messages, one with a Message-ID, one known by its other
  headers, one without a body, and one with an 8-bit Date; a window of two, so
  that messages leave it unread and any two of them meet in it. One renumbering
  and one fault: ids and windows depend on the last of each.
- `polling`, feeds: two feeds showing one post each, so that posts leave the
  page; two posts share a guid across feeds, one has only a URL and one only a
  title. Two outages, so that both feeds are down at once, or one of them twice.
- `reads`, search: four tags and a depth of two, so that the bound cuts a chain.
  The store begins with at most an assignment and an edge, and after two
  commits, in every order around the statements, there may be two of each: the
  least that puts an item two hops from a seed. Or it begins with two narrower
  tags of a tag of the closest item, both on the next item, so that one commit
  makes a third assignment match and `PairLimit`, which is 2, leaves one out
  (`Started`). One seed and two hits, so that the limit of the answer cuts as
  well. Two drawn nodes, so that almost every neighbourhood is truncated. Tags
  are symmetric; the run has only invariants. With one seed the order of seeds
  is not put to the test, nor is an expanded hit with five matches beside a
  distant seed: that takes `SeedsLead` (§5).
- `reads`, report: windows of two units, and three arrangements of three items
  that put them in the middle and at both ends of either window, before them and
  at `now`. One sample and one reported tag, so that both cuts bite.
- `blobs`: two chunks, so that a file can be half written and half synced; two
  puts of one key and one of another; two power losses, the second of which
  meets what the first one left.

Deadlock checking is on in every run. `Quiescent` and `Settled` are the states
in which the system really has nothing to do; every other state must have a
step.

### Fairness

`FairSpec` assumes that a handler which has a batch and a worker which can take
a step eventually do: RQ's loop keeps popping, external calls have timeouts, and
each handler runs to its end once started. Deliveries, faults, crashes and
requeues have none. A job's own end is enough to release a waiting handler, so
that fairness is weak. In the polling runs cron starts poll after poll and a
poll runs to its end; arrivals, deletions, faults and recoveries have no
fairness, so liveness is claimed only for messages that stay in the window and
feeds that stay up.

In `taxonomy` a process that has begun goes on: weakly for the worker, strongly
for whoever applies proposals, since others may take a row it waits for again
and again, and Postgres queues those that wait for a lock. The victim of a
deadlock is part of that progress. Nobody has to review anything, nothing makes
the apply job start, and every process may die: `ListedMergesApply` is about the
proposals a run has listed.

## 4. Findings

1. **A failed media fetch or article extraction fails the job.**
   `jobs/pipeline.py:170` and `:204` record stages `ck_failures_stage` does not
   admit (`storage/models.py:42,270`). The comment at `pipeline.py:136` says it
   degrades. Run `catchment_degrade`. A consequence for reading the other runs:
   the `fallback` step after a failed article is not reached at this commit.
2. **A committed item can be left without a job and acknowledged.** The push
   follows the commit (`ingestion/whatsapp.py:299-302`), and a redelivery finds
   a duplicate. `README.md:69` relies on Meta's retry. Run `catchment_stranded`;
   `StrandedOnlyByFault` shows that nothing but a fault does it.
3. **Assignments can be left on a merged tag.** A merge never looks at the
   status of its target (`storage/repositories.py:454-488`). Run
   `taxonomy_merged`: the dashboard applies proposals in the order they are
   approved in, so approving "mlops into llmOps" and then "mlOps into mlops"
   moves assignments to a tag that is merged already; `apply.py:9` names that
   state as the one to avoid. A worker gets there too, since `get_or_create`
   uses a row of any status (`repositories.py:318`).
4. **A merge can delete an assignment it did not move.** The DELETE is by tag
   id (`storage/repositories.py:522`), so it takes whatever was committed since
   the SELECT. Run `taxonomy_lost`, where the property that `taxonomy`
   establishes fails as soon as a worker tags meanwhile. The same line loses
   assignments without a worker: one reviewer folds "mlops" into "llmOps" and has
   selected its assignments when another commits "mlOps into mlops"; the
   assignment just moved to "mlops" is deleted with the others, and its item has
   none of the three tags. `NoLinkIsLost` (§5) shows that it takes a worker or
   merges that overlap.
5. **An overlong Message-ID stops the mail connector.** The id is stored at
   whatever length (`ingestion/email_imap.py:156`), the column holds 512
   characters, and the insert is past the guard that skips a bad message
   (`email_imap.py:290`). Every poll rolls back until the message has left the
   window, and health keeps its last outcome. Run `mail_poison`; the feed
   connector truncates its ids (`ingestion/substack.py:158`).
6. **A feed connector that fetches nothing stays healthy.** Every failing feed is
   skipped (`ingestion/substack.py:82-86`), so when all of them fail the poll
   stores nothing and records a success (`jobs/polling.py:66-73`), where
   `polling.py:55-57` says that this is what health exists to surface. Run
   `feed_outage`.

Cycles in the hierarchy (two workers linking at once, a chain longer than the
walked depth, a merge that repoints an edge) are conceded by
`docs/taxonomy.md:64`, so `NoShortCycle` is claimed for one worker, until a merge
is applied, and of cycles no longer than the walk and the edge that closes them.

## 5. Proofs

Every theorem holds for all values of the constants that satisfy the named
assumptions of the modules: finite tables, bounds that are natural numbers,
processes of one kind not being of another.

### Ingestion and pipeline

| Theorem | States |
|---|---|
| `Safety` | `Spec => []SafetyInv` |
| `TypeCorrect` | `TypeOK` |
| `CommitPrecedesEnqueue` | `JobsHaveRows`: no job precedes its row, `LookupError` cannot happen |
| `RawRefsResolve` | `RawRefHasBlob` |
| `HealthCommitsWithItems` | `StoredImpliesHealthy` |
| `AcknowledgedIsDurable` | `AckedIsStored` |
| `JobsInvariant` | `Spec => []JobsInv` |
| `ItemsHaveOneJob` | `OneJobPerItem` |
| `StrandingTakesAFault` | `StrandedOnlyByFault` |
| `FinishedRecordsAreFinal` | `FinishedIsFinal` |
| `RecordsInvariant` | `Spec => []RecordsInv` |
| `TagsNeverOutrun` | `TagsHaveEvidence` |
| `InboxTellsTheTruth` | `InboxExplains` |
| `OutagesAreVisible` | `DegradedIsVisible` |
| `IngestionImplementsLifecycle` | `ImplementsLifecycle` |

*Steps.* A lemma per kind of process summarises its steps by what they change: a
producer takes a batch, inserts, commits, pushes, stops or sees a failed fetch;
a worker takes a job, moves on, publishes or ends a job. The proofs that follow
use the summaries, so that each invariant has one case per kind of step.

*`SafetyInv`.* `AckedIsStored` is not inductive: an acknowledgement adds a
batch, and nothing in it says the batch was committed. `BatchesAccounted` does:
while a batch is upserted each of its items is still to do, created by this
transaction, or in a row; after the commit all are in rows. The same conjunct
says a batch has one source, which is what `StoredImpliesHealthy` needs at the
commit. `JobsHaveRows` includes the ids a producer still owes the queue, so that
a push keeps it.

*`JobsInv`.* An item could get a second job only by being created twice, so the
invariant goes back to the open transactions: a key is inserted by one of them
at most, and by none once a committed row holds it (`KeysHeldOnce`). With that,
the places an item may be in (owed, queued, on a worker, failed, finished) are
disjoint, and every step moves an item from one to the next (`JobsApart`).
`FinishedIsFinal` follows, since whoever writes a record has the job.

*`RecordsInv`.* What a worker has put together before its commit obeys the same
rule as what is committed (`RowOk`), and what it knows at a step of the pipeline
is stated for that step (`JobOk`). The rule is about the item and not the run:
an item without anything to read never gets an extraction, so a rerun finds what
the first run found. One conjunct says that the `fallback` step is never
reached, which is finding 1.

*`Lifecycle`.* `Stage` is rewritten as membership in the places above, and each
summary is one abstract step or none: a commit of a producer is `Store`, a push
`Enqueue`, a claim `Start`, and so on.

### Taxonomy

| Theorem | States |
|---|---|
| `TaxonomyInvariant` | `Spec => []IInv` |
| `MergesAreReviewed` | `MergedByReview` |
| `TaxonomyTypes` | `TypeOK` |
| `CapsAreKept` | `CapsHold` |
| `MergesPassTheGate` | `ImplementsReviewGate`, given `OneApplyJob` and `SourcesExist` |
| `CyclesAreLong` | `NoShortCycle`, given `OneWorker` and `StartsAcyclic` |
| `SmallHierarchiesAreAcyclic` | given these and at most `MaxDepth + 1` tags: no cycle at all until a merge is applied |
| `NoLinkIsLost` | `LinksSurvive`, given `ProposalsApart` and `ReviewsAlone` |

Tags and proposals are committed together, but written one statement after the
other, so the invariant is about open transactions. A transaction in which a tag
is retired has the applied proposal behind it among its own writes
(`Explained`); between retiring and marking it is the proposal at hand that
answers for the tags (`MergeOk`), and the savepoint a failing merge returns to is
explained too. `DecisionsLocked` is what makes the commit harmless to everybody
else: a proposal is in one transaction only, and unless it is marked there it is
still undecided in the table, so that no commit takes an applied proposal back.
`TodoOk` says that whatever is listed has been decided by somebody, whom the mark
keeps: `mark_applied` looks at the copy of the row loaded when it was
listed. `TaxonomyAssumption` keeps workers and appliers apart.

*Types.* `Typed` is about committed rows, every transaction's writes, the
savepoints, and the rows a merge has selected: a selected assignment has a
confidence, since it was one, so that the greater of two is a confidence too.
No writes set a row of `tags` to absent: tags are never deleted.

*Caps.* `_cap_new_tags` looks at the database once, before the first write, and
others commit while the suggestions are applied one by one. `CapsOk` counts the
tags a classification has coined together with those it would have to coin for
what is left of its answer. `CappedFew` says the cap leaves few of them; after
that the set only shrinks, because a tag somebody else commits is one fewer to
coin, and none goes away (`TagsStay`). `Few` allows the placeholder beyond the
cap, which `assign_unclassified` coins whatever the setting is. Edges are
counted by the loop itself, which looks at the count two statements before it
adds one. In the run an answer has no more suggestions than `MaxNewEdges`, so that
only the cap on tags bites there; the theorem is about every setting.

*`ReviewGate`.* A commit has to be one step of the gate, so the invariant
(`GateInv`) is about what a transaction would commit at any moment. It accounts
for the tags it has retired by the merges it has marked, and by the one between
its retirement and its mark: each retired tag goes to the target of one of them,
and no source of theirs is left out (`Accounted`). A savepoint accounts for its
own, so that a statement that fails leaves a transaction that still does. A
reviewer's transaction holds one proposal, still pending in the table
(`Reviewing`); the apply job's holds approved ones, all marked (`Running`). What
a worker commits is tags nobody had, so it is a stutter, as is everything that
is not a commit (`OnlyCommitsShow`), except that the admin page's query is a
`Record`. Savepoints, deadlock victims and crashes need no step of their own.

The theorem has two hypotheses about the constants, both true of the instances
TLC checks. `OneApplyJob`: two runs that list the same proposals, with a source
in common, could fold a tag again; nothing in the repository starts even one.
`SourcesExist`: the UPDATE that retires sources touches those there are, and a
proposal cites ids of rows, of which none is ever deleted.

*Cycles.* `link_broader` walks down from the child as deep as `MaxDepth` and
then adds one edge, among edges it has written itself and edges others have
committed. `TreeInv` says that the edges a worker sees, and the committed ones,
have no cycle of up to `MaxDepth + 1` edges (`GrowsOk`, `NoCycleWithin`). The
step that matters is `EdgeIsSafe`: a cycle through the new edge can be cut after
the last use of that edge (`LastUse`), and what remains is a path down from the
child that the walk had seen. Between the walk and the insert a worker remembers
only that it found nothing; `GrowsOk` says it is still so. The rest of the
invariant says why nobody else's commit spoils that: another worker would
(`OneWorker`), and an applier rewrites edges only in a transaction that also
retires a tag. While the edges of the merge at hand are rewritten and its tags
are not retired yet, it has a tag left to retire (`EdgesAccounted`, `FoldsOk`),
which nobody else can retire first (`TagsLocked`); so after a commit that
changes old edges a tag is merged, and the property is about graphs in which
none is. `descendants` is a recursive function (`Level`), not the library's
`TransitiveClosure`, because the depth bound is what the property depends on and
because the provers can unfold it.

`SmallHierarchiesAreAcyclic` is the case in which the bound does not matter: the
sets of tags reached within `n` edges grow until they stop, and cannot grow more
often than there are tags (`AllBelow`), so a walk as deep as there are tags sees
everything below one. `MaxDepth` is 8 in production, and every larger graph can
have a long cycle.

*Assignments.* An assignment of a folded tag has to be found again, in the same
commit, on the tag it was folded into. `LinksInv` says what each applier's
transaction would leave behind: every deleted assignment is carried over, with at
least its confidence, to the target of a proposal that the transaction records as
folding its tag, or of the proposal at hand between the DELETE and the UPDATE
(`Carried`, `InHand`); between the SELECT and the DELETE every assignment of a
source is still to be moved or moved already (`UnderWay`). Savepoints satisfy the
same (`CarriesOk`), so a merge that fails or is the victim of a deadlock leaves a
transaction that still does. `ToTargets` says that transactions add assignments
to targets only, and `ProposalsApart` that no target is folded by somebody else:
so the DELETE sees what the SELECT saw. `LinksLocked` makes the commits of two
appliers commute. `Heirs` is the least set closed under "was merged into", and
one step of it is all the proof needs.

*Hypotheses.* All are true of the instance of `taxonomy`, and each is needed.
`OneWorker`: `docker-compose.yml` starts one `worker` service, which runs one
`catchment-worker`; TLC finds a cycle of two edges with two. `StartsAcyclic`: the
tables begin without a short cycle, as empty ones do. `ReviewsAlone`: an initial
state has either no classification to come or nothing to review, which no code
enforces; `taxonomy_lost` is what happens otherwise. `ProposalsApart`: what one
applicable proposal folds no other folds or folds into; nothing enforces that
either, and two overlapping merges lose an assignment as finding 4 says (TLC finds
it in 19 states with two reviewers, `Taggers = {}` and the chain of `ChainStart`
whose middle tag an item carries).

### Connectors

| Theorem | States |
|---|---|
| `PollInvariant` | `Spec => []IInv` |
| `PollingTypes` | `TypeOK` |
| `MessagesAreOneItem` | `OneItemPerMessage` |
| `PostsAreOneItem` | `OneItemPerPost` |

The unique key alone does not give it: two polls could read one message under
two ids. `IdsAgree` says they cannot, for records stored and records read in the
poll that is running, since a message with an identifying header has one id
whatever its number in the folder. For a post the same is said of its guid, or
of its URL where it has none; an entry's title goes into the id of neither. What
the loops over a page and a folder keep is a `Picked` sublist, whose elements
are those of the list at the kept positions (`PickedByPlace`, `PickedIsList`).

### Report

| Theorem | States |
|---|---|
| `ReportInvariant` | `Spec => []IInv` |
| `TotalsCover` | `TotalsCoverCounts` |
| `ItemsCountOnce` | `CountedOnce` |
| `EvidenceIsThere` | `SamplesAreEvidence` |

Each result is held between two counts no later commit can spoil: of the items
there were when the report began, which never changes, and of the items there
are now, which only grows until a merge. The totals are compared with the items
present, which grow through merges as well.

### Search and explorer

| Theorem | States |
|---|---|
| `CorpusInvariant` | `Spec => []CorpusInv` |
| `ReadsTypes` | `TypeOK` of `Reads` |
| `DrawnIsConnected` | `ExplorerIsConnected` |
| `SearchInvariant` | `Spec => []SearchInv` |
| `SeedsLead` | `SeedsComeFirst` |
| `DepthsAreDistances` | `DepthIsDistance` |
| `ExpansionIsComplete` | `NothingMissed` |

A search reads one store after another, so its invariant holds what it has found
between two of them. Short of a merge, links and edges only arrive: a tag
reached at depth n is n hops from a tag of the seeds as the graph is now
(`WalkedNoFurther`), and what was n hops away when the search began has been
reached at n or less, by the walks that are done (`WalkedAllTheWay`). Both
survive every commit, and at the answer they become the two bounds of
`DepthIsDistance`. The second bound, and `NothingMissed`, need all matching
assignments among the rows read (`AllRead`): below `PairLimit` there is one
choice of rows, all of them, and since assignments only arrive until a merge,
what is all now was all when they were read. The first bound needs no such
thing: the rows read are assignments, so a cut can lengthen a depth and not
shorten it. The properties speak of shortest simple paths and the code walks
level by level: `ShortestPaths` builds a path from the levels of a walk,
`ShortestIsSimple` shows that it visits no tag twice, `PathsAreWalked` goes
back.

`SeedsComeFirst` needs seeds sorted by score and every score of a seed above
those of items found by expansion; then a stable sort leaves the seeds where
they are (`RankingKeeps`). `NothingMissed` uses the same lemma: what the limit
cut off scores no more than what it left, and expanded scores fall with depth
(`ScoreFalls`).

`ExplorerIsConnected` is about every graph, not every state. `_bound` keeps the
nearest tags first, so the neighbour through which a tag was met, being nearer,
is kept whenever the tag is (`NeighbourIsNearer`, `NearerIsKept`).

*Lemmas.* The library's induction theorems take an operator as a parameter,
which the installed provers cannot instantiate. `Lemmas` does without:
`LeastNumber` follows from the library's theorem that the strict-subset ordering
of finite sets is well founded, and `AllNumbers` is induction for a set of
numbers in the place of a predicate. `Ranks` and `Places` say that the elements
of a finite set of numbers are counted by how many are below them, which is what
sublists are made of.

### Blob store

| Theorem | States |
|---|---|
| `BlobInvariant` | `Spec => []IInv` |
| `BlobTypes` | `TypeOK` |
| `NoTornFiles` | `FilesAreWhole` |
| `ReferencesResolve` | `RefsResolve` |
| `TempsExplained` | `TempsAreExplained` |
| `PutsAreAtomic` | `ImplementsAtomicBlobs` |

`FilesAreWhole` is not inductive: a power loss shortens a file to what was
synced and brings back a name an earlier rename gave. `SyncedFirst` is: whatever
a key may ever lead to has been synced to its end, because a job renames only
after it has synced. With it the value a key has in the abstract store is the
file under it, and each step maps: `Replace` is `Put`, `DirectoryWritten` is
`Settle`, a power loss is one, everything else stutters.

### Model-checked only

Liveness: the prover does not reason about fairness and `ENABLED`. Every
invariant the passing runs check, and every action property and refinement, is a
theorem.

## 6. Mutants

Every property of a passing run has a mutant: an operator beside the action it
replaces, marked as a mutation, that makes the kind of mistake the code avoids
(a push before the commit, a missing unique key, a health record in another
transaction, a reviewer's UPDATE without its WHERE, statements committed one by
one). Under it the run finds the property violated. No specification uses them.

## 7. Not modelled

- Parsing and formatting: webhook payloads, feeds, MIME, HTML, prompts, JSON.
- Read-only listings: paging of the inbox, queue counts, tag list, labels.
- A search or a report that a merge overlaps is in the model, and its properties
  exempt it: a search may miss items the merge moves, a report may show a count
  without its samples.
- Tracing: whether a buffered trace survives the end of a forked job process is
  decided by RQ and the Langfuse client. `worker.py:42-45` flushes in the parent.
- Health after a batch that could not be stored: modelled, and the documents
  leave open what is right.
- Proposals approved in the SQL page or abandoned by their merge, which the
  dashboard does not list: the states are in `Taxonomy`, no property is about
  who sees them.
- Configuration, logging, redaction, migrations, the dashboard and deployment.
- Two apply jobs: nothing starts even one. The identity map, which could return
  a copy of a proposal loaded before the other job applied it, would matter then.
- Two workers tagging at once: a listed hazard.
- Creating proposals: only tests call `propose_merge` and `propose_split`.
- Deleting blobs: only tests call `delete`.
- Resolving a failure row, and the remaining admin queries.

## 8. Plan

The order is by how much of the system's behaviour depends on the part.

1. *Done:* ingestion and pipeline, `Lifecycle`, the first theorems; tag graph,
   review and merging, `ReviewGate`.
2. *Done:* connectors (source ids, the IMAP window, feed failures and health);
   retrieval, the explorer and insights against writers.
3. *Done:* the apply job's liveness, chains of merges; the blob store and its
   refinement, proved.
4. *Done:* proofs of the safety properties of `Catchment` and its refinement of
   `Lifecycle`; of `MergedByReview`, `OneItemPerMessage` and the report.
5. *Done:* proofs of `OneItemPerPost`, of what a search and the explorer answer,
   of the caps, and of every type invariant.
6. *Done:* the refinement of `ReviewGate`, for one apply job.
7. *Done:* cycles, for one worker and as far as the walk of `link_broader` sees;
   no assignment lost by merges of disjoint tags that no worker runs beside.

New properties go into the existing runs where their instances fit.
