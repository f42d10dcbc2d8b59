---------------------------- MODULE CatchmentStore ----------------------------
(***************************************************************************)
(* The state Catchment's processes share: the committed Postgres rows      *)
(* (storage/models.py), the blob directory, the connector_health table and *)
(* RQ's queue with its registries.  Every process sees only what is        *)
(* committed here; what a transaction has written and not committed is     *)
(* kept in the process's own variables (Ingestion, Pipeline).              *)
(***************************************************************************)
EXTENDS Naturals, Sequences, Functions

CONSTANTS
    Items,       \* distinct (source, source_id) pairs the outside world can deliver
    Sources,     \* connector names: "whatsapp", "email", "substack"
    SourceOf,    \* [Items -> Sources]
    MediaItems,  \* items whose meta carries a wa_media_id
    LinkItems,   \* items of kind link/article with a url
    TextItems    \* items whose job carries source-supplied, non-blank text

ASSUME ItemsAssumption ==
    /\ SourceOf \in [Items -> Sources]
    /\ MediaItems \subseteq Items
    /\ LinkItems \subseteq Items
    /\ TextItems \subseteq Items

VARIABLES
    rows,      \* items with a committed row in `items`
    db,        \* [Items -> ItemRow]: the committed artefacts of each item
    blobs,     \* items whose bytes are at their final path in the blob store
    health,    \* [Sources -> HealthRow]: the connector_health table
    queue,     \* RQ's pending list: job arguments are the item id (and its text)
    failed,    \* RQ's FailedJobRegistry: [item, cause]
    finished   \* items whose job RQ recorded as successful

storeVars == <<rows, db, blobs, health, queue, failed, finished>>

(***************************************************************************)
(* Rows.                                                                   *)
(***************************************************************************)

\* The stages the CHECK constraint ck_failures_stage admits.
PipelineStages == {"extraction", "embedding", "classification"}

Extractors == {"article", "passthrough"}

\* "unclassified" is the placeholder tag, assigned_by 'import'; "llm" stands
\* for every tag a model decision assigned.
TagMarks == {"unclassified", "llm"}

\* One item's derived state: items.raw_ref, the extractors with a row in
\* `extractions`, whether `embeddings` has a row, the marks in `item_tags` and
\* the stages with a row in `pipeline_failures`.
ItemRow == [rawRef : BOOLEAN,
            extractions : SUBSET Extractors,
            embedded : BOOLEAN,
            tags : SUBSET TagMarks,
            failures : SUBSET PipelineStages]

BareRow == [rawRef |-> FALSE, extractions |-> {}, embedded |-> FALSE,
            tags |-> {}, failures |-> {}]

\* last_outcome, and whether last_success_at is set.
HealthRow == [outcome : {"none", "success", "failure"}, succeeded : BOOLEAN]

\* ConnectorHealthRepository.record: an upsert that advances last_success_at
\* on success only.
RecordHealth(source, outcome) ==
    [health EXCEPT ![source] =
        [outcome |-> outcome, succeeded |-> @.succeeded \/ outcome = "success"]]

(***************************************************************************)
(* Jobs.                                                                   *)
(***************************************************************************)

\* Why a job is in the failed registry: the row was gone, the failure row was
\* refused by the database, anything else raised, or the work-horse died.
Causes == {"LookupError", "IntegrityError", "Exception", "Abandoned"}

Queued == Range(queue)

FailedItems == {f.item : f \in failed}

StoreTypeOK ==
    /\ rows \subseteq Items
    /\ db \in [Items -> ItemRow]
    /\ blobs \subseteq Items
    /\ health \in [Sources -> HealthRow]
    /\ queue \in Seq(Items)
    /\ failed \subseteq [item : Items, cause : Causes]
    /\ finished \subseteq Items

StoreInit ==
    /\ rows = {}
    /\ db = [i \in Items |-> BareRow]
    /\ blobs = {}
    /\ health = [s \in Sources |-> [outcome |-> "none", succeeded |-> FALSE]]
    /\ queue = <<>>
    /\ failed = {}
    /\ finished = {}

===============================================================================
