------------------------------ MODULE Lifecycle -------------------------------
(***************************************************************************)
(* What ingestion and the pipeline promise about one item, with every      *)
(* process, transaction and queue abstracted away: an item is stored once, *)
(* queued at most once per run, worked on by one run at a time, and a run  *)
(* publishes all of its results in one step -- a finished item is final.   *)
(***************************************************************************)
CONSTANTS
    Items,     \* what can be ingested
    Results,   \* what a run can publish for an item
    NoResult   \* nothing published yet

VARIABLES
    stage,     \* [Items -> Stages]
    result     \* [Items -> Results \cup {NoResult}]

vars == <<stage, result>>

Stages == {"unknown", "stored", "queued", "running", "published", "failed", "finished"}

TypeOK ==
    /\ stage \in [Items -> Stages]
    /\ result \in [Items -> Results \cup {NoResult}]

Init ==
    /\ stage = [i \in Items |-> "unknown"]
    /\ result = [i \in Items |-> NoResult]

Move(i, from, to) ==
    /\ stage[i] \in from
    /\ stage' = [stage EXCEPT ![i] = to]

\* A batch of new items becomes durable together.
Store(batch) ==
    /\ \A i \in batch : stage[i] = "unknown"
    /\ stage' = [i \in Items |-> IF i \in batch THEN "stored" ELSE stage[i]]
    /\ UNCHANGED result

Enqueue(i) == Move(i, {"stored"}, "queued") /\ UNCHANGED result

Start(i) == Move(i, {"queued"}, "running") /\ UNCHANGED result

\* The only step that changes what is known about an item.
Publish(i) ==
    /\ Move(i, {"running"}, "published")
    /\ \E r \in Results : result' = [result EXCEPT ![i] = r]

Finish(i) == Move(i, {"published"}, "finished") /\ UNCHANGED result

\* A run is cut short, before or after it published.
Fail(i) == Move(i, {"running", "published"}, "failed") /\ UNCHANGED result

Retry(i) == Move(i, {"failed"}, "queued") /\ UNCHANGED result

Next ==
    \/ \E batch \in SUBSET Items : Store(batch)
    \/ \E i \in Items :
         \/ Enqueue(i)
         \/ Start(i)
         \/ Publish(i)
         \/ Finish(i)
         \/ Fail(i)
         \/ Retry(i)

Spec == Init /\ [][Next]_vars

===============================================================================
