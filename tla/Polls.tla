-------------------------------- MODULE Polls ---------------------------------
(***************************************************************************)
(* What a poll does whichever connector it is of: fetch records one after  *)
(* the other, then store all of them in one transaction together with the  *)
(* health of the source.  A batch is deduplicated by source id and nothing *)
(* else remembers what earlier polls have seen.  One cron job polls.       *)
(***************************************************************************)
EXTENDS Naturals, Sequences, FiniteSets, SequencesExt

CONSTANTS
    Connectors,   \* the sources a deployment may have configured
    TooLong,      \* what has a source id its column cannot hold
    MaxFaults     \* bound: errors of the mail server and of the database

ASSUME PollsAssumption ==
    /\ Connectors \subseteq {"email", "substack"}
    /\ MaxFaults \in Nat

VARIABLES
    source,    \* the configured connector
    items,     \* committed rows of that source: [id, of], of being what arrived
    poll,      \* the cron job: what is still to be fetched, the records so far
    health,    \* last_outcome of the source
    faults

pollVars == <<source, items, poll, health, faults>>

IdlePoll == [pc |-> "idle", todo |-> <<>>, records |-> <<>>]

Stored(id) == \E r \in items : r.id = id

Ingested(x) == \E r \in items : r.of = x

Begin(todo) ==
    /\ poll.pc = "idle"
    /\ poll' = [pc |-> "fetch", todo |-> todo, records |-> <<>>]
    /\ UNCHANGED <<source, items, health, faults>>

\* The fetch at hand yields `records`, possibly none.
Yields(records) ==
    /\ poll.pc = "fetch"
    /\ poll.todo # <<>>
    /\ poll' = [poll EXCEPT !.todo = Tail(@), !.records = @ \o records]
    /\ UNCHANGED <<source, items, health>>

\* fetch() raises: what was read is dropped and the failure recorded.
Drops ==
    /\ poll' = IdlePoll
    /\ health' = "failure"
    /\ UNCHANGED <<source, items>>

\* For a reason that passes.
FetchRaises ==
    /\ faults < MaxFaults
    /\ faults' = faults + 1
    /\ Drops

\* Records in order, the first of an id creating the row, in one transaction
\* with the health record -- also when there is no record at all.
StoreBatch ==
    LET recs == poll.records
        fresh == {n \in DOMAIN recs :
                    ~Stored(recs[n].id) /\ \A k \in 1 .. n - 1 : recs[k].id # recs[n].id}
    IN  /\ poll.pc = "fetch"
        /\ poll.todo = <<>>
        /\ \A n \in DOMAIN recs : recs[n].of \notin TooLong
        /\ items' = items \cup {recs[n] : n \in fresh}
        /\ health' = "success"
        /\ poll' = IdlePoll
        /\ UNCHANGED <<source, faults>>

\* DataError for an id its column cannot hold, or the database fails: rolled
\* back, and only a failed fetch would have been recorded as a failure.
StoreRaises ==
    /\ poll.pc = "fetch"
    /\ poll.todo = <<>>
    /\ \/ /\ \E n \in DOMAIN poll.records : poll.records[n].of \in TooLong
          /\ UNCHANGED faults
       \/ /\ faults < MaxFaults
          /\ faults' = faults + 1
    /\ poll' = IdlePoll
    /\ UNCHANGED <<source, items, health>>

PollsTypeOK ==
    /\ source \in Connectors
    /\ poll.pc \in {"idle", "fetch"}
    /\ health \in {"none", "success", "failure"}
    /\ faults \in 0 .. MaxFaults

PollsInit ==
    /\ source \in Connectors
    /\ items = {}
    /\ poll = IdlePoll
    /\ health = "none"
    /\ faults = 0

===============================================================================
