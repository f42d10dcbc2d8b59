------------------------------- MODULE TagStore -------------------------------
(***************************************************************************)
(* The four tables of the tag graph -- tags, item_tags, tag_edges and      *)
(* taxonomy_proposals -- and the transactions open on them.  Postgres runs *)
(* at READ COMMITTED: a statement sees what is committed when it runs plus *)
(* its own transaction's writes, and a write to a row some other open      *)
(* transaction has written waits for that transaction to end.              *)
(***************************************************************************)
EXTENDS Naturals, Sequences, FiniteSets, Functions

CONSTANTS
    Items,
    Tags,         \* tag identities; a slug names one tag for ever
    NoTag,
    Proposals,
    KindOf,       \* [Proposals -> {"merge", "split"}]
    SourcesOf,    \* [Proposals -> SUBSET Tags]: the payload's source_tag_ids
    TargetOf,     \* [Proposals -> Tags]: the payload's target_tag_id
    MaxConf,      \* confidences are 1 .. MaxConf, ordered like the floats
    Procs,        \* everything that opens transactions
    People,       \* reviewer identities
    Nobody,
    Starts        \* stores to begin with: the active tags, their assignments, the
                  \* <<parent, child>> edges, the status of the proposals, and the
                  \* classifications that have run

ASSUME TagStoreAssumption ==
    /\ NoTag \notin Tags
    /\ KindOf \in [Proposals -> {"merge", "split"}]
    /\ SourcesOf \in [Proposals -> SUBSET Tags]
    /\ TargetOf \in [Proposals -> Tags]
    /\ MaxConf \in Nat \ {0}
    /\ Nobody \notin People
    /\ \A s \in Starts :
         /\ s.tags \subseteq Tags
         /\ s.links \in [Items \X Tags -> 0 .. MaxConf]
         /\ \A k \in Items \X Tags : s.links[k] > 0 => k[2] \in s.tags
         /\ s.edges \subseteq s.tags \X s.tags
         /\ s.status \in [Proposals -> {"pending", "approved", "rejected"}]

VARIABLES
    tags,       \* [Tags -> TagRow]
    links,      \* item_tags: [Items \X Tags -> 0 .. MaxConf], 0 for no row
    edges,      \* tag_edges: [Tags \X Tags -> BOOLEAN], <<parent, child>>
    proposals,  \* [Proposals -> ProposalRow]
    tx          \* [Procs -> uncommitted writes, table by table and row by row]

tables == <<tags, links, edges, proposals>>
tagVars == <<tables, tx>>

TagRow == [status : {"absent", "active", "merged"}, into : Tags \cup {NoTag}]

ProposalRow == [status : {"pending", "approved", "rejected", "applied"},
                by : People \cup {Nobody}]

Absent == [status |-> "absent", into |-> NoTag]
Active == [status |-> "active", into |-> NoTag]

NoWrites == [tags |-> <<>>, links |-> <<>>, edges |-> <<>>, proposals |-> <<>>]

\* `table` with the rows in `written` replaced.
Over(table, written) ==
    [k \in DOMAIN table |-> IF k \in DOMAIN written THEN written[k] ELSE table[k]]

\* `written` with the rows K set to v.
Put(written, K, v) ==
    [k \in DOMAIN written \cup K |-> IF k \in K THEN v ELSE written[k]]

(***************************************************************************)
(* What process p sees.                                                    *)
(***************************************************************************)

SeenTags(p) == Over(tags, tx[p].tags)
SeenLinks(p) == Over(links, tx[p].links)
SeenEdges(p) == Over(edges, tx[p].edges)
SeenProposals(p) == Over(proposals, tx[p].proposals)

Exists(p, t) == SeenTags(p)[t].status # "absent"
IsActive(p, t) == SeenTags(p)[t].status = "active"

(***************************************************************************)
(* Row locks.                                                              *)
(***************************************************************************)

\* Names of rows.
TagKeys(K) == {<<"tag", t>> : t \in K}
LinkKeys(K) == {<<"link", k>> : k \in K}
EdgeKeys(K) == {<<"edge", k>> : k \in K}
ProposalKeys(K) == {<<"proposal", q>> : q \in K}

\* The rows p's transaction holds until it ends.
Locks(p) ==
    TagKeys(DOMAIN tx[p].tags) \cup LinkKeys(DOMAIN tx[p].links)
      \cup EdgeKeys(DOMAIN tx[p].edges) \cup ProposalKeys(DOMAIN tx[p].proposals)

\* No other transaction holds a row of `wanted`.
Free(p, wanted) == \A q \in Procs \ {p} : Locks(q) \cap wanted = {}

(***************************************************************************)
(* The steps of a transaction.                                             *)
(***************************************************************************)

WriteTags(p, K, v) == tx' = [tx EXCEPT ![p].tags = Put(@, K, v)]
WriteLinks(p, K, v) == tx' = [tx EXCEPT ![p].links = Put(@, K, v)]
WriteEdges(p, K, v) == tx' = [tx EXCEPT ![p].edges = Put(@, K, v)]
WriteProposals(p, K, v) == tx' = [tx EXCEPT ![p].proposals = Put(@, K, v)]

Rollback(p) == tx' = [tx EXCEPT ![p] = NoWrites] /\ UNCHANGED tables

\* Everything p wrote becomes visible at once.
CommitTx(p) ==
    /\ tags' = SeenTags(p)
    /\ links' = SeenLinks(p)
    /\ edges' = SeenEdges(p)
    /\ proposals' = SeenProposals(p)
    /\ tx' = [tx EXCEPT ![p] = NoWrites]

TagStoreTypeOK ==
    /\ tags \in [Tags -> TagRow]
    /\ links \in [Items \X Tags -> 0 .. MaxConf]
    /\ edges \in [Tags \X Tags -> BOOLEAN]
    /\ proposals \in [Proposals -> ProposalRow]
    /\ \A p \in Procs :
         /\ DOMAIN tx[p].tags \subseteq Tags
         /\ Range(tx[p].tags) \subseteq TagRow
         /\ DOMAIN tx[p].links \subseteq Items \X Tags
         /\ Range(tx[p].links) \subseteq 0 .. MaxConf
         /\ DOMAIN tx[p].edges \subseteq Tags \X Tags
         /\ Range(tx[p].edges) \subseteq BOOLEAN
         /\ DOMAIN tx[p].proposals \subseteq Proposals
         /\ Range(tx[p].proposals) \subseteq ProposalRow

TagStoreInit(s) ==
    /\ tags = [t \in Tags |-> IF t \in s.tags THEN Active ELSE Absent]
    /\ links = s.links
    /\ edges = [e \in Tags \X Tags |-> e \in s.edges]
    /\ proposals = [q \in Proposals |->
         [status |-> s.status[q],
          by |-> IF s.status[q] = "pending" THEN Nobody ELSE CHOOSE person \in People : TRUE]]
    /\ tx = [p \in Procs |-> NoWrites]

===============================================================================
