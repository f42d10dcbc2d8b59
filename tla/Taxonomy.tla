------------------------------- MODULE Taxonomy -------------------------------
(***************************************************************************)
(* The tag graph under everything that writes it: workers tagging items    *)
(* (Tagging), and reviewers and the apply job deciding and running         *)
(* proposals (Merging).                                                    *)
(***************************************************************************)
EXTENDS Tagging, Merging

\* A worker is neither a dashboard request nor the apply job.
ASSUME TaxonomyAssumption == Taggers \cap Appliers = {}

vars == <<tagVars, taggingVars, merge>>

Init == \E s \in Starts : TagStoreInit(s) /\ TaggingInit(s) /\ MergingInit

(***************************************************************************)
(* Deadlock.  Postgres aborts a transaction of any cycle of waiting ones.  *)
(***************************************************************************)

\* The rows one statement of p could be waiting for; several when p may take
\* rows in more than one order.
Wanted(p) ==
    IF p \in Taggers
    THEN {TaggerWants(p)}
    ELSE CASE merge[p].pc = "move" -> {ApplierWants(p, r, <<>>) : r \in merge[p].rows}
           [] merge[p].pc = "repoint" -> {ApplierWants(p, <<>>, e) : e \in merge[p].pairs}
           [] OTHER -> {ApplierWants(p, <<>>, <<>>)}

\* The processes p may be waiting for.
Blockers(p) ==
    {q \in (Taggers \cup Appliers) \ {p} : \E w \in Wanted(p) : Locks(q) \cap w # {}}

\* p is on a cycle of waiting processes.
Deadlocked(p) ==
    LET ahead[n \in Nat] ==
            IF n = 0 THEN Blockers(p) ELSE UNION {Blockers(q) : q \in ahead[n - 1]}
    IN  p \in UNION {ahead[n] : n \in 1 .. Cardinality(Appliers \cup Taggers)}

\* A victim that is an applier is inside a savepoint, so only the proposal at
\* hand is lost.  A victim that is a tagger fails its job, as FailTagging lets
\* it at any time.
Victim(p) ==
    /\ ~AtRest(p)
    /\ Deadlocked(p)
    /\ AbandonMerge(p)

Settled ==
    /\ \A p \in Taggers : job[p].pc = "idle"
    /\ runs = MaxRuns
    /\ \A p \in Appliers : AtRest(p)
    /\ \A q \in Proposals : proposals[q].status # "pending"
    /\ UNCHANGED vars

Next ==
    \/ \E p \in Taggers : TaggingStep(p) /\ UNCHANGED merge
    \/ \E p \in Appliers : ApplierStep(p) /\ UNCHANGED taggingVars
    \/ \E q \in Proposals : AdminApproves(q) /\ UNCHANGED taggingVars
    \/ \E p \in Appliers : Victim(p) /\ UNCHANGED taggingVars
    \/ Settled

Spec == Init /\ [][Next]_vars

\* Transactions run on, Postgres ends deadlocks and queues whoever waits for a
\* row.  Nobody has to review, nothing starts the apply job, and whatever is
\* running may die.
FairSpec ==
    /\ Spec
    /\ \A p \in Taggers : WF_vars(TaggingProgress(p) /\ UNCHANGED merge)
    /\ \A p \in Appliers :
         SF_vars((ApplierProgress(p) \/ Victim(p)) /\ UNCHANGED taggingVars)

TypeOK == TagStoreTypeOK /\ TaggingTypeOK /\ MergingTypeOK

(***************************************************************************)
(* Properties.                                                             *)
(***************************************************************************)

\* No tag is folded away except by a proposal a named person approved and that
\* is recorded as applied, whatever crashes, deadlocks and races happen.
MergedByReview ==
    \A t \in Tags : tags[t].status = "merged" =>
        \E q \in Proposals :
            /\ proposals[q].status = "applied"
            /\ proposals[q].by # Nobody
            /\ t \in SourcesOf[q]
            /\ tags[t].into = TargetOf[q]

\* Where the items of a tag may be found: the tag, what it was merged into, what
\* that was merged into, and so on.
Heirs(t) ==
    {u \in Tags : \A K \in SUBSET Tags :
        t \in K /\ (\A x \in K : tags[x].into \in K \cup {NoTag}) => u \in K}

\* An assignment disappears only by being carried over, with at least its
\* confidence, to the tag its own was merged into.
LinksSurvive ==
    [][\A i \in Items, t \in Tags :
          links[<<i, t>>] > 0 /\ links'[<<i, t>>] = 0 =>
              \E u \in Heirs(t)' : links'[<<i, u>>] >= links[<<i, t>>]]_vars

\* With one worker tagging, link_broader closes no cycle its depth-bounded walk
\* could have seen, as long as no merge has repointed an edge: whoever descends
\* from a tag is not back at it within MaxDepth + 1 edges.
NoShortCycle ==
    (\A t \in Tags : tags[t].status # "merged") =>
        \A t \in Tags : t \notin Below(edges, t, MaxDepth + 1)

\* However an answer is worded, one classification adds at most MaxNewTags
\* tags and MaxNewEdges edges, counted in the database and not in the answer;
\* only the placeholder is coined whatever the cap.
CapsHold ==
    \A p \in Taggers :
        /\ \/ Cardinality(DOMAIN tx[p].tags) <= MaxNewTags
           \/ DOMAIN tx[p].tags = {Placeholder}
        /\ Cardinality(DOMAIN tx[p].edges) <= MaxNewEdges

\* "One unapplicable proposal must not stall every proposal queued behind it":
\* what a run of the apply job has listed, or a reviewer approved, is applied
\* unless it failed itself or its process died.
ListedMergesApply ==
    \A p \in Appliers, q \in Proposals :
        Applicable(q) /\ q \in Range(merge[p].todo) ~>
            (proposals[q].status = "applied" \/ q \in merge[p].failed \/ merge[p].pc = "dead")

\* "Committing part-way would leave assignments pointing at a tag already
\* marked merged": no assignment points at one.
ActiveTagsOnly ==
    \A i \in Items, t \in Tags : links[<<i, t>>] > 0 => tags[t].status # "merged"

(***************************************************************************)
(* Refinement.                                                             *)
(***************************************************************************)

Gate == INSTANCE ReviewGate WITH
            status <- [q \in Proposals |-> proposals[q].status],
            by <- [q \in Proposals |-> proposals[q].by],
            into <- [t \in Tags |-> tags[t].into]

\* Deciding and applying proposals, statement by statement, implements the gate.
ImplementsReviewGate == Gate!Spec

===============================================================================
