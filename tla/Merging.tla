------------------------------- MODULE Merging --------------------------------
(***************************************************************************)
(* Deciding and applying taxonomy proposals.  A reviewer's decision and    *)
(* the merge it releases share one transaction; the apply job runs every   *)
(* approved proposal it has listed in one transaction, each proposal under *)
(* a savepoint of its own.  A merge moves assignments, repoints edges and  *)
(* retires the source tags, statement by statement.                        *)
(***************************************************************************)
EXTENDS TagStore

CONSTANTS
    Reviewers,   \* dashboard requests, a subset of Procs
    ApplyJobs,   \* processes in apply_approved_proposals, a subset of Procs
    PersonOf,    \* [Reviewers -> People]: body.reviewer of the request
    AdminUser,   \* the person approving through the SQL admin page
    Limit        \* apply_approved_proposals(limit)

Appliers == Reviewers \cup ApplyJobs

ASSUME MergingAssumption ==
    /\ Appliers \subseteq Procs
    /\ PersonOf \in [Reviewers -> People]
    /\ AdminUser \in People
    /\ Limit \in Nat
    /\ IsFiniteSet(Proposals)

VARIABLE merge   \* [Appliers -> MergeState]

\* todo: proposals still to run, the head being the one at hand; failed: those
\* that were logged as "could not be applied"; rows and pairs: what the last
\* SELECT of item_tags or tag_edges returned and is still to be rewritten; saved:
\* the transaction's writes at the savepoint.
MergeStateOK(s) ==
    /\ s.pc \in {"idle", "dead", "next", "move", "drop", "edges", "repoint",
                 "unlink", "retire", "mark"}
    /\ s.todo \in Seq(Proposals)
    /\ s.failed \subseteq Proposals
    /\ s.rows \subseteq (Items \X Tags) \X (1 .. MaxConf)
    /\ s.pairs \subseteq Tags \X Tags
    /\ DOMAIN s.saved = DOMAIN NoWrites

IdleMerge == [pc |-> "idle", todo |-> <<>>, failed |-> {}, rows |-> {}, pairs |-> {},
              saved |-> NoWrites]

\* Nothing is running: the last request or run is over, or died.
AtRest(p) == merge[p].pc \in {"idle", "dead"}

\* The proposal at hand, its target, and its sources without the target.
This(p) == Head(merge[p].todo)
Target(p) == TargetOf[This(p)]
Sources(p) == SourcesOf[This(p)] \ {Target(p)}

\* _execute raises at once for a split, and for a merge of a tag into itself.
Applicable(q) == KindOf[q] = "merge" /\ SourcesOf[q] \ {TargetOf[q]} # {}

GotoMerge(p, pc) == merge' = [merge EXCEPT ![p].pc = pc]

(***************************************************************************)
(* What a statement selects, and the rows it writes.                       *)
(***************************************************************************)

LinksOf(p, S) == {k \in Items \X S : SeenLinks(p)[k] > 0}

EdgesOf(p, S) == {e \in Tags \X Tags : SeenEdges(p)[e] /\ (e[1] \in S \/ e[2] \in S)}

\* The link of row r after the merge.
Moved(p, r) == <<r[1][1], Target(p)>>

\* An edge with every source replaced by the target.
Repointed(p, e) ==
    LET To(t) == IF t \in Sources(p) THEN Target(p) ELSE t IN <<To(e[1]), To(e[2])>>

\* Rows and pairs are rewritten one statement at a time, in the order the
\* SELECT happened to return: any of them may be next.
ApplierWants(p, r, e) ==
    CASE merge[p].pc = "move" -> LinkKeys({Moved(p, r)})
      [] merge[p].pc = "drop" -> LinkKeys(LinksOf(p, Sources(p)))
      [] merge[p].pc = "repoint" -> EdgeKeys({Repointed(p, e)})
      [] merge[p].pc = "unlink" -> EdgeKeys(EdgesOf(p, Sources(p)))
      [] merge[p].pc = "retire" -> TagKeys({t \in Sources(p) : Exists(p, t)})
      [] merge[p].pc = "mark" -> ProposalKeys({This(p)})
      [] OTHER -> {}

(***************************************************************************)
(* Decisions.                                                              *)
(***************************************************************************)

\* Mutation of Decide: the UPDATE has no WHERE status = 'pending'.
DecideAnything(p, q, verdict) ==
    /\ AtRest(p)
    /\ Free(p, ProposalKeys({q}))
    /\ WriteProposals(p, {q}, [status |-> verdict, by |-> PersonOf[p]])
    /\ merge' = [merge EXCEPT ![p] = [IdleMerge EXCEPT
                    !.pc = "next", !.todo = IF verdict = "approved" THEN <<q>> ELSE <<>>]]
    /\ UNCHANGED tables

\* decide_proposal: UPDATE ... WHERE status = 'pending'; a proposal decided
\* meanwhile is a 409 and changes nothing.  An approval goes on to be applied.
Decide(p, q, verdict) ==
    /\ AtRest(p)
    /\ Free(p, ProposalKeys({q}))
    /\ SeenProposals(p)[q].status = "pending"
    /\ WriteProposals(p, {q}, [status |-> verdict, by |-> PersonOf[p]])
    /\ merge' = [merge EXCEPT ![p] = [IdleMerge EXCEPT
                    !.pc = "next", !.todo = IF verdict = "approved" THEN <<q>> ELSE <<>>]]
    /\ UNCHANGED tables

\* The admin page's approve query: one statement, committed by itself, and
\* nothing applied.
AdminApproves(q) ==
    /\ \A p \in Procs : q \notin DOMAIN tx[p].proposals
    /\ proposals[q].status = "pending"
    /\ proposals' = [proposals EXCEPT ![q] = [status |-> "approved", by |-> AdminUser]]
    /\ UNCHANGED <<tags, links, edges, tx, merge>>

\* list_approved: up to Limit approved proposals by reviewed_at.  The stamps
\* come from several clocks, so any order may be returned.
ListApproved(p) ==
    /\ AtRest(p)
    /\ LET approved == {q \in Proposals : SeenProposals(p)[q].status = "approved"}
           size == IF Cardinality(approved) < Limit THEN Cardinality(approved) ELSE Limit
       IN  /\ size > 0
           /\ \E listed \in [1 .. size -> approved] :
                /\ IsInjective(listed)
                /\ merge' = [merge EXCEPT ![p] = [IdleMerge EXCEPT
                                !.pc = "next", !.todo = listed]]
    /\ UNCHANGED tagVars

(***************************************************************************)
(* One proposal.                                                           *)
(***************************************************************************)

\* The savepoint, and the SELECT of the assignments to move; with none, the
\* DELETE is skipped.
StartMerge(p) ==
    /\ merge[p].pc = "next"
    /\ merge[p].todo # <<>>
    /\ Applicable(This(p))
    /\ LET rows == {<<k, SeenLinks(p)[k]>> : k \in LinksOf(p, Sources(p))}
       IN  merge' = [merge EXCEPT ![p].pc = IF rows = {} THEN "edges" ELSE "move",
                                  ![p].rows = rows, ![p].saved = tx[p]]
    /\ UNCHANGED tagVars

\* Mutation of SkipInapplicable: the error leaves the run.
InapplicableRaises(p) ==
    /\ merge[p].pc = "next"
    /\ merge[p].todo # <<>>
    /\ ~Applicable(This(p))
    /\ Rollback(p)
    /\ merge' = [merge EXCEPT ![p] = IdleMerge]

\* Logged, and left approved.
SkipInapplicable(p) ==
    /\ merge[p].pc = "next"
    /\ merge[p].todo # <<>>
    /\ ~Applicable(This(p))
    /\ merge' = [merge EXCEPT ![p].todo = Tail(@), ![p].failed = @ \cup {This(p)}]
    /\ UNCHANGED tagVars

\* Mutations of MoveLink.

\* The source's confidence overwrites the target's.
MoveOverwrites(p, r) ==
    /\ merge[p].pc = "move"
    /\ r \in merge[p].rows
    /\ Free(p, ApplierWants(p, r, <<>>))
    /\ WriteLinks(p, {Moved(p, r)}, r[2])
    /\ merge' = [merge EXCEPT ![p].rows = @ \ {r},
                              ![p].pc = IF merge[p].rows = {r} THEN "drop" ELSE "move"]
    /\ UNCHANGED tables

\* Confidences are added up on collision.
MoveAdds(p, r) ==
    /\ merge[p].pc = "move"
    /\ r \in merge[p].rows
    /\ Free(p, ApplierWants(p, r, <<>>))
    /\ WriteLinks(p, {Moved(p, r)}, SeenLinks(p)[Moved(p, r)] + r[2])
    /\ merge' = [merge EXCEPT ![p].rows = @ \ {r},
                              ![p].pc = IF merge[p].rows = {r} THEN "drop" ELSE "move"]
    /\ UNCHANGED tables

\* INSERT ... ON CONFLICT DO UPDATE SET confidence = greatest(...).
MoveLink(p, r) ==
    LET k == Moved(p, r)
        had == SeenLinks(p)[k]
    IN  /\ merge[p].pc = "move"
        /\ r \in merge[p].rows
        /\ Free(p, ApplierWants(p, r, <<>>))
        /\ WriteLinks(p, {k}, IF had > r[2] THEN had ELSE r[2])
        /\ merge' = [merge EXCEPT ![p].rows = @ \ {r},
                                  ![p].pc = IF merge[p].rows = {r} THEN "drop" ELSE "move"]
        /\ UNCHANGED tables

\* DELETE FROM item_tags for the sources: what it sees, not what was selected.
DropLinks(p) ==
    /\ merge[p].pc = "drop"
    /\ Free(p, ApplierWants(p, <<>>, <<>>))
    /\ WriteLinks(p, LinksOf(p, Sources(p)), 0)
    /\ GotoMerge(p, "edges")
    /\ UNCHANGED tables

SelectEdges(p) ==
    /\ merge[p].pc = "edges"
    /\ LET pairs == EdgesOf(p, Sources(p))
       IN  merge' = [merge EXCEPT ![p].pc = IF pairs = {} THEN "unlink" ELSE "repoint",
                                  ![p].pairs = pairs]
    /\ UNCHANGED tagVars

\* One edge onto the target; an edge that became a loop is dropped, and one
\* that exists already is left alone.
RepointEdge(p, e) ==
    LET new == Repointed(p, e)
    IN  /\ merge[p].pc = "repoint"
        /\ e \in merge[p].pairs
        /\ new[1] = new[2] \/ Free(p, ApplierWants(p, <<>>, e))
        /\ IF new[1] = new[2] \/ SeenEdges(p)[new]
           THEN UNCHANGED tx
           ELSE WriteEdges(p, {new}, TRUE)
        /\ merge' = [merge EXCEPT ![p].pairs = @ \ {e},
                                  ![p].pc = IF merge[p].pairs = {e} THEN "unlink" ELSE "repoint"]
        /\ UNCHANGED tables

UnlinkSources(p) ==
    /\ merge[p].pc = "unlink"
    /\ Free(p, ApplierWants(p, <<>>, <<>>))
    /\ WriteEdges(p, EdgesOf(p, Sources(p)), FALSE)
    /\ GotoMerge(p, "retire")
    /\ UNCHANGED tables

\* status = 'merged', merged_into_id = target, whatever the source's status was.
RetireSources(p) ==
    /\ merge[p].pc = "retire"
    /\ Free(p, ApplierWants(p, <<>>, <<>>))
    /\ WriteTags(p, {t \in Sources(p) : Exists(p, t)},
                 [status |-> "merged", into |-> Target(p)])
    /\ GotoMerge(p, "mark")
    /\ UNCHANGED tables

\* mark_applied checks the copy of the row this session loaded earlier, which
\* was approved then; the UPDATE itself names the row by id alone.
MarkApplied(p) ==
    /\ merge[p].pc = "mark"
    /\ Free(p, ApplierWants(p, <<>>, <<>>))
    /\ WriteProposals(p, {This(p)}, [SeenProposals(p)[This(p)] EXCEPT !.status = "applied"])
    /\ merge' = [merge EXCEPT ![p].pc = "next", ![p].todo = Tail(@), ![p].saved = NoWrites]
    /\ UNCHANGED tables

\* A statement of the savepoint failed: its writes go, the rest of the
\* transaction stays, the proposal is left approved.
AbandonMerge(p) ==
    /\ ~AtRest(p) /\ merge[p].pc # "next"
    /\ tx' = [tx EXCEPT ![p] = merge[p].saved]
    /\ merge' = [merge EXCEPT ![p] = [IdleMerge EXCEPT
                    !.pc = "next", !.todo = Tail(merge[p].todo),
                    !.failed = merge[p].failed \cup {This(p)}]]
    /\ UNCHANGED tables

CommitMerges(p) ==
    /\ merge[p].pc = "next"
    /\ merge[p].todo = <<>>
    /\ CommitTx(p)
    /\ merge' = [merge EXCEPT ![p] = IdleMerge]

\* Mutation of ApplierDies: statements are committed one by one.
DiesHalfDone(p) ==
    /\ ~AtRest(p)
    /\ CommitTx(p)
    /\ merge' = [merge EXCEPT ![p] = [IdleMerge EXCEPT !.pc = "dead"]]

\* The process dies: decision, merges and marks are gone together.
ApplierDies(p) ==
    /\ ~AtRest(p)
    /\ Rollback(p)
    /\ merge' = [merge EXCEPT ![p] = [IdleMerge EXCEPT !.pc = "dead"]]

MergingTypeOK == \A p \in Appliers : MergeStateOK(merge[p])

MergingInit == merge = [p \in Appliers |-> IdleMerge]

\* A statement of the merge at hand, under its savepoint.
MergeStatement(p) ==
    \/ \E r \in merge[p].rows : MoveLink(p, r)
    \/ DropLinks(p)
    \/ SelectEdges(p)
    \/ \E e \in merge[p].pairs : RepointEdge(p, e)
    \/ UnlinkSources(p)
    \/ RetireSources(p)
    \/ MarkApplied(p)

\* A request or a run going on.
ApplierProgress(p) ==
    \/ StartMerge(p)
    \/ SkipInapplicable(p)
    \/ MergeStatement(p)
    \/ CommitMerges(p)

ApplierStep(p) ==
    \/ /\ p \in Reviewers
       /\ \E q \in Proposals, verdict \in {"approved", "rejected"} : Decide(p, q, verdict)
    \/ p \in ApplyJobs /\ ListApproved(p)
    \/ ApplierProgress(p)
    \/ ApplierDies(p)

===============================================================================
