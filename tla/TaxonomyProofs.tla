---------------------------- MODULE TaxonomyProofs ----------------------------
(***************************************************************************)
(* The tag graph, for every set of tags, proposals and processes: no tag   *)
(* is folded away except by a proposal a person approved, rows and writes  *)
(* keep their types, and one classification adds no more tags and edges    *)
(* than its caps allow, whatever crashes, deadlocks and races happen.      *)
(* With one run of the apply job at a time, deciding and applying          *)
(* proposals implements ReviewGate; with one worker, the hierarchy has no  *)
(* cycle that link_broader could have seen; and while no worker runs, no   *)
(* merge loses an assignment.                                              *)
(***************************************************************************)
EXTENDS Taxonomy, Lemmas

(***************************************************************************)
(* The invariant.                                                          *)
(***************************************************************************)

\* A transaction's writes, as a record; its proposal rows are rows.
WritesShape(w) ==
    /\ w = [tags |-> w.tags, links |-> w.links, edges |-> w.edges,
            proposals |-> w.proposals]
    /\ \A q \in DOMAIN w.proposals : q \in Proposals /\ w.proposals[q] \in ProposalRow

MergeShape(s) ==
    /\ s = [pc |-> s.pc, todo |-> s.todo, failed |-> s.failed, rows |-> s.rows,
            pairs |-> s.pairs, saved |-> s.saved]
    /\ s.todo \in Seq(Proposals)

Shape ==
    /\ tags = [t \in Tags |-> tags[t]]
    /\ proposals \in [Proposals -> ProposalRow]
    /\ tx = [p \in Procs |-> tx[p]]
    /\ \A p \in Procs : WritesShape(tx[p])
    /\ merge = [p \in Appliers |-> merge[p]]
    /\ \A p \in Appliers : MergeShape(merge[p])

Statements == {"move", "drop", "edges", "repoint", "unlink", "retire", "mark"}

\* Proposal q, as row r has it, folded tag t away.
FoldedBy(r, q, t, row) ==
    /\ r.status = "applied"
    /\ r.by # Nobody
    /\ t \in SourcesOf[q]
    /\ row.into = TargetOf[q]

\* A merged tag among the writes is there with the applied proposal behind it.
Explained(w) ==
    \A t \in DOMAIN w.tags : w.tags[t].status = "merged" =>
        \E q \in DOMAIN w.proposals : FoldedBy(w.proposals[q], q, t, w.tags[t])

\* Committed decisions have a name.
DecisionsNamed ==
    \A q \in Proposals : proposals[q].status # "pending" => proposals[q].by # Nobody

\* A row lock on a proposal has one holder, and what it wrote has a name.  Only
\* a proposal nobody has decided is decided.
DecisionsLocked ==
    /\ \A p, g \in Procs :
         p # g => DOMAIN tx[p].proposals \cap DOMAIN tx[g].proposals = {}
    /\ \A p \in Procs : \A q \in DOMAIN tx[p].proposals :
         /\ tx[p].proposals[q].status # "pending"
         /\ tx[p].proposals[q].by # Nobody
         /\ tx[p].proposals[q].status # "applied" => proposals[q].status = "pending"

\* What an applier is going to apply has been decided by somebody.
TodoOk(p) ==
    \A q \in Range(merge[p].todo) :
        q \in DOMAIN tx[p].proposals \/ proposals[q].by # Nobody

\* The savepoint of the merge at hand.  Between it and the mark, tags are
\* retired on account of the proposal at hand only.
MergeOk(p) ==
    /\ merge[p].pc \notin {"idle", "dead", "next"} =>
         /\ WritesShape(merge[p].saved)
         /\ Explained(merge[p].saved)
         /\ merge[p].saved.proposals = tx[p].proposals
         /\ merge[p].todo # <<>>
    /\ merge[p].pc # "mark" => Explained(tx[p])
    /\ merge[p].pc = "mark" =>
         \A t \in DOMAIN tx[p].tags : tx[p].tags[t].status = "merged" =>
            \/ \E q \in DOMAIN tx[p].proposals :
                 FoldedBy(tx[p].proposals[q], q, t, tx[p].tags[t])
            \/ t \in SourcesOf[This(p)] /\ tx[p].tags[t].into = TargetOf[This(p)]

\* Whatever else opens transactions neither decides nor retires.
OtherOk(p) ==
    /\ DOMAIN tx[p].proposals = {}
    /\ \A t \in DOMAIN tx[p].tags : tx[p].tags[t].status # "merged"

MergesExplained ==
    /\ \A p \in Appliers : TodoOk(p) /\ MergeOk(p)
    /\ \A p \in Procs \ Appliers : OtherOk(p)

IInv ==
    /\ Shape
    /\ DecisionsNamed
    /\ DecisionsLocked
    /\ MergesExplained
    /\ MergedByReview

(***************************************************************************)
(* Sequences and writes.                                                   *)
(***************************************************************************)

LEMMA TailRange ==
    ASSUME NEW S, NEW s \in Seq(S), s # <<>>
    PROVE  /\ Head(s) \in S /\ Head(s) \in Range(s)
           /\ Tail(s) \in Seq(S) /\ Range(Tail(s)) \subseteq Range(s)
<1>1. /\ Head(s) \in S /\ Tail(s) \in Seq(S) /\ Len(s) > 0 /\ Head(s) = s[1]
      /\ Len(Tail(s)) = Len(s) - 1
      /\ \A k \in 1 .. Len(s) - 1 : Tail(s)[k] = s[k + 1]
  OBVIOUS
<1>2. DOMAIN s = 1 .. Len(s) /\ DOMAIN Tail(s) = 1 .. Len(s) - 1 /\ Len(s) \in Nat
  BY <1>1
<1>3. \A k \in 1 .. Len(s) - 1 : k + 1 \in 1 .. Len(s)
  BY <1>2
<1> QED
  BY <1>1, <1>2, <1>3 DEF Range

\* Nobody's writes but p's change, and of p's the tables other than tags and
\* proposals are nobody's concern.
OthersKeep(p) == \A g \in Procs \ {p} : tx'[g] = tx[g]

LEMMA Writing ==
    ASSUME Shape, NEW p \in Procs, NEW K, NEW v
    PROVE  /\ WriteTags(p, K, v) =>
                /\ tx' = [g \in Procs |-> tx'[g]] /\ OthersKeep(p)
                /\ WritesShape(tx'[p])
                /\ tx'[p].tags = Put(tx[p].tags, K, v)
                /\ tx'[p].proposals = tx[p].proposals
           /\ WriteLinks(p, K, v) \/ WriteEdges(p, K, v) =>
                /\ tx' = [g \in Procs |-> tx'[g]] /\ OthersKeep(p)
                /\ WritesShape(tx'[p])
                /\ tx'[p].tags = tx[p].tags
                /\ tx'[p].proposals = tx[p].proposals
           /\ WriteProposals(p, K, v) /\ K \subseteq Proposals /\ v \in ProposalRow =>
                /\ tx' = [g \in Procs |-> tx'[g]] /\ OthersKeep(p)
                /\ WritesShape(tx'[p])
                /\ tx'[p].tags = tx[p].tags
                /\ tx'[p].proposals = Put(tx[p].proposals, K, v)
<1>1. WritesShape(tx[p]) /\ tx = [g \in Procs |-> tx[g]]
  BY DEF Shape
<1>2. ASSUME WriteTags(p, K, v)
      PROVE  /\ tx' = [g \in Procs |-> tx'[g]] /\ OthersKeep(p)
             /\ WritesShape(tx'[p])
             /\ tx'[p].tags = Put(tx[p].tags, K, v)
             /\ tx'[p].proposals = tx[p].proposals
  BY <1>1, <1>2 DEF WriteTags, WritesShape, OthersKeep
<1>3. ASSUME WriteLinks(p, K, v) \/ WriteEdges(p, K, v)
      PROVE  /\ tx' = [g \in Procs |-> tx'[g]] /\ OthersKeep(p)
             /\ WritesShape(tx'[p])
             /\ tx'[p].tags = tx[p].tags
             /\ tx'[p].proposals = tx[p].proposals
  BY <1>1, <1>3 DEF WriteLinks, WriteEdges, WritesShape, OthersKeep
<1>4. ASSUME WriteProposals(p, K, v), K \subseteq Proposals, v \in ProposalRow
      PROVE  /\ tx' = [g \in Procs |-> tx'[g]] /\ OthersKeep(p)
             /\ WritesShape(tx'[p])
             /\ tx'[p].tags = tx[p].tags
             /\ tx'[p].proposals = Put(tx[p].proposals, K, v)
  <2> DEFINE w == Put(tx[p].proposals, K, v)
  <2>1. \A q \in DOMAIN w : q \in Proposals /\ w[q] \in ProposalRow
    BY <1>1, <1>4 DEF WritesShape, Put
  <2>2. tx' = [tx EXCEPT ![p].proposals = w]
    BY <1>4 DEF WriteProposals
  <2> HIDE DEF w
  <2>3. /\ tx' = [g \in Procs |-> tx'[g]] /\ OthersKeep(p)
        /\ tx'[p].tags = tx[p].tags /\ tx'[p].proposals = w
        /\ tx'[p] = [tags |-> tx'[p].tags, links |-> tx'[p].links,
                     edges |-> tx'[p].edges, proposals |-> tx'[p].proposals]
    BY <1>1, <2>2 DEF WritesShape, OthersKeep
  <2> QED
    BY <2>1, <2>3 DEF WritesShape, w
<1> QED
  BY <1>2, <1>3, <1>4

LEMMA NothingWritten ==
    /\ WritesShape(NoWrites) /\ Explained(NoWrites)
    /\ DOMAIN NoWrites.proposals = {} /\ DOMAIN NoWrites.tags = {}
BY DEF WritesShape, Explained, NoWrites

LEMMA Replacing ==
    ASSUME Shape, NEW p \in Procs, NEW w, WritesShape(w), tx' = [tx EXCEPT ![p] = w]
    PROVE  tx' = [g \in Procs |-> tx'[g]] /\ OthersKeep(p) /\ tx'[p] = w
BY DEF Shape, OthersKeep

(***************************************************************************)
(* What every step has in common.                                          *)
(***************************************************************************)

\* A step of p: p's writes and p's merge may change.
Step(p) ==
    /\ tx' = [g \in Procs |-> tx'[g]]
    /\ OthersKeep(p)
    /\ WritesShape(tx'[p])
    /\ merge' = [g \in Appliers |-> merge'[g]]
    /\ \A g \in Appliers \ {p} : merge'[g] = merge[g]
    /\ p \in Appliers => MergeShape(merge'[p])

LEMMA OthersOk ==
    ASSUME IInv, NEW p \in Procs, Step(p),
           \A q \in Proposals : proposals[q].by # Nobody => proposals'[q].by # Nobody
    PROVE  /\ \A g \in Appliers \ {p} : TodoOk(g)' /\ MergeOk(g)'
           /\ \A g \in (Procs \ Appliers) \ {p} : OtherOk(g)'
<1>1. ASSUME NEW g \in Appliers \ {p} PROVE TodoOk(g)' /\ MergeOk(g)'
  <2>1. g \in Procs /\ tx'[g] = tx[g] /\ merge'[g] = merge[g]
    BY <1>1, MergingAssumption DEF Step, OthersKeep
  <2>2. TodoOk(g) /\ MergeOk(g)
    BY <1>1 DEF IInv, MergesExplained
  <2>3. Range(merge[g].todo) \subseteq Proposals
    BY <1>1 DEF IInv, Shape, MergeShape, Range
  <2>4. TodoOk(g)'
    BY <2>1, <2>2, <2>3 DEF TodoOk
  <2>5. MergeOk(g)'
    BY <2>1, <2>2 DEF MergeOk, This
  <2> QED
    BY <2>4, <2>5
<1>2. ASSUME NEW g \in (Procs \ Appliers) \ {p} PROVE OtherOk(g)'
  BY <1>2 DEF Step, OthersKeep, IInv, MergesExplained, OtherOk
<1> QED
  BY <1>1, <1>2

\* A step that leaves the committed rows alone and takes no lock on a proposal.
LEMMA Uncommitted ==
    ASSUME IInv, NEW p \in Procs, Step(p), UNCHANGED <<tags, proposals>>,
           \A q \in DOMAIN tx'[p].proposals :
             q \in DOMAIN tx[p].proposals /\ tx'[p].proposals[q] = tx[p].proposals[q],
           p \in Appliers => TodoOk(p)' /\ MergeOk(p)',
           p \notin Appliers => OtherOk(p)'
    PROVE  IInv'
<1>1. /\ \A g \in Appliers \ {p} : TodoOk(g)' /\ MergeOk(g)'
      /\ \A g \in (Procs \ Appliers) \ {p} : OtherOk(g)'
  BY OthersOk
<1>2. MergesExplained'
  BY <1>1 DEF MergesExplained
<1>3. DecisionsLocked'
  BY DEF IInv, DecisionsLocked, Step, OthersKeep
<1>4. Shape'
  BY DEF IInv, Shape, Step, OthersKeep
<1>5. DecisionsNamed' /\ MergedByReview'
  BY DEF IInv, DecisionsNamed, MergedByReview
<1> QED
  BY <1>2, <1>3, <1>4, <1>5 DEF IInv

\* A step that makes p's writes visible.
LEMMA Committing ==
    ASSUME IInv, NEW p \in Procs, Step(p), CommitTx(p), Explained(tx[p]),
           p \in Appliers => TodoOk(p)' /\ MergeOk(p)',
           p \notin Appliers => OtherOk(p)'
    PROVE  IInv'
<1> DEFINE w == tx[p]
<1>1. /\ Shape /\ DecisionsNamed /\ DecisionsLocked /\ MergedByReview
      /\ WritesShape(tx[p])
  BY DEF IInv, Shape
<1>2. tags' = [t \in Tags |-> IF t \in DOMAIN tx[p].tags THEN tx[p].tags[t] ELSE tags[t]]
  BY <1>1 DEF CommitTx, SeenTags, Over, Shape
<1>3. proposals' = [q \in Proposals |->
          IF q \in DOMAIN tx[p].proposals THEN tx[p].proposals[q] ELSE proposals[q]]
  BY <1>1 DEF CommitTx, SeenProposals, Over, Shape
<1>4. tx'[p] = NoWrites /\ \A g \in Procs \ {p} : tx'[g] = tx[g]
  BY <1>1 DEF CommitTx, Shape
<1>5. \A q \in DOMAIN tx[p].proposals :
        /\ q \in Proposals /\ tx[p].proposals[q] \in ProposalRow
        /\ tx[p].proposals[q].by # Nobody /\ tx[p].proposals[q].status # "pending"
        /\ tx[p].proposals[q].status # "applied" => proposals[q].status = "pending"
  BY <1>1 DEF WritesShape, DecisionsLocked
<1>6. proposals' \in [Proposals -> ProposalRow]
  BY <1>1, <1>3, <1>5 DEF Shape
<1>7. DecisionsNamed'
  BY <1>1, <1>3, <1>5 DEF DecisionsNamed
<1>8. DecisionsLocked'
  <2>1. \A g \in Procs : DOMAIN tx'[g].proposals \subseteq DOMAIN tx[g].proposals
    BY <1>4, NothingWritten
  <2>2. \A g, k \in Procs :
          g # k => DOMAIN tx'[g].proposals \cap DOMAIN tx'[k].proposals = {}
    BY <1>1, <2>1 DEF DecisionsLocked
  <2>3. ASSUME NEW g \in Procs, NEW q \in DOMAIN tx'[g].proposals
        PROVE  /\ tx'[g].proposals[q].status # "pending"
               /\ tx'[g].proposals[q].by # Nobody
               /\ tx'[g].proposals[q].status # "applied" => proposals'[q].status = "pending"
    <3>1. g # p
      BY <1>4, <2>3, NothingWritten
    <3>2. tx'[g] = tx[g] /\ q \in DOMAIN tx[g].proposals
      BY <1>4, <2>3, <3>1
    <3>3. q \notin DOMAIN tx[p].proposals
      BY <1>1, <3>1, <3>2 DEF DecisionsLocked
    <3>4. q \in Proposals
      BY <1>1, <3>2 DEF Shape, WritesShape
    <3>5. proposals'[q] = proposals[q]
      BY <1>3, <3>3, <3>4
    <3> QED
      BY <1>1, <3>2, <3>5 DEF DecisionsLocked
  <2> QED
    BY <2>2, <2>3 DEF DecisionsLocked
<1>9. MergedByReview'
  <2> SUFFICES ASSUME NEW t \in Tags, tags'[t].status = "merged"
               PROVE  \E q \in Proposals : FoldedBy(proposals'[q], q, t, tags'[t])
    BY DEF MergedByReview, FoldedBy
  <2>1. CASE t \in DOMAIN tx[p].tags
    <3>1. PICK q \in DOMAIN tx[p].proposals :
            FoldedBy(tx[p].proposals[q], q, t, tx[p].tags[t])
      BY <1>2, <2>1 DEF Explained
    <3>2. q \in Proposals /\ proposals'[q] = tx[p].proposals[q] /\ tags'[t] = tx[p].tags[t]
      BY <1>2, <1>3, <1>5, <2>1, <3>1
    <3> QED
      BY <3>1, <3>2
  <2>2. CASE t \notin DOMAIN tx[p].tags
    <3>1. tags'[t] = tags[t]
      BY <1>2, <2>2
    <3>2. PICK q \in Proposals : FoldedBy(proposals[q], q, t, tags[t])
      BY <1>1, <3>1 DEF MergedByReview, FoldedBy
    <3>3. proposals'[q].status = "applied" /\ proposals'[q].by # Nobody
      BY <1>3, <1>5, <3>2 DEF FoldedBy
    <3> QED
      BY <3>1, <3>2, <3>3 DEF FoldedBy
  <2> QED
    BY <2>1, <2>2
<1>10. \A q \in Proposals : proposals[q].by # Nobody => proposals'[q].by # Nobody
  BY <1>3, <1>5
<1>11. MergesExplained'
  BY <1>10, OthersOk DEF MergesExplained
<1>12. tags' = [t \in Tags |-> tags'[t]]
  BY <1>2
<1>13. Shape'
  BY <1>1, <1>6, <1>12 DEF Shape, Step, OthersKeep
<1> QED
  BY <1>7, <1>8, <1>9, <1>11, <1>13 DEF IInv

(***************************************************************************)
(* Workers tagging.                                                        *)
(***************************************************************************)

LEMMA TaggersAreApart ==
    \A p \in Taggers : p \in Procs /\ p \notin Appliers
BY TaggingAssumption, TaxonomyAssumption

LEMMA TaggingKeeps ==
    ASSUME IInv, NEW p \in Taggers, TaggingStep(p), UNCHANGED merge
    PROVE  IInv'
<1>1. p \in Procs /\ p \notin Appliers
  BY TaggersAreApart
<1>2. Shape /\ OtherOk(p) /\ WritesShape(tx[p])
  BY <1>1 DEF IInv, MergesExplained, Shape
<1>3. /\ merge' = [g \in Appliers |-> merge'[g]]
      /\ \A g \in Appliers \ {p} : merge'[g] = merge[g]
  BY <1>2 DEF Shape
<1>4. ASSUME UNCHANGED <<tags, proposals>>, tx' = [g \in Procs |-> tx'[g]],
             OthersKeep(p), WritesShape(tx'[p]), DOMAIN tx'[p].proposals = {},
             \A t \in DOMAIN tx'[p].tags : tx'[p].tags[t].status # "merged"
      PROVE  IInv'
  <2>1. Step(p)
    BY <1>1, <1>3, <1>4 DEF Step
  <2>2. OtherOk(p)'
    BY <1>2, <1>4 DEF OtherOk
  <2> QED
    BY <1>1, <1>4, <2>1, <2>2, Uncommitted
<1>5. ASSUME UNCHANGED <<tags, proposals, tx>> PROVE IInv'
  <2>1. tx' = [g \in Procs |-> tx'[g]] /\ OthersKeep(p)
    BY <1>2, <1>5 DEF Shape, OthersKeep
  <2>2. tx'[p] = tx[p]
    BY <1>5
  <2>3. /\ WritesShape(tx'[p]) /\ DOMAIN tx'[p].proposals = {}
        /\ \A t \in DOMAIN tx'[p].tags : tx'[p].tags[t].status # "merged"
    BY <1>2, <2>2 DEF OtherOk
  <2> QED
    BY <1>4, <1>5, <2>1, <2>2, <2>3
<1>6. ASSUME NEW K, NEW v, UNCHANGED <<tags, proposals>>,
             WriteLinks(p, K, v) \/ WriteEdges(p, K, v)
      PROVE  IInv'
  <2>1. /\ tx' = [g \in Procs |-> tx'[g]] /\ OthersKeep(p) /\ WritesShape(tx'[p])
        /\ tx'[p].tags = tx[p].tags /\ tx'[p].proposals = tx[p].proposals
    BY <1>1, <1>2, <1>6, Writing
  <2>2. /\ DOMAIN tx'[p].proposals = {}
        /\ \A t \in DOMAIN tx'[p].tags : tx'[p].tags[t].status # "merged"
    BY <1>2, <2>1 DEF OtherOk
  <2> QED
    BY <1>4, <1>6, <2>1, <2>2
<1>7. CASE BeginJob(p) \/ ModelAnswers(p) \/ FallBack(p)
  BY <1>5, <1>7 DEF BeginJob, ModelAnswers, FallBack, tagVars, tables
<1>8. CASE GetOrCreate(p)
  <2>1. CASE UNCHANGED tx
    BY <1>5, <1>8, <2>1 DEF GetOrCreate, tables
  <2>2. CASE WriteTags(p, {Now(p).tag}, Active)
    <3>1. /\ tx' = [g \in Procs |-> tx'[g]] /\ OthersKeep(p) /\ WritesShape(tx'[p])
          /\ tx'[p].tags = Put(tx[p].tags, {Now(p).tag}, Active)
          /\ tx'[p].proposals = tx[p].proposals
      BY <1>1, <1>2, <2>2, Writing
    <3>2. /\ DOMAIN tx'[p].proposals = {}
          /\ \A t \in DOMAIN tx'[p].tags : tx'[p].tags[t].status # "merged"
      BY <1>2, <3>1 DEF Put, OtherOk, Active
    <3>3. UNCHANGED <<tags, proposals>>
      BY <1>8 DEF GetOrCreate, tables
    <3> QED
      BY <1>4, <3>1, <3>2, <3>3
  <2> QED
    BY <1>8, <2>1, <2>2 DEF GetOrCreate
<1>9. CASE Assign(p)
  BY <1>6, <1>9 DEF Assign, tables
<1>10. CASE FindParent(p) \/ WalkDown(p)
  BY <1>5, <1>10 DEF FindParent, WalkDown, tagVars, tables
<1>b. CASE Link(p)
  BY <1>6, <1>b DEF Link, tables
<1>a. tx' = [tx EXCEPT ![p] = NoWrites] =>
        /\ tx' = [g \in Procs |-> tx'[g]] /\ OthersKeep(p) /\ tx'[p] = NoWrites
  BY <1>1, <1>2, NothingWritten, Replacing
<1>11. CASE FailTagging(p)
  <2>1. /\ tx' = [g \in Procs |-> tx'[g]] /\ OthersKeep(p) /\ tx'[p] = NoWrites
        /\ UNCHANGED <<tags, proposals>>
    BY <1>11, <1>a DEF FailTagging, Rollback, tables
  <2>2. /\ WritesShape(tx'[p]) /\ DOMAIN tx'[p].proposals = {}
        /\ \A t \in DOMAIN tx'[p].tags : tx'[p].tags[t].status # "merged"
    BY <2>1, NothingWritten
  <2> QED
    BY <1>4, <2>1, <2>2
<1>12. CASE CommitTagging(p)
  <2>1. CommitTx(p)
    BY <1>12 DEF CommitTagging
  <2>2. Step(p) /\ tx'[p] = NoWrites
    BY <1>1, <1>3, <1>a, <2>1, NothingWritten DEF Step, CommitTx
  <2>3. OtherOk(p)'
    BY <2>2, NothingWritten DEF OtherOk
  <2>4. Explained(tx[p])
    BY <1>2 DEF OtherOk, Explained
  <2> QED
    BY <1>1, <2>1, <2>2, <2>3, <2>4, Committing
<1> QED
  BY <1>7, <1>8, <1>9, <1>10, <1>b, <1>11, <1>12 DEF TaggingStep, TaggingProgress

(***************************************************************************)
(* Reviewers and the apply job.                                            *)
(***************************************************************************)

\* The applier's own part of a step that keeps its transaction's tags and
\* proposals.
LEMMA QuietKeeps ==
    ASSUME IInv, NEW p \in Appliers, Step(p), UNCHANGED <<tags, proposals>>,
           tx'[p].tags = tx[p].tags, tx'[p].proposals = tx[p].proposals,
           \/ /\ merge[p].pc \in Statements \ {"mark"}
              /\ merge'[p].pc \in Statements \ {"mark"}
              /\ merge'[p].todo = merge[p].todo /\ merge'[p].saved = merge[p].saved
           \/ /\ merge[p].pc = "next" /\ merge'[p].pc \in Statements \ {"mark"}
              /\ merge'[p].todo = merge[p].todo /\ merge[p].todo # <<>>
              /\ merge'[p].saved = tx[p]
           \/ /\ merge[p].pc \in {"idle", "dead", "next"} /\ merge'[p].pc = "next"
              /\ \A q \in Range(merge'[p].todo) :
                   q \in DOMAIN tx[p].proposals \/ proposals[q].by # Nobody
    PROVE  IInv'
<1>1. TodoOk(p) /\ MergeOk(p) /\ Shape /\ p \in Procs /\ WritesShape(tx[p])
  BY MergingAssumption DEF IInv, MergesExplained, Shape
<1>2. TodoOk(p)'
  BY <1>1 DEF TodoOk
<1>3. Explained(tx[p]) /\ Explained(tx'[p])
  <2>1. Explained(tx[p])
    BY <1>1 DEF MergeOk, Statements
  <2> QED
    BY <2>1 DEF Explained
<1>4. MergeOk(p)'
  <2>1. merge'[p].pc # "mark"
    BY DEF Statements
  <2>2. CASE merge[p].pc \in Statements \ {"mark"} /\ merge'[p].saved = merge[p].saved
             /\ merge'[p].todo = merge[p].todo
    BY <1>1, <1>3, <2>1, <2>2 DEF MergeOk, Statements
  <2>3. CASE merge'[p].saved = tx[p] /\ merge'[p].todo # <<>>
    BY <1>1, <1>3, <2>1, <2>3 DEF MergeOk
  <2>4. CASE merge'[p].pc = "next"
    BY <1>3, <2>1, <2>4 DEF MergeOk, Statements
  <2> QED
    BY <2>2, <2>3, <2>4
<1> QED
  BY <1>1, <1>2, <1>4, Uncommitted

\* How a step leaves the applier: here, with that work, from that savepoint.
Turns(p, pc, todo, saved) ==
    /\ merge' = [g \in Appliers |-> merge'[g]]
    /\ \A g \in Appliers \ {p} : merge'[g] = merge[g]
    /\ MergeShape(merge'[p])
    /\ merge'[p].pc = pc /\ merge'[p].todo = todo /\ merge'[p].saved = saved

LEMMA Turning ==
    ASSUME Shape, NEW p \in Appliers
    PROVE  /\ \A pc : GotoMerge(p, pc) => Turns(p, pc, merge[p].todo, merge[p].saved)
           /\ \A pc, x : merge' = [merge EXCEPT ![p].rows = x, ![p].pc = pc] =>
                Turns(p, pc, merge[p].todo, merge[p].saved)
           /\ \A pc, x : merge' = [merge EXCEPT ![p].pairs = x, ![p].pc = pc] =>
                Turns(p, pc, merge[p].todo, merge[p].saved)
           /\ \A pc, x : merge' = [merge EXCEPT ![p].pc = pc, ![p].pairs = x] =>
                Turns(p, pc, merge[p].todo, merge[p].saved)
           /\ \A pc, x, w : merge' = [merge EXCEPT ![p].pc = pc, ![p].rows = x, ![p].saved = w] =>
                Turns(p, pc, merge[p].todo, w)
           /\ \A x : \A todo \in Seq(Proposals) :
                merge' = [merge EXCEPT ![p].todo = todo, ![p].failed = x] =>
                  Turns(p, merge[p].pc, todo, merge[p].saved)
           /\ \A pc, w : \A todo \in Seq(Proposals) :
                merge' = [merge EXCEPT ![p].pc = pc, ![p].todo = todo, ![p].saved = w] =>
                  Turns(p, pc, todo, w)
           /\ \A pc, x : \A todo \in Seq(Proposals) :
                merge' = [merge EXCEPT ![p] =
                             [IdleMerge EXCEPT !.pc = pc, !.todo = todo, !.failed = x]] =>
                  Turns(p, pc, todo, NoWrites)
           /\ \A pc : \A todo \in Seq(Proposals) :
                merge' = [merge EXCEPT ![p] = [IdleMerge EXCEPT !.pc = pc, !.todo = todo]] =>
                  Turns(p, pc, todo, NoWrites)
           /\ \A pc : merge' = [merge EXCEPT ![p] = [IdleMerge EXCEPT !.pc = pc]] =>
                Turns(p, pc, <<>>, NoWrites)
           /\ merge' = [merge EXCEPT ![p] = IdleMerge] => Turns(p, "idle", <<>>, NoWrites)
<1>1. MergeShape(merge[p]) /\ merge = [g \in Appliers |-> merge[g]]
  BY DEF Shape
<1> USE <1>1 DEF Turns, MergeShape
<1>2. \A pc : GotoMerge(p, pc) => Turns(p, pc, merge[p].todo, merge[p].saved)
  BY DEF GotoMerge
<1>3. \A pc, x : merge' = [merge EXCEPT ![p].rows = x, ![p].pc = pc] =>
        Turns(p, pc, merge[p].todo, merge[p].saved)
  OBVIOUS
<1>4. ASSUME NEW pc, NEW x, merge' = [merge EXCEPT ![p].pairs = x, ![p].pc = pc]
      PROVE  Turns(p, pc, merge[p].todo, merge[p].saved)
  BY <1>4
<1>5. \A pc, x : merge' = [merge EXCEPT ![p].pc = pc, ![p].pairs = x] =>
        Turns(p, pc, merge[p].todo, merge[p].saved)
  OBVIOUS
<1>6. ASSUME NEW pc, NEW x, NEW w,
             merge' = [merge EXCEPT ![p].pc = pc, ![p].rows = x, ![p].saved = w]
      PROVE  Turns(p, pc, merge[p].todo, w)
  BY <1>6
<1>7. \A x : \A todo \in Seq(Proposals) :
        merge' = [merge EXCEPT ![p].todo = todo, ![p].failed = x] =>
          Turns(p, merge[p].pc, todo, merge[p].saved)
  OBVIOUS
<1>8. ASSUME NEW pc, NEW w, NEW todo \in Seq(Proposals),
             merge' = [merge EXCEPT ![p].pc = pc, ![p].todo = todo, ![p].saved = w]
      PROVE  Turns(p, pc, todo, w)
  BY <1>8
<1>9. <<>> \in Seq(Proposals)
  OBVIOUS
<1>10. \A pc, x : \A todo \in Seq(Proposals) :
         merge' = [merge EXCEPT ![p] =
                      [IdleMerge EXCEPT !.pc = pc, !.todo = todo, !.failed = x]] =>
           Turns(p, pc, todo, NoWrites)
  BY DEF IdleMerge
<1>11. ASSUME NEW pc, NEW todo \in Seq(Proposals),
             merge' = [merge EXCEPT ![p] = [IdleMerge EXCEPT !.pc = pc, !.todo = todo]]
      PROVE  Turns(p, pc, todo, NoWrites)
  BY <1>11 DEF IdleMerge
<1>12. \A pc : merge' = [merge EXCEPT ![p] = [IdleMerge EXCEPT !.pc = pc]] =>
         Turns(p, pc, <<>>, NoWrites)
  BY <1>9 DEF IdleMerge
<1>13. ASSUME merge' = [merge EXCEPT ![p] = IdleMerge]
       PROVE  Turns(p, "idle", <<>>, NoWrites)
  <2>1. /\ MergeShape(IdleMerge) /\ IdleMerge.pc = "idle" /\ IdleMerge.todo = <<>>
        /\ IdleMerge.saved = NoWrites
    BY <1>9 DEF IdleMerge
  <2>2. merge'[p] = IdleMerge /\ merge' = [g \in Appliers |-> merge'[g]]
    BY <1>13
  <2> QED
    BY <1>13, <2>1, <2>2
<1> QED
  BY <1>2, <1>3, <1>4, <1>5, <1>6, <1>7, <1>8, <1>10, <1>11, <1>12, <1>13

LEMMA TurningSteps ==
    ASSUME NEW p \in Appliers, NEW pc, NEW todo, NEW saved, Shape, Turns(p, pc, todo, saved),
           tx' = [g \in Procs |-> tx'[g]], OthersKeep(p), WritesShape(tx'[p])
    PROVE  Step(p)
BY DEF Turns, Step

\* A decision, or a mark: one row, locked, with a name.
LEMMA Deciding ==
    ASSUME IInv, NEW p \in Appliers, NEW q \in Proposals, NEW r \in ProposalRow,
           Step(p), UNCHANGED <<tags, proposals>>, Free(p, ProposalKeys({q})),
           tx'[p].proposals = Put(tx[p].proposals, {q}, r),
           r.status # "pending", r.by # Nobody,
           r.status # "applied" => proposals[q].status = "pending",
           TodoOk(p)', MergeOk(p)'
    PROVE  IInv'
<1>1. p \in Procs /\ Shape /\ DecisionsLocked
  BY MergingAssumption DEF IInv
<1>2. \A g \in Procs \ {p} : q \notin DOMAIN tx[g].proposals
  BY DEF Free, Locks, ProposalKeys
<1>3. /\ DOMAIN tx'[p].proposals = DOMAIN tx[p].proposals \cup {q}
      /\ tx'[p].proposals[q] = r
      /\ \A k \in DOMAIN tx[p].proposals : k # q => tx'[p].proposals[k] = tx[p].proposals[k]
  BY DEF Put
<1>4. \A g \in Procs \ {p} : tx'[g] = tx[g]
  BY DEF Step, OthersKeep
<1>5. DecisionsLocked'
  <2>1. ASSUME NEW g \in Procs, NEW h \in Procs, g # h
        PROVE  DOMAIN tx'[g].proposals \cap DOMAIN tx'[h].proposals = {}
    BY <1>1, <1>2, <1>3, <1>4, <2>1 DEF DecisionsLocked
  <2>2. ASSUME NEW g \in Procs, NEW k \in DOMAIN tx'[g].proposals
        PROVE  /\ tx'[g].proposals[k].status # "pending"
               /\ tx'[g].proposals[k].by # Nobody
               /\ tx'[g].proposals[k].status # "applied" => proposals'[k].status = "pending"
    <3>1. CASE g = p /\ k = q
      BY <1>3, <3>1
    <3>2. CASE ~(g = p /\ k = q)
      <4>1. /\ k \in DOMAIN tx[g].proposals
            /\ tx'[g].proposals[k] = tx[g].proposals[k]
        BY <1>3, <1>4, <2>2, <3>2
      <4> QED
        BY <1>1, <4>1 DEF DecisionsLocked
    <3> QED
      BY <3>1, <3>2
  <2> QED
    BY <2>1, <2>2 DEF DecisionsLocked
<1>6. /\ \A g \in Appliers \ {p} : TodoOk(g)' /\ MergeOk(g)'
      /\ \A g \in (Procs \ Appliers) \ {p} : OtherOk(g)'
  BY <1>1, OthersOk
<1>7. MergesExplained'
  BY <1>6 DEF MergesExplained
<1>8. Shape'
  BY <1>1 DEF Shape, Step, OthersKeep
<1>9. DecisionsNamed' /\ MergedByReview'
  BY DEF IInv, DecisionsNamed, MergedByReview
<1> QED
  BY <1>5, <1>7, <1>8, <1>9 DEF IInv

\* What p sees of a proposal that is decided, or has a name, has a name.
LEMMA SeenNamed ==
    ASSUME IInv, NEW p \in Procs, NEW q \in Proposals
    PROVE  /\ SeenProposals(p)[q] \in ProposalRow
           /\ SeenProposals(p)[q].status = "pending" =>
                q \notin DOMAIN tx[p].proposals /\ proposals[q].status = "pending"
           /\ SeenProposals(p)[q].status = "approved" =>
                q \in DOMAIN tx[p].proposals \/ proposals[q].by # Nobody
           /\ q \in DOMAIN tx[p].proposals \/ proposals[q].by # Nobody =>
                SeenProposals(p)[q].by # Nobody
<1>1. /\ SeenProposals(p)[q] =
           IF q \in DOMAIN tx[p].proposals THEN tx[p].proposals[q] ELSE proposals[q]
      /\ proposals[q] \in ProposalRow
      /\ \A k \in DOMAIN tx[p].proposals : tx[p].proposals[k] \in ProposalRow
  BY DEF IInv, Shape, SeenProposals, Over, WritesShape
<1> QED
  BY <1>1 DEF IInv, DecisionsLocked, DecisionsNamed

LEMMA DecideKeeps ==
    ASSUME IInv, NEW p \in Reviewers, NEW q \in Proposals,
           NEW verdict \in {"approved", "rejected"}, Decide(p, q, verdict)
    PROVE  IInv'
<1> DEFINE r == [status |-> verdict, by |-> PersonOf[p]]
<1> DEFINE todo == IF verdict = "approved" THEN <<q>> ELSE <<>>
<1>1. p \in Appliers /\ p \in Procs /\ Shape
  BY MergingAssumption DEF IInv, Appliers
<1>2. /\ r \in ProposalRow /\ r.status # "pending" /\ r.status # "applied"
      /\ r.by # Nobody
  BY MergingAssumption, TagStoreAssumption DEF ProposalRow
<1>3. /\ UNCHANGED <<tags, proposals>> /\ Free(p, ProposalKeys({q}))
      /\ WriteProposals(p, {q}, r) /\ AtRest(p)
      /\ merge' = [merge EXCEPT ![p] = [IdleMerge EXCEPT !.pc = "next", !.todo = todo]]
      /\ SeenProposals(p)[q].status = "pending"
  BY DEF Decide, tables
<1>4. proposals[q].status = "pending"
  BY <1>1, <1>3, SeenNamed
<1> HIDE DEF r
<1>5. /\ tx' = [g \in Procs |-> tx'[g]] /\ OthersKeep(p) /\ WritesShape(tx'[p])
      /\ tx'[p].tags = tx[p].tags
      /\ tx'[p].proposals = Put(tx[p].proposals, {q}, r)
  BY <1>1, <1>2, <1>3, Writing
<1>6. todo \in Seq(Proposals) /\ \A k \in Range(todo) : k = q
  BY DEF Range
<1> HIDE DEF todo
<1>7. Turns(p, "next", todo, NoWrites)
  BY <1>1, <1>3, <1>6, Turning
<1>8. Step(p)
  BY <1>1, <1>5, <1>7, TurningSteps
<1>9. TodoOk(p)'
  BY <1>5, <1>6, <1>7 DEF Turns, TodoOk, Put
<1>10. Explained(tx[p])
  BY <1>1, <1>3 DEF IInv, MergesExplained, MergeOk, AtRest
<1>11. Explained(tx'[p])
  <2> SUFFICES ASSUME NEW t \in DOMAIN tx'[p].tags, tx'[p].tags[t].status = "merged"
               PROVE  \E k \in DOMAIN tx'[p].proposals :
                         FoldedBy(tx'[p].proposals[k], k, t, tx'[p].tags[t])
    BY DEF Explained
  <2>1. PICK k \in DOMAIN tx[p].proposals :
              FoldedBy(tx[p].proposals[k], k, t, tx[p].tags[t])
    BY <1>5, <1>10 DEF Explained
  <2>2. k # q
    BY <1>1, <1>3, <2>1, SeenNamed
  <2>3. k \in DOMAIN tx'[p].proposals /\ tx'[p].proposals[k] = tx[p].proposals[k]
    BY <1>5, <2>1, <2>2 DEF Put
  <2> QED
    BY <1>5, <2>1, <2>3
<1>12. MergeOk(p)'
  BY <1>7, <1>11 DEF Turns, MergeOk
<1> QED
  BY <1>1, <1>2, <1>3, <1>4, <1>5, <1>8, <1>9, <1>12, Deciding

\* What a run lists.
LEMMA Listed ==
    ASSUME IInv, NEW p \in Appliers, ListApproved(p)
    PROVE  \E listed \in Seq(Proposals) :
             /\ \A q \in Range(listed) : q \in Proposals /\ SeenProposals(p)[q].status = "approved"
             /\ merge' = [merge EXCEPT ![p] = [IdleMerge EXCEPT !.pc = "next", !.todo = listed]]
<1> DEFINE approved == {q \in Proposals : SeenProposals(p)[q].status = "approved"}
           size == IF Cardinality(approved) < Limit THEN Cardinality(approved) ELSE Limit
<1>1. PICK listed \in [1 .. size -> approved] :
        merge' = [merge EXCEPT ![p] = [IdleMerge EXCEPT !.pc = "next", !.todo = listed]]
  BY DEF ListApproved
<1>2. size \in Nat
  <2>1. IsFiniteSet(approved)
    BY FS_Subset, MergingAssumption, approved \subseteq Proposals
  <2>2. Cardinality(approved) \in Nat
    BY <2>1, FS_CardinalityType
  <2> HIDE DEF approved
  <2> QED
    BY <2>2, MergingAssumption
<1>3. approved \subseteq Proposals
  OBVIOUS
<1> HIDE DEF size
<1>4. listed \in Seq(Proposals)
  <2> HIDE DEF approved
  <2> QED
    BY <1>1, <1>2, <1>3
<1>5. \A q \in Range(listed) : q \in Proposals /\ SeenProposals(p)[q].status = "approved"
  BY <1>1 DEF Range
<1> QED
  BY <1>1, <1>4, <1>5

LEMMA ListingKeeps ==
    ASSUME IInv, NEW p \in Appliers, ListApproved(p)
    PROVE  IInv'
<1>1. p \in Procs /\ Shape
  BY MergingAssumption DEF IInv
<1>2. UNCHANGED <<tags, proposals, tx>> /\ AtRest(p)
  BY DEF ListApproved, tagVars, tables
<1>3. PICK listed :
        /\ listed \in Seq(Proposals)
        /\ \A q \in Range(listed) : q \in Proposals /\ SeenProposals(p)[q].status = "approved"
        /\ merge' = [merge EXCEPT ![p] = [IdleMerge EXCEPT !.pc = "next", !.todo = listed]]
  BY Listed
<1>4. Turns(p, "next", listed, NoWrites)
  BY <1>1, <1>3, Turning
<1>5. /\ tx' = [g \in Procs |-> tx'[g]] /\ OthersKeep(p) /\ WritesShape(tx'[p])
      /\ tx'[p] = tx[p]
  BY <1>1, <1>2 DEF Shape, OthersKeep
<1>6. Step(p)
  BY <1>1, <1>4, <1>5, TurningSteps
<1>7. \A q \in Range(listed) : q \in DOMAIN tx[p].proposals \/ proposals[q].by # Nobody
  BY <1>1, <1>3, SeenNamed
<1> QED
  BY <1>2, <1>4, <1>5, <1>6, <1>7, QuietKeeps DEF Turns, AtRest

LEMMA ProgressKeeps ==
    ASSUME IInv, NEW p \in Appliers, ApplierProgress(p)
    PROVE  IInv'
<1>1. /\ p \in Procs /\ Shape /\ TodoOk(p) /\ MergeOk(p) /\ WritesShape(tx[p])
      /\ MergeShape(merge[p])
  BY MergingAssumption DEF IInv, MergesExplained, Shape
<1>2. UNCHANGED tx => /\ tx' = [g \in Procs |-> tx'[g]] /\ OthersKeep(p)
                      /\ WritesShape(tx'[p]) /\ tx'[p] = tx[p]
  BY <1>1 DEF Shape, OthersKeep
<1>3. ASSUME NEW pc \in Statements \ {"mark"}, merge[p].pc \in Statements \ {"mark"},
             Turns(p, pc, merge[p].todo, merge[p].saved), UNCHANGED <<tags, proposals>>,
             \/ UNCHANGED tx
             \/ \E K, v : WriteLinks(p, K, v) \/ WriteEdges(p, K, v)
      PROVE  IInv'
  <2>1. /\ tx' = [g \in Procs |-> tx'[g]] /\ OthersKeep(p) /\ WritesShape(tx'[p])
        /\ tx'[p].tags = tx[p].tags /\ tx'[p].proposals = tx[p].proposals
    BY <1>1, <1>2, <1>3, Writing
  <2>2. Step(p)
    BY <1>1, <1>3, <2>1, TurningSteps
  <2> QED
    BY <1>3, <2>1, <2>2, QuietKeeps DEF Turns
<1>4. CASE StartMerge(p)
  <2>a. PICK pc \in {"edges", "move"} : \E rows :
          merge' = [merge EXCEPT ![p].pc = pc, ![p].rows = rows, ![p].saved = tx[p]]
    BY <1>4 DEF StartMerge
  <2>1. PICK rows :
          merge' = [merge EXCEPT ![p].pc = pc, ![p].rows = rows, ![p].saved = tx[p]]
    BY <2>a
  <2>2. Turns(p, pc, merge[p].todo, tx[p])
    BY <1>1, <2>1, Turning
  <2>3. UNCHANGED <<tags, proposals, tx>>
    BY <1>4 DEF StartMerge, tagVars, tables
  <2>4. Step(p)
    BY <1>1, <1>2, <2>2, <2>3, TurningSteps
  <2>5. merge[p].pc = "next" /\ merge[p].todo # <<>>
    BY <1>4 DEF StartMerge
  <2> QED
    BY <1>2, <2>2, <2>3, <2>4, <2>5, QuietKeeps DEF Turns, Statements
<1>5. CASE SkipInapplicable(p)
  <2> DEFINE rest == Tail(merge[p].todo)
  <2>1. /\ merge[p].pc = "next" /\ merge[p].todo # <<>> /\ UNCHANGED <<tags, proposals, tx>>
        /\ merge' = [merge EXCEPT ![p].todo = rest,
                                  ![p].failed = merge[p].failed \cup {This(p)}]
    BY <1>5 DEF SkipInapplicable, tagVars, tables
  <2>2. rest \in Seq(Proposals) /\ Range(rest) \subseteq Range(merge[p].todo)
    BY <1>1, <2>1, TailRange DEF MergeShape
  <2> HIDE DEF rest
  <2>3. Turns(p, "next", rest, merge[p].saved)
    BY <1>1, <2>1, <2>2, Turning
  <2>4. Step(p)
    BY <1>1, <1>2, <2>1, <2>3, TurningSteps
  <2>5. \A q \in Range(rest) : q \in DOMAIN tx[p].proposals \/ proposals[q].by # Nobody
    BY <1>1, <2>2 DEF TodoOk
  <2> QED
    BY <1>2, <2>1, <2>3, <2>4, <2>5, QuietKeeps DEF Turns
<1>6. ASSUME NEW r \in merge[p].rows, MoveLink(p, r) PROVE IInv'
  <2>1. PICK pc \in {"drop", "move"} :
          merge' = [merge EXCEPT ![p].rows = merge[p].rows \ {r}, ![p].pc = pc]
    BY <1>6 DEF MoveLink
  <2>2. Turns(p, pc, merge[p].todo, merge[p].saved)
    BY <1>1, <2>1, Turning
  <2>3. /\ merge[p].pc = "move" /\ UNCHANGED <<tags, proposals>>
        /\ \E K, v : WriteLinks(p, K, v)
    BY <1>6 DEF MoveLink, tables
  <2> QED
    BY <1>3, <2>2, <2>3 DEF Statements
<1>7. CASE DropLinks(p)
  <2>1. /\ merge[p].pc = "drop" /\ UNCHANGED <<tags, proposals>>
        /\ \E K, v : WriteLinks(p, K, v)
    BY <1>7 DEF DropLinks, tables
  <2>2. Turns(p, "edges", merge[p].todo, merge[p].saved)
    BY <1>1, <1>7, Turning DEF DropLinks
  <2> QED
    BY <1>3, <2>1, <2>2 DEF Statements
<1>8. CASE SelectEdges(p)
  <2>a. PICK pc \in {"unlink", "repoint"} : \E pairs :
          merge' = [merge EXCEPT ![p].pc = pc, ![p].pairs = pairs]
    BY <1>8 DEF SelectEdges
  <2>1. PICK pairs : merge' = [merge EXCEPT ![p].pc = pc, ![p].pairs = pairs]
    BY <2>a
  <2>2. Turns(p, pc, merge[p].todo, merge[p].saved)
    BY <1>1, <2>1, Turning
  <2>3. merge[p].pc = "edges" /\ UNCHANGED <<tags, proposals, tx>>
    BY <1>8 DEF SelectEdges, tagVars, tables
  <2> QED
    BY <1>3, <2>2, <2>3 DEF Statements
<1>9. ASSUME NEW e \in merge[p].pairs, RepointEdge(p, e) PROVE IInv'
  <2>1. PICK pc \in {"unlink", "repoint"} :
          merge' = [merge EXCEPT ![p].pairs = merge[p].pairs \ {e}, ![p].pc = pc]
    BY <1>9 DEF RepointEdge
  <2>2. Turns(p, pc, merge[p].todo, merge[p].saved)
    BY <1>1, <2>1, Turning
  <2>3. /\ merge[p].pc = "repoint" /\ UNCHANGED <<tags, proposals>>
        /\ UNCHANGED tx \/ \E K, v : WriteEdges(p, K, v)
    BY <1>9 DEF RepointEdge, tables
  <2> QED
    BY <1>3, <2>2, <2>3 DEF Statements
<1>10. CASE UnlinkSources(p)
  <2>1. /\ merge[p].pc = "unlink" /\ UNCHANGED <<tags, proposals>>
        /\ \E K, v : WriteEdges(p, K, v)
    BY <1>10 DEF UnlinkSources, tables
  <2>2. Turns(p, "retire", merge[p].todo, merge[p].saved)
    BY <1>1, <1>10, Turning DEF UnlinkSources
  <2> QED
    BY <1>3, <2>1, <2>2 DEF Statements
<1>11. CASE RetireSources(p)
  <2> DEFINE K == {t \in Sources(p) : Exists(p, t)}
             v == [status |-> "merged", into |-> Target(p)]
  <2>1. /\ merge[p].pc = "retire" /\ UNCHANGED <<tags, proposals>>
        /\ WriteTags(p, K, v) /\ GotoMerge(p, "mark")
    BY <1>11 DEF RetireSources, tables
  <2>2. K \subseteq SourcesOf[This(p)] /\ v.into = TargetOf[This(p)]
    BY DEF Sources, Target
  <2> HIDE DEF K, v
  <2>3. /\ tx' = [g \in Procs |-> tx'[g]] /\ OthersKeep(p) /\ WritesShape(tx'[p])
        /\ tx'[p].tags = Put(tx[p].tags, K, v)
        /\ tx'[p].proposals = tx[p].proposals
    BY <1>1, <2>1, Writing
  <2>4. Turns(p, "mark", merge[p].todo, merge[p].saved)
    BY <1>1, <2>1, Turning
  <2>5. Step(p)
    BY <1>1, <2>3, <2>4, TurningSteps
  <2>6. TodoOk(p)'
    BY <1>1, <2>1, <2>3, <2>4 DEF TodoOk, Turns
  <2>7. /\ WritesShape(merge'[p].saved) /\ Explained(merge'[p].saved)
        /\ merge'[p].saved.proposals = tx'[p].proposals /\ merge'[p].todo # <<>>
    BY <1>1, <2>1, <2>3, <2>4 DEF MergeOk, Turns
  <2>8. Explained(tx[p])
    BY <1>1, <2>1 DEF MergeOk
  <2>9. ASSUME NEW t \in DOMAIN tx'[p].tags, tx'[p].tags[t].status = "merged"
        PROVE  \/ \E q \in DOMAIN tx'[p].proposals :
                     FoldedBy(tx'[p].proposals[q], q, t, tx'[p].tags[t])
               \/ t \in SourcesOf[This(p)'] /\ tx'[p].tags[t].into = TargetOf[This(p)']
    <3>1. This(p)' = This(p)
      BY <2>4 DEF Turns, This
    <3>2. CASE t \in K
      BY <2>2, <2>3, <3>1, <3>2 DEF Put
    <3>3. CASE t \notin K
      <4>1. t \in DOMAIN tx[p].tags /\ tx'[p].tags[t] = tx[p].tags[t]
        BY <2>3, <2>9, <3>3 DEF Put
      <4> QED
        BY <2>3, <2>8, <2>9, <4>1 DEF Explained
    <3> QED
      BY <3>2, <3>3
  <2>10. MergeOk(p)'
    BY <2>4, <2>7, <2>9 DEF MergeOk, Turns
  <2> QED
    BY <1>1, <2>1, <2>3, <2>5, <2>6, <2>10, Uncommitted
<1>12. CASE MarkApplied(p)
  <2> DEFINE q == This(p)
             r == [SeenProposals(p)[q] EXCEPT !.status = "applied"]
             rest == Tail(merge[p].todo)
  <2>1. /\ merge[p].pc = "mark" /\ UNCHANGED <<tags, proposals>>
        /\ WriteProposals(p, {q}, r) /\ Free(p, ProposalKeys({q}))
        /\ merge' = [merge EXCEPT ![p].pc = "next", ![p].todo = rest, ![p].saved = NoWrites]
    BY <1>12 DEF MarkApplied, tables, ApplierWants
  <2>2. merge[p].todo # <<>> /\ merge[p].todo \in Seq(Proposals)
    BY <1>1, <2>1 DEF MergeOk, MergeShape
  <2>3. /\ q \in Proposals /\ q \in Range(merge[p].todo)
        /\ rest \in Seq(Proposals) /\ Range(rest) \subseteq Range(merge[p].todo)
    BY <2>2, TailRange DEF This
  <2>4. q \in DOMAIN tx[p].proposals \/ proposals[q].by # Nobody
    BY <1>1, <2>3 DEF TodoOk
  <2>5. SeenProposals(p)[q] \in ProposalRow /\ SeenProposals(p)[q].by # Nobody
    BY <1>1, <2>3, <2>4, SeenNamed
  <2>6. r \in ProposalRow /\ r.status = "applied" /\ r.by # Nobody
    BY <2>5 DEF ProposalRow
  <2> HIDE DEF r, rest
  <2>7. /\ tx' = [g \in Procs |-> tx'[g]] /\ OthersKeep(p) /\ WritesShape(tx'[p])
        /\ tx'[p].tags = tx[p].tags
        /\ tx'[p].proposals = Put(tx[p].proposals, {q}, r)
    BY <1>1, <2>1, <2>3, <2>6, Writing
  <2>8. Turns(p, "next", rest, NoWrites)
    BY <1>1, <2>1, <2>3, Turning
  <2>9. Step(p)
    BY <1>1, <2>7, <2>8, TurningSteps
  <2>10. TodoOk(p)'
    BY <1>1, <2>1, <2>3, <2>7, <2>8 DEF TodoOk, Turns, Put
  <2>11. Explained(tx'[p])
    <3> SUFFICES ASSUME NEW t \in DOMAIN tx'[p].tags, tx'[p].tags[t].status = "merged"
                 PROVE  \E k \in DOMAIN tx'[p].proposals :
                           FoldedBy(tx'[p].proposals[k], k, t, tx'[p].tags[t])
      BY DEF Explained
    <3>1. /\ q \in DOMAIN tx'[p].proposals /\ tx'[p].proposals[q] = r
          /\ \A k \in DOMAIN tx[p].proposals : k # q =>
               k \in DOMAIN tx'[p].proposals /\ tx'[p].proposals[k] = tx[p].proposals[k]
      BY <2>7 DEF Put
    <3>2. CASE t \in SourcesOf[q] /\ tx[p].tags[t].into = TargetOf[q]
      BY <2>6, <2>7, <3>1, <3>2 DEF FoldedBy
    <3>3. CASE \E k \in DOMAIN tx[p].proposals :
                 FoldedBy(tx[p].proposals[k], k, t, tx[p].tags[t])
      <4>1. PICK k \in DOMAIN tx[p].proposals :
                   FoldedBy(tx[p].proposals[k], k, t, tx[p].tags[t])
        BY <3>3
      <4>2. CASE k = q
        BY <2>6, <2>7, <3>1, <4>1, <4>2 DEF FoldedBy
      <4>3. CASE k # q
        BY <2>7, <3>1, <4>1, <4>3
      <4> QED
        BY <4>2, <4>3
    <3> QED
      BY <1>1, <2>1, <2>7, <3>2, <3>3 DEF MergeOk
  <2>12. MergeOk(p)'
    BY <2>8, <2>11 DEF MergeOk, Turns
  <2> QED
    BY <2>1, <2>3, <2>6, <2>7, <2>9, <2>10, <2>12, Deciding
<1>13. CASE CommitMerges(p)
  <2>1. /\ merge[p].pc = "next" /\ CommitTx(p)
        /\ merge' = [merge EXCEPT ![p] = IdleMerge]
    BY <1>13 DEF CommitMerges
  <2>2. Turns(p, "idle", <<>>, NoWrites)
    BY <1>1, <2>1, Turning
  <2>3. /\ tx' = [g \in Procs |-> tx'[g]] /\ OthersKeep(p) /\ tx'[p] = NoWrites
    BY <1>1, <2>1, NothingWritten, Replacing DEF CommitTx
  <2>4. Step(p)
    BY <1>1, <2>2, <2>3, NothingWritten, TurningSteps
  <2>5. TodoOk(p)' /\ MergeOk(p)'
    BY <2>2, <2>3, NothingWritten DEF Turns, TodoOk, MergeOk, Range
  <2>6. Explained(tx[p])
    BY <1>1, <2>1 DEF MergeOk
  <2> QED
    BY <1>1, <2>1, <2>4, <2>5, <2>6, Committing
<1> QED
  BY <1>4, <1>5, <1>6, <1>7, <1>8, <1>9, <1>10, <1>11, <1>12, <1>13
     DEF ApplierProgress, MergeStatement

\* Rolled back to nothing, or to the savepoint.
LEMMA UndoingKeeps ==
    ASSUME IInv, NEW p \in Appliers, ApplierDies(p) \/ AbandonMerge(p)
    PROVE  IInv'
<1>1. /\ p \in Procs /\ Shape /\ TodoOk(p) /\ MergeOk(p) /\ MergeShape(merge[p])
  BY MergingAssumption DEF IInv, MergesExplained, Shape
<1>2. CASE ApplierDies(p)
  <2>1. /\ UNCHANGED <<tags, proposals>> /\ tx' = [tx EXCEPT ![p] = NoWrites]
        /\ merge' = [merge EXCEPT ![p] = [IdleMerge EXCEPT !.pc = "dead"]]
    BY <1>2 DEF ApplierDies, Rollback, tables
  <2>2. Turns(p, "dead", <<>>, NoWrites)
    BY <1>1, <2>1, Turning
  <2>3. /\ tx' = [g \in Procs |-> tx'[g]] /\ OthersKeep(p) /\ tx'[p] = NoWrites
    BY <1>1, <2>1, NothingWritten, Replacing
  <2>4. Step(p)
    BY <1>1, <2>2, <2>3, NothingWritten, TurningSteps
  <2>5. TodoOk(p)' /\ MergeOk(p)'
    BY <2>2, <2>3, NothingWritten DEF Turns, TodoOk, MergeOk, Range
  <2>6. DOMAIN tx'[p].proposals = {}
    BY <2>3, NothingWritten
  <2> QED
    BY <1>1, <2>1, <2>4, <2>5, <2>6, Uncommitted
<1>3. CASE AbandonMerge(p)
  <2> DEFINE rest == Tail(merge[p].todo)
             failed == merge[p].failed \cup {This(p)}
  <2>1. /\ merge[p].pc \notin {"idle", "dead", "next"} /\ UNCHANGED <<tags, proposals>>
        /\ tx' = [tx EXCEPT ![p] = merge[p].saved]
        /\ merge' = [merge EXCEPT ![p] = [IdleMerge EXCEPT
                        !.pc = "next", !.todo = rest, !.failed = failed]]
    BY <1>3 DEF AbandonMerge, AtRest, tables
  <2>2. /\ WritesShape(merge[p].saved) /\ Explained(merge[p].saved)
        /\ merge[p].saved.proposals = tx[p].proposals /\ merge[p].todo # <<>>
    BY <1>1, <2>1 DEF MergeOk
  <2>3. rest \in Seq(Proposals) /\ Range(rest) \subseteq Range(merge[p].todo)
    BY <1>1, <2>2, TailRange DEF MergeShape
  <2> HIDE DEF rest, failed
  <2>4. Turns(p, "next", rest, NoWrites)
    BY <1>1, <2>1, <2>3, Turning
  <2>5. /\ tx' = [g \in Procs |-> tx'[g]] /\ OthersKeep(p) /\ tx'[p] = merge[p].saved
    BY <1>1, <2>1, <2>2, Replacing
  <2>6. Step(p)
    BY <1>1, <2>2, <2>4, <2>5, TurningSteps
  <2>7. TodoOk(p)' /\ MergeOk(p)'
    BY <1>1, <2>1, <2>2, <2>3, <2>4, <2>5 DEF Turns, TodoOk, MergeOk
  <2> QED
    BY <1>1, <2>1, <2>2, <2>5, <2>6, <2>7, Uncommitted
<1> QED
  BY <1>2, <1>3

(***************************************************************************)
(* The theorem.                                                            *)
(***************************************************************************)

LEMMA AdminKeeps ==
    ASSUME IInv, NEW q \in Proposals, AdminApproves(q)
    PROVE  IInv'
<1>1. Shape /\ DecisionsNamed /\ DecisionsLocked /\ MergesExplained /\ MergedByReview
  BY DEF IInv
<1>2. /\ \A p \in Procs : q \notin DOMAIN tx[p].proposals
      /\ proposals[q].status = "pending"
      /\ proposals' = [proposals EXCEPT ![q] = [status |-> "approved", by |-> AdminUser]]
      /\ UNCHANGED <<tags, tx, merge>>
  BY DEF AdminApproves
<1>3. AdminUser \in People /\ AdminUser # Nobody
  BY MergingAssumption, TagStoreAssumption
<1>4. /\ proposals' \in [Proposals -> ProposalRow]
      /\ proposals'[q].status = "approved" /\ proposals'[q].by # Nobody
      /\ \A k \in Proposals \ {q} : proposals'[k] = proposals[k]
  BY <1>1, <1>2, <1>3 DEF Shape, ProposalRow
<1>5. Shape'
  BY <1>1, <1>2, <1>4 DEF Shape, WritesShape, MergeShape
<1>6. DecisionsNamed'
  BY <1>1, <1>4 DEF DecisionsNamed
<1>7. DecisionsLocked'
  BY <1>1, <1>2, <1>4 DEF DecisionsLocked, Shape, WritesShape
<1>8. ASSUME NEW p \in Appliers PROVE TodoOk(p)' /\ MergeOk(p)'
  <2>1. Range(merge[p].todo) \subseteq Proposals
    BY <1>1, <1>8 DEF Shape, MergeShape, Range
  <2>2. TodoOk(p)'
    BY <1>1, <1>2, <1>4, <1>8, <2>1 DEF MergesExplained, TodoOk
  <2>3. MergeOk(p)'
    BY <1>1, <1>2, <1>8 DEF MergesExplained, MergeOk, Explained, WritesShape, This
  <2> QED
    BY <2>2, <2>3
<1>9. MergesExplained'
  BY <1>1, <1>2, <1>8 DEF MergesExplained, OtherOk
<1>10. MergedByReview'
  <2> SUFFICES ASSUME NEW t \in Tags, tags[t].status = "merged"
               PROVE  \E k \in Proposals :
                        /\ proposals'[k].status = "applied" /\ proposals'[k].by # Nobody
                        /\ t \in SourcesOf[k] /\ tags[t].into = TargetOf[k]
    BY <1>2 DEF MergedByReview
  <2>1. PICK k \in Proposals :
          /\ proposals[k].status = "applied" /\ proposals[k].by # Nobody
          /\ t \in SourcesOf[k] /\ tags[t].into = TargetOf[k]
    BY <1>1 DEF MergedByReview
  <2>2. k # q
    BY <1>2, <2>1
  <2> QED
    BY <1>4, <2>1, <2>2
<1> QED
  BY <1>5, <1>6, <1>7, <1>9, <1>10 DEF IInv

LEMMA InitInvariant == Init => IInv
<1> SUFFICES ASSUME NEW s \in Starts, TagStoreInit(s), MergingInit
             PROVE  IInv
  BY DEF Init
<1>1. /\ s.status \in [Proposals -> {"pending", "approved", "rejected"}]
      /\ Nobody \notin People /\ AdminUser \in People
  BY TagStoreAssumption, MergingAssumption
<1>2. (CHOOSE person \in People : TRUE) \in People
  BY <1>1
<1>3. /\ tags = [t \in Tags |-> IF t \in s.tags THEN Active ELSE Absent]
      /\ proposals = [q \in Proposals |->
           [status |-> s.status[q],
            by |-> IF s.status[q] = "pending" THEN Nobody ELSE CHOOSE person \in People : TRUE]]
      /\ tx = [p \in Procs |-> NoWrites]
      /\ merge = [p \in Appliers |-> IdleMerge]
  BY DEF TagStoreInit, MergingInit
<1>4. proposals \in [Proposals -> ProposalRow] /\ DecisionsNamed
  BY <1>1, <1>2, <1>3 DEF ProposalRow, DecisionsNamed
<1>5. MergeShape(IdleMerge) /\ IdleMerge.pc = "idle" /\ IdleMerge.todo = <<>>
  BY DEF MergeShape, IdleMerge
<1>6. Shape
  BY <1>3, <1>4, <1>5, NothingWritten DEF Shape
<1>7. \A p \in Procs : DOMAIN tx[p].proposals = {} /\ DOMAIN tx[p].tags = {} /\ Explained(tx[p])
  BY <1>3, NothingWritten
<1>8. DecisionsLocked
  BY <1>7 DEF DecisionsLocked
<1>9. MergesExplained
  <2>1. \A p \in Appliers : p \in Procs /\ merge[p] = IdleMerge
    BY <1>3, MergingAssumption
  <2>2. \A p \in Appliers : TodoOk(p) /\ MergeOk(p)
    BY <1>5, <1>7, <2>1 DEF TodoOk, MergeOk, Range
  <2> QED
    BY <1>7, <2>2 DEF MergesExplained, OtherOk
<1>10. \A t \in Tags : tags[t].status # "merged"
  BY <1>3 DEF Active, Absent
<1> QED
  BY <1>4, <1>6, <1>8, <1>9, <1>10 DEF IInv, MergedByReview

LEMMA StepInvariant == IInv /\ [Next]_vars => IInv'
<1> SUFFICES ASSUME IInv, [Next]_vars PROVE IInv'
  OBVIOUS
<1>1. ASSUME NEW p \in Taggers, TaggingStep(p), UNCHANGED merge PROVE IInv'
  BY <1>1, TaggingKeeps
<1>2. ASSUME NEW p \in Appliers, ApplierStep(p) PROVE IInv'
  <2>1. CASE ApplierProgress(p) \/ ApplierDies(p)
    BY <2>1, ProgressKeeps, UndoingKeeps
  <2>2. CASE ListApproved(p)
    BY <2>2, ListingKeeps
  <2>3. ASSUME p \in Reviewers, NEW q \in Proposals,
               NEW verdict \in {"approved", "rejected"}, Decide(p, q, verdict)
        PROVE  IInv'
    BY <2>3, DecideKeeps
  <2> QED
    BY <1>2, <2>1, <2>2, <2>3 DEF ApplierStep
<1>3. ASSUME NEW q \in Proposals, AdminApproves(q) PROVE IInv'
  BY <1>3, AdminKeeps
<1>4. ASSUME NEW p \in Appliers, Victim(p) PROVE IInv'
  BY <1>4, UndoingKeeps DEF Victim
<1>5. CASE UNCHANGED vars
  <2>1. UNCHANGED <<tags, proposals, tx, merge>>
    BY <1>5 DEF vars, tagVars, tables
  <2>2. Shape'
    BY <2>1 DEF IInv, Shape, WritesShape, MergeShape
  <2>3. DecisionsNamed' /\ DecisionsLocked' /\ MergedByReview'
    BY <2>1 DEF IInv, DecisionsNamed, DecisionsLocked, MergedByReview
  <2>4. ASSUME NEW p \in Appliers PROVE TodoOk(p)' /\ MergeOk(p)'
    BY <2>1, <2>4 DEF IInv, MergesExplained, TodoOk, MergeOk, Explained, WritesShape, This
  <2>5. MergesExplained'
    BY <2>1, <2>4 DEF IInv, MergesExplained, OtherOk
  <2> QED
    BY <2>2, <2>3, <2>5 DEF IInv
<1> QED
  BY <1>1, <1>2, <1>3, <1>4, <1>5 DEF Next, Settled

THEOREM TaxonomyInvariant == Spec => []IInv
<1>1. Init => IInv
  BY InitInvariant
<1>2. IInv /\ [Next]_vars => IInv'
  BY StepInvariant
<1> QED
  BY <1>1, <1>2, PTL DEF Spec

\* No tag is folded away unless a proposal a named person approved is recorded
\* as applied to it: TagRepository.merge runs under decide_proposal and
\* apply_approved_proposals only, with the mark in the same savepoint.
THEOREM MergesAreReviewed == Spec => []MergedByReview
<1>1. IInv => MergedByReview
  BY DEF IInv
<1> QED
  BY <1>1, TaxonomyInvariant, PTL

(***************************************************************************)
(* Types.                                                                  *)
(***************************************************************************)

\* Rows of a transaction's tables; nobody deletes a tag.
WritesTyped(w) ==
    /\ \A t \in DOMAIN w.tags : t \in Tags /\ w.tags[t] \in TagRow /\ w.tags[t].status # "absent"
    /\ \A k \in DOMAIN w.links : k \in Items \X Tags /\ w.links[k] \in 0 .. MaxConf
    /\ \A e \in DOMAIN w.edges : e \in Tags \X Tags /\ w.edges[e] \in BOOLEAN

TablesTyped ==
    /\ tags \in [Tags -> TagRow]
    /\ links \in [Items \X Tags -> 0 .. MaxConf]
    /\ edges \in [Tags \X Tags -> BOOLEAN]

MergeTyped(s) ==
    /\ s.pc \in {"idle", "dead", "next"} \cup Statements
    /\ s.failed \subseteq Proposals
    /\ s.rows \subseteq (Items \X Tags) \X (1 .. MaxConf)
    /\ s.pairs \subseteq Tags \X Tags
    /\ DOMAIN s.saved = DOMAIN NoWrites
    /\ WritesTyped(s.saved)

\* A worker that has begun has an item, one in the middle of a suggestion has the
\* suggestion, and one that has found a parent has another tag for it.
JobTyped(s) ==
    /\ s \in JobState
    /\ s.pc # "idle" => s.item \in Items
    /\ s.pc \in {"assign", "place", "walk", "link"} => s.todo # <<>>
    /\ s.pc \in {"walk", "link"} => Head(s.todo).parent \in Tags \ {Head(s.todo).tag}

Typed ==
    /\ TablesTyped
    /\ \A p \in Procs : WritesTyped(tx[p])
    /\ \A p \in Appliers : MergeTyped(merge[p])
    /\ job = [p \in Taggers |-> job[p]]
    /\ \A p \in Taggers : JobTyped(job[p])
    /\ runs \in 0 .. MaxRuns

\* What p sees is typed, as are what is committed of it.
LEMMA SeenTyped ==
    ASSUME Typed, NEW p \in Procs
    PROVE  /\ SeenTags(p) \in [Tags -> TagRow]
           /\ SeenLinks(p) \in [Items \X Tags -> 0 .. MaxConf]
           /\ SeenEdges(p) \in [Tags \X Tags -> BOOLEAN]
BY DEF Typed, TablesTyped, WritesTyped, SeenTags, SeenLinks, SeenEdges, Over

\* Rows put among writes.
LEMMA PutTyped ==
    ASSUME NEW w, NEW u, WritesTyped(w), NEW K, NEW v
    PROVE  /\ /\ u.tags = Put(w.tags, K, v) /\ K \subseteq Tags
              /\ v \in TagRow /\ v.status # "absent"
              /\ u.links = w.links /\ u.edges = w.edges
              => WritesTyped(u)
           /\ /\ u.links = Put(w.links, K, v) /\ K \subseteq Items \X Tags
              /\ v \in 0 .. MaxConf
              /\ u.tags = w.tags /\ u.edges = w.edges
              => WritesTyped(u)
           /\ /\ u.edges = Put(w.edges, K, v) /\ K \subseteq Tags \X Tags
              /\ v \in BOOLEAN
              /\ u.tags = w.tags /\ u.links = w.links
              => WritesTyped(u)
<1>1. ASSUME u.tags = Put(w.tags, K, v), K \subseteq Tags, v \in TagRow, v.status # "absent",
             u.links = w.links, u.edges = w.edges
      PROVE  WritesTyped(u)
  BY <1>1 DEF WritesTyped, Put
<1>2. ASSUME u.links = Put(w.links, K, v), K \subseteq Items \X Tags, v \in 0 .. MaxConf,
             u.tags = w.tags, u.edges = w.edges
      PROVE  WritesTyped(u)
  BY <1>2 DEF WritesTyped, Put
<1>3. ASSUME u.edges = Put(w.edges, K, v), K \subseteq Tags \X Tags, v \in BOOLEAN,
             u.tags = w.tags, u.links = w.links
      PROVE  WritesTyped(u)
  BY <1>3 DEF WritesTyped, Put
<1> QED
  BY <1>1, <1>2, <1>3

LEMMA NoWritesTyped == WritesTyped(NoWrites)
BY DEF WritesTyped, NoWrites

\* A statement of p keeps everybody's writes typed.
LEMMA WritingTyped ==
    ASSUME IInv, Typed, NEW p \in Procs, NEW K, NEW v,
           \/ UNCHANGED tx
           \/ WriteTags(p, K, v) /\ K \subseteq Tags /\ v \in TagRow /\ v.status # "absent"
           \/ WriteLinks(p, K, v) /\ K \subseteq Items \X Tags /\ v \in 0 .. MaxConf
           \/ WriteEdges(p, K, v) /\ K \subseteq Tags \X Tags /\ v \in BOOLEAN
           \/ WriteProposals(p, K, v)
    PROVE  \A g \in Procs : WritesTyped(tx'[g])
<1>1. Shape /\ WritesShape(tx[p]) /\ tx = [g \in Procs |-> tx[g]]
  BY DEF IInv, Shape
<1>2. WritesTyped(tx[p]) /\ \A g \in Procs : WritesTyped(tx[g])
  BY DEF Typed
<1>3. CASE UNCHANGED tx
  BY <1>2, <1>3
<1>4. CASE WriteTags(p, K, v) /\ K \subseteq Tags /\ v \in TagRow /\ v.status # "absent"
  <2>1. /\ tx'[p].tags = Put(tx[p].tags, K, v) /\ tx'[p].links = tx[p].links
        /\ tx'[p].edges = tx[p].edges /\ \A g \in Procs \ {p} : tx'[g] = tx[g]
    BY <1>1, <1>4 DEF WriteTags, WritesShape
  <2>2. WritesTyped(tx'[p])
    BY <1>2, <1>4, <2>1, PutTyped
  <2> QED
    BY <1>2, <2>1, <2>2
<1>5. CASE WriteLinks(p, K, v) /\ K \subseteq Items \X Tags /\ v \in 0 .. MaxConf
  <2>1. /\ tx'[p].links = Put(tx[p].links, K, v) /\ tx'[p].tags = tx[p].tags
        /\ tx'[p].edges = tx[p].edges /\ \A g \in Procs \ {p} : tx'[g] = tx[g]
    BY <1>1, <1>5 DEF WriteLinks, WritesShape
  <2>2. WritesTyped(tx'[p])
    BY <1>2, <1>5, <2>1, PutTyped
  <2> QED
    BY <1>2, <2>1, <2>2
<1>6. CASE WriteEdges(p, K, v) /\ K \subseteq Tags \X Tags /\ v \in BOOLEAN
  <2>1. /\ tx'[p].edges = Put(tx[p].edges, K, v) /\ tx'[p].tags = tx[p].tags
        /\ tx'[p].links = tx[p].links /\ \A g \in Procs \ {p} : tx'[g] = tx[g]
    BY <1>1, <1>6 DEF WriteEdges, WritesShape
  <2>2. WritesTyped(tx'[p])
    BY <1>2, <1>6, <2>1, PutTyped
  <2> QED
    BY <1>2, <2>1, <2>2
<1>7. CASE WriteProposals(p, K, v)
  <2>1. /\ tx'[p].tags = tx[p].tags /\ tx'[p].links = tx[p].links
        /\ tx'[p].edges = tx[p].edges /\ \A g \in Procs \ {p} : tx'[g] = tx[g]
    BY <1>1, <1>7 DEF WriteProposals, WritesShape
  <2>2. WritesTyped(tx'[p])
    BY <1>2, <2>1 DEF WritesTyped
  <2> QED
    BY <1>2, <2>1, <2>2
<1> QED
  BY <1>3, <1>4, <1>5, <1>6, <1>7

\* Rolled back, to nothing or to a savepoint.
LEMMA ReplacingTyped ==
    ASSUME IInv, Typed, NEW p \in Procs, NEW w, WritesTyped(w), tx' = [tx EXCEPT ![p] = w]
    PROVE  \A g \in Procs : WritesTyped(tx'[g])
BY DEF IInv, Shape, Typed

\* A commit keeps the tables typed.
LEMMA CommittingTyped ==
    ASSUME IInv, Typed, NEW p \in Procs, CommitTx(p)
    PROVE  TablesTyped' /\ \A g \in Procs : WritesTyped(tx'[g])
<1>1. TablesTyped'
  BY SeenTyped DEF CommitTx, TablesTyped
<1>2. \A g \in Procs : WritesTyped(tx'[g])
  BY NoWritesTyped, ReplacingTyped DEF CommitTx
<1> QED
  BY <1>1, <1>2

\* How a step leaves a worker that has begun.
Becomes(p, pc, todo, linked) ==
    job' = [job EXCEPT ![p] = [pc |-> pc, item |-> job[p].item, known |-> job[p].known,
                               todo |-> todo, linked |-> linked]]

LEMMA JobChanges ==
    ASSUME Typed, NEW p \in Taggers, NEW pc, NEW todo, NEW linked
    PROVE  /\ job' = [job EXCEPT ![p].pc = pc, ![p].todo = todo, ![p].linked = linked] =>
                Becomes(p, pc, todo, linked)
           /\ job' = [job EXCEPT ![p].pc = pc, ![p].todo = todo] =>
                Becomes(p, pc, todo, job[p].linked)
           /\ job' = [job EXCEPT ![p].pc = pc] =>
                Becomes(p, pc, job[p].todo, job[p].linked)
<1> DEFINE Rec(x, i, k, t, l) == [pc |-> x, item |-> i, known |-> k, todo |-> t, linked |-> l]
<1>1. PICK x, i, k, t, l : job[p] = Rec(x, i, k, t, l)
  <2>1. job[p] \in JobState
    BY DEF Typed, JobTyped
  <2>2. job[p] = Rec(job[p].pc, job[p].item, job[p].known, job[p].todo, job[p].linked)
    BY <2>1 DEF JobState
  <2> HIDE DEF Rec
  <2> QED
    BY <2>2
<1>2. job[p].item = i /\ job[p].known = k /\ job[p].todo = t /\ job[p].linked = l
  BY <1>1
<1>3. [Rec(x, i, k, t, l) EXCEPT !.pc = pc] = Rec(pc, i, k, t, l)
  OBVIOUS
<1>4. [Rec(pc, i, k, t, l) EXCEPT !.todo = todo] = Rec(pc, i, k, todo, l)
  OBVIOUS
<1>5. [Rec(pc, i, k, todo, l) EXCEPT !.linked = linked] = Rec(pc, i, k, todo, linked)
  OBVIOUS
<1>6. /\ job' = [job EXCEPT ![p].pc = pc, ![p].todo = todo, ![p].linked = linked] =>
           job' = [job EXCEPT ![p] =
              [[[job[p] EXCEPT !.pc = pc] EXCEPT !.todo = todo] EXCEPT !.linked = linked]]
      /\ job' = [job EXCEPT ![p].pc = pc, ![p].todo = todo] =>
           job' = [job EXCEPT ![p] = [[job[p] EXCEPT !.pc = pc] EXCEPT !.todo = todo]]
      /\ job' = [job EXCEPT ![p].pc = pc] =>
           job' = [job EXCEPT ![p] = [job[p] EXCEPT !.pc = pc]]
  <2>1. job = [g \in Taggers |-> job[g]]
    BY DEF Typed
  <2> QED
    BY <2>1
<1> HIDE DEF Rec
<1>7. /\ [[[job[p] EXCEPT !.pc = pc] EXCEPT !.todo = todo] EXCEPT !.linked = linked]
           = Rec(pc, i, k, todo, linked)
      /\ [[job[p] EXCEPT !.pc = pc] EXCEPT !.todo = todo] = Rec(pc, i, k, todo, l)
      /\ [job[p] EXCEPT !.pc = pc] = Rec(pc, i, k, t, l)
  BY <1>1, <1>3, <1>4, <1>5
<1>8. /\ job' = [job EXCEPT ![p].pc = pc, ![p].todo = todo, ![p].linked = linked] =>
           job' = [job EXCEPT ![p] = Rec(pc, job[p].item, job[p].known, todo, linked)]
      /\ job' = [job EXCEPT ![p].pc = pc, ![p].todo = todo] =>
           job' = [job EXCEPT ![p] = Rec(pc, job[p].item, job[p].known, todo, job[p].linked)]
      /\ job' = [job EXCEPT ![p].pc = pc] =>
           job' = [job EXCEPT ![p] =
              Rec(pc, job[p].item, job[p].known, job[p].todo, job[p].linked)]
  BY <1>2, <1>6, <1>7
<1> QED
  BY <1>8 DEF Rec, Becomes

LEMMA BecomesTyped ==
    ASSUME Typed, NEW p \in Taggers, job[p].pc # "idle",
           NEW pc \in {"coin", "assign", "place", "walk", "link"},
           NEW todo \in Seq(Suggestion), NEW linked \in Nat,
           pc # "coin" => todo # <<>>,
           pc \in {"walk", "link"} => Head(todo).parent \in Tags \ {Head(todo).tag},
           Becomes(p, pc, todo, linked)
    PROVE  job' = [g \in Taggers |-> job'[g]] /\ \A g \in Taggers : JobTyped(job'[g])
<1>1. job[p] \in JobState /\ job[p].item \in Items
  BY DEF Typed, JobTyped
<1>2. job[p].known \in SUBSET Tags
  BY <1>1 DEF JobState
<1> DEFINE s == [pc |-> pc, item |-> job[p].item, known |-> job[p].known,
                 todo |-> todo, linked |-> linked]
<1>3. JobTyped(s)
  BY <1>1, <1>2 DEF JobTyped, JobState
<1>4. job' = [job EXCEPT ![p] = s]
  BY DEF Becomes
<1> HIDE DEF s
<1> QED
  BY <1>3, <1>4 DEF Typed

\* The four ways one of the three statements of _place leaves a worker: with the
\* tag unplaced, a parent found, nothing in the way of the edge, or the edge put.
LeftOut(p) == UNCHANGED tx /\ Becomes(p, "coin", Tail(job[p].todo), job[p].linked)

ParentFound(p) ==
    /\ job[p].pc = "place"
    /\ job[p].linked < MaxNewEdges
    /\ HasParent(p, Now(p))
    /\ UNCHANGED tx
    /\ Becomes(p, "walk", job[p].todo, job[p].linked)

WalkClear(p) ==
    /\ job[p].pc = "walk"
    /\ Now(p).parent \notin Below(SeenEdges(p), Now(p).tag, MaxDepth)
    /\ UNCHANGED tx
    /\ Becomes(p, "link", job[p].todo, job[p].linked)

Hooked(p) ==
    /\ job[p].pc = "link"
    /\ WriteEdges(p, {<<Now(p).parent, Now(p).tag>>}, TRUE)
    /\ Becomes(p, "coin", Tail(job[p].todo), job[p].linked + 1)

LEMMA Placing ==
    ASSUME Typed, NEW p \in Taggers, FindParent(p) \/ WalkDown(p) \/ Link(p)
    PROVE  /\ UNCHANGED <<tables, runs>>
           /\ job[p].pc \in {"place", "walk", "link"} /\ job[p].todo # <<>>
           /\ LeftOut(p) \/ ParentFound(p) \/ WalkClear(p) \/ Hooked(p)
<1>1. /\ UNCHANGED <<tables, runs>>
      /\ job[p].pc \in {"place", "walk", "link"}
  BY DEF FindParent, WalkDown, Link, tagVars
<1>2. job[p].todo # <<>>
  BY <1>1 DEF Typed, JobTyped
<1> DEFINE rest == Tail(job[p].todo)
           more == job[p].linked + 1
<1>3. LeaveUnplaced(p) => job' = [job EXCEPT ![p].pc = "coin", ![p].todo = rest]
  BY DEF LeaveUnplaced
<1>4. Link(p) => job' = [job EXCEPT ![p].pc = "coin", ![p].todo = rest, ![p].linked = more]
  BY DEF Link
<1> HIDE DEF rest, more
<1>5. LeaveUnplaced(p) => Becomes(p, "coin", rest, job[p].linked)
  BY <1>3, JobChanges
<1>6. Link(p) => Becomes(p, "coin", rest, more)
  BY <1>4, JobChanges
<1>7. FindParent(p) => LeftOut(p) \/ ParentFound(p)
  BY <1>5, JobChanges DEF FindParent, LeftOut, ParentFound, tagVars, rest
<1>8. WalkDown(p) => LeftOut(p) \/ WalkClear(p)
  BY <1>5, JobChanges DEF WalkDown, LeftOut, WalkClear, tagVars, rest
<1>9. Link(p) => Hooked(p)
  BY <1>6 DEF Link, Hooked, rest, more
<1> QED
  BY <1>1, <1>2, <1>7, <1>8, <1>9

\* A worker's step.
LEMMA IdleTyped == JobTyped(IdleJob)
BY DEF JobTyped, IdleJob, JobState

LEMMA Begun ==
    ASSUME NEW pc, NEW item, NEW known
    PROVE  [IdleJob EXCEPT !.pc = pc, !.item = item, !.known = known]
             = [pc |-> pc, item |-> item, known |-> known, todo |-> <<>>, linked |-> 0]
<1> DEFINE Rec(x, i, k, t, l) == [pc |-> x, item |-> i, known |-> k, todo |-> t, linked |-> l]
<1>1. PICK x, i, k, t, l : IdleJob = Rec(x, i, k, t, l) /\ t = <<>> /\ l = 0
  <2> HIDE DEF Rec
  <2>1. IdleJob = Rec("idle", NoItem, {}, <<>>, 0)
    BY DEF IdleJob, Rec
  <2> QED
    BY <2>1
<1>2. [Rec(x, i, k, t, l) EXCEPT !.pc = pc] = Rec(pc, i, k, t, l)
  OBVIOUS
<1>3. [Rec(pc, i, k, t, l) EXCEPT !.item = item] = Rec(pc, item, k, t, l)
  OBVIOUS
<1>4. [Rec(pc, item, k, t, l) EXCEPT !.known = known] = Rec(pc, item, known, t, l)
  OBVIOUS
<1> HIDE DEF Rec
<1>5. [IdleJob EXCEPT !.pc = pc, !.item = item, !.known = known] = Rec(pc, item, known, t, l)
  BY <1>1, <1>2, <1>3, <1>4
<1> QED
  BY <1>1, <1>5 DEF Rec

LEMMA TaggingTyped ==
    ASSUME IInv, Typed, NEW p \in Taggers, TaggingStep(p), UNCHANGED merge
    PROVE  Typed'
<1> DEFINE j == job[p]
<1>1. /\ p \in Procs /\ TablesTyped /\ \A g \in Procs : WritesTyped(tx[g])
      /\ \A g \in Appliers : MergeTyped(merge'[g])
      /\ runs \in 0 .. MaxRuns
  BY TaggersAreApart DEF Typed
<1>2. ASSUME TablesTyped', \A g \in Procs : WritesTyped(tx'[g]), runs' \in 0 .. MaxRuns,
             NEW s, JobTyped(s), job' = [job EXCEPT ![p] = s]
      PROVE  Typed'
  <2>1. job' = [g \in Taggers |-> job'[g]] /\ \A g \in Taggers : JobTyped(job'[g])
    BY <1>2 DEF Typed
  <2> QED
    BY <1>1, <1>2, <2>1 DEF Typed
<1>3. ASSUME UNCHANGED <<tables, runs>>, \A g \in Procs : WritesTyped(tx'[g]), j.pc # "idle",
             NEW pc \in {"coin", "assign", "place", "walk", "link"},
             NEW todo \in Seq(Suggestion), NEW linked \in Nat,
             pc # "coin" => todo # <<>>,
             pc \in {"walk", "link"} => Head(todo).parent \in Tags \ {Head(todo).tag},
             Becomes(p, pc, todo, linked)
      PROVE  Typed'
  <2>1. job' = [g \in Taggers |-> job'[g]] /\ \A g \in Taggers : JobTyped(job'[g])
    BY <1>3, BecomesTyped
  <2>2. TablesTyped'
    BY <1>1, <1>3 DEF tables, TablesTyped
  <2>3. runs' \in 0 .. MaxRuns
    BY <1>1, <1>3
  <2> QED
    BY <1>1, <1>3, <2>1, <2>2, <2>3 DEF Typed
<1>4. UNCHANGED tx => \A g \in Procs : WritesTyped(tx'[g])
  BY <1>1
<1>5. /\ j.todo \in Seq(Suggestion) /\ j.linked \in Nat
      /\ j.pc # "idle" => j.item \in Items
      /\ j.pc \in {"assign", "place", "walk", "link"} => j.todo # <<>>
      /\ j.pc \in {"walk", "link"} => Now(p).parent \in Tags \ {Now(p).tag}
  BY DEF Typed, JobTyped, JobState, Now
<1>6. j.todo # <<>> =>
        /\ Tail(j.todo) \in Seq(Suggestion)
        /\ Now(p).tag \in Tags /\ Now(p).conf \in Given /\ Now(p).parent \in Tags \cup {NoTag}
  <2>1. j.todo # <<>> => Now(p) \in Suggestion /\ Tail(j.todo) \in Seq(Suggestion)
    BY <1>5, TailRange DEF Now
  <2> QED
    BY <2>1 DEF Suggestion
<1>7. CASE BeginJob(p)
  <2>1. PICK i \in Items, neighbours \in SUBSET Items :
          job' = [job EXCEPT ![p] = [IdleJob EXCEPT
                     !.pc = "prompt", !.item = i, !.known = CandidateTags(p, neighbours)]]
    BY <1>7 DEF BeginJob
  <2> DEFINE known == CandidateTags(p, neighbours)
             s == [IdleJob EXCEPT !.pc = "prompt", !.item = i, !.known = known]
  <2>2. known \in SUBSET Tags
    BY DEF CandidateTags
  <2>3. job' = [job EXCEPT ![p] = s]
    BY <2>1
  <2> HIDE DEF known
  <2>4. s = [pc |-> "prompt", item |-> i, known |-> known, todo |-> <<>>, linked |-> 0]
    <3> DEFINE w == "prompt"
    <3> HIDE DEF w
    <3>1. [IdleJob EXCEPT !.pc = w, !.item = i, !.known = known]
            = [pc |-> w, item |-> i, known |-> known, todo |-> <<>>, linked |-> 0]
      BY Begun
    <3> QED
      BY <3>1 DEF w
  <2> HIDE DEF s
  <2>5. JobTyped(s)
    BY <2>2, <2>4 DEF JobTyped, JobState
  <2>6. runs < MaxRuns /\ runs' = runs + 1 /\ UNCHANGED tagVars
    BY <1>7 DEF BeginJob
  <2>7. runs' \in 0 .. MaxRuns
    BY <1>1, <2>6, TaggingAssumption
  <2>8. TablesTyped' /\ UNCHANGED tx
    BY <1>1, <2>6 DEF tagVars, tables, TablesTyped
  <2> QED
    BY <1>2, <1>4, <2>3, <2>5, <2>7, <2>8
<1>8. CASE ModelAnswers(p)
  <2>1. PICK answer \in Answers(j.known) :
          job' = [job EXCEPT ![p].pc = "coin", ![p].todo = Capped(p, answer)]
    BY <1>8 DEF ModelAnswers
  <2>2. Capped(p, answer) \in Seq(Suggestion)
    <3>1. PICK n \in 0 .. MaxSuggestions : answer \in [1 .. n -> Suggestion]
      BY <2>1 DEF Answers
    <3>2. answer \in Seq(Suggestion)
      BY <3>1
    <3> QED
      BY <3>2, PickedIsList DEF Capped
  <2>3. Becomes(p, "coin", Capped(p, answer), j.linked)
    BY <2>1, JobChanges
  <2>4. j.pc = "prompt" /\ UNCHANGED <<tables, runs>> /\ UNCHANGED tx
    BY <1>8 DEF ModelAnswers, tagVars
  <2> QED
    BY <1>3, <1>4, <1>5, <2>2, <2>3, <2>4
<1>9. CASE FallBack(p)
  <2>1. PICK c \in Given :
          job' = [job EXCEPT ![p].pc = "coin",
                    ![p].todo = <<[tag |-> Placeholder, conf |-> c, parent |-> NoTag]>>]
    BY <1>9 DEF FallBack
  <2> DEFINE todo == <<[tag |-> Placeholder, conf |-> c, parent |-> NoTag]>>
  <2>2. [tag |-> Placeholder, conf |-> c, parent |-> NoTag] \in Suggestion
    BY TaggingAssumption DEF Suggestion
  <2>3. todo \in Seq(Suggestion) /\ job' = [job EXCEPT ![p].pc = "coin", ![p].todo = todo]
    BY <2>1, <2>2
  <2> HIDE DEF todo
  <2>4. Becomes(p, "coin", todo, j.linked)
    BY <2>3, JobChanges
  <2>5. j.pc = "prompt" /\ UNCHANGED <<tables, runs>> /\ UNCHANGED tx
    BY <1>9 DEF FallBack, tagVars
  <2> QED
    BY <1>3, <1>4, <1>5, <2>3, <2>4, <2>5
<1>10. CASE GetOrCreate(p)
  <2>1. /\ j.todo # <<>> /\ j.pc = "coin" /\ UNCHANGED <<tables, runs>>
        /\ UNCHANGED tx \/ WriteTags(p, {Now(p).tag}, Active)
        /\ job' = [job EXCEPT ![p].pc = "assign"]
    BY <1>10 DEF GetOrCreate
  <2>2. {Now(p).tag} \subseteq Tags /\ Active \in TagRow /\ Active.status # "absent"
    BY <1>6, <2>1 DEF Active, TagRow
  <2>3. \A g \in Procs : WritesTyped(tx'[g])
    BY <1>1, <2>1, <2>2, WritingTyped
  <2>4. Becomes(p, "assign", j.todo, j.linked)
    BY <2>1, JobChanges
  <2> QED
    BY <1>3, <1>5, <2>1, <2>3, <2>4
<1>11. CASE Assign(p)
  <2>1. /\ j.pc = "assign" /\ UNCHANGED <<tables, runs>>
        /\ WriteLinks(p, {<<j.item, Now(p).tag>>}, Now(p).conf)
        /\ job' = [job EXCEPT ![p].pc = "place"]
    BY <1>11 DEF Assign
  <2>2. /\ {<<j.item, Now(p).tag>>} \subseteq Items \X Tags
        /\ Now(p).conf \in 0 .. MaxConf
    BY <1>5, <1>6, <2>1, TaggingAssumption, TagStoreAssumption
  <2>3. \A g \in Procs : WritesTyped(tx'[g])
    BY <1>1, <2>1, <2>2, WritingTyped
  <2>4. Becomes(p, "place", j.todo, j.linked)
    BY <2>1, JobChanges
  <2> QED
    BY <1>3, <1>5, <2>1, <2>3, <2>4
<1>12. CASE FindParent(p) \/ WalkDown(p) \/ Link(p)
  <2>1. /\ UNCHANGED <<tables, runs>> /\ j.pc \in {"place", "walk", "link"} /\ j.todo # <<>>
        /\ LeftOut(p) \/ ParentFound(p) \/ WalkClear(p) \/ Hooked(p)
    BY <1>12, Placing
  <2>2. LeftOut(p) => Typed'
    BY <1>3, <1>4, <1>5, <1>6, <2>1 DEF LeftOut
  <2>3. ParentFound(p) => Typed'
    BY <1>3, <1>4, <1>5, <1>6, <2>1 DEF ParentFound, HasParent, Now
  <2>4. WalkClear(p) => Typed'
    BY <1>3, <1>4, <1>5, <2>1 DEF WalkClear, Now
  <2>5. CASE Hooked(p)
    <3>1. {<<Now(p).parent, Now(p).tag>>} \subseteq Tags \X Tags
      BY <1>5, <1>6, <2>1, <2>5 DEF Hooked
    <3>2. \A g \in Procs : WritesTyped(tx'[g])
      BY <1>1, <2>5, <3>1, WritingTyped DEF Hooked
    <3> DEFINE rest == Tail(j.todo)
               more == j.linked + 1
    <3>3. rest \in Seq(Suggestion) /\ more \in Nat /\ Becomes(p, "coin", rest, more)
      BY <1>5, <1>6, <2>1, <2>5 DEF Hooked
    <3> HIDE DEF rest, more
    <3> QED
      BY <1>3, <2>1, <3>2, <3>3
  <2> QED
    BY <2>1, <2>2, <2>3, <2>4, <2>5
<1>13. CASE CommitTagging(p)
  BY <1>1, <1>2, <1>13, IdleTyped, CommittingTyped DEF CommitTagging
<1>14. CASE FailTagging(p)
  <2>1. /\ UNCHANGED <<tables, runs>> /\ tx' = [tx EXCEPT ![p] = NoWrites]
        /\ job' = [job EXCEPT ![p] = IdleJob]
    BY <1>14 DEF FailTagging, Rollback
  <2>2. TablesTyped' /\ \A g \in Procs : WritesTyped(tx'[g])
    BY <1>1, <2>1, NoWritesTyped, ReplacingTyped DEF tables, TablesTyped
  <2> QED
    BY <1>1, <1>2, <2>1, <2>2, IdleTyped
<1> QED
  BY <1>7, <1>8, <1>9, <1>10, <1>11, <1>12, <1>13, <1>14 DEF TaggingStep, TaggingProgress

\* How a step leaves an applier, but for what it is to do next.
Leaves(p, pc, failed, rows, pairs, saved) ==
    /\ \A g \in Appliers \ {p} : merge'[g] = merge[g]
    /\ merge'[p].pc = pc /\ merge'[p].failed = failed /\ merge'[p].rows = rows
    /\ merge'[p].pairs = pairs /\ merge'[p].saved = saved

LEMMA Leaving ==
    ASSUME Shape, NEW p \in Appliers, NEW pc, NEW x, NEW y, NEW z
    PROVE  /\ GotoMerge(p, pc) =>
                Leaves(p, pc, merge[p].failed, merge[p].rows, merge[p].pairs, merge[p].saved)
           /\ merge' = [merge EXCEPT ![p].rows = x, ![p].pc = pc] =>
                Leaves(p, pc, merge[p].failed, x, merge[p].pairs, merge[p].saved)
           /\ merge' = [merge EXCEPT ![p].pairs = x, ![p].pc = pc] =>
                Leaves(p, pc, merge[p].failed, merge[p].rows, x, merge[p].saved)
           /\ merge' = [merge EXCEPT ![p].pc = pc, ![p].pairs = x] =>
                Leaves(p, pc, merge[p].failed, merge[p].rows, x, merge[p].saved)
           /\ merge' = [merge EXCEPT ![p].pc = pc, ![p].rows = x, ![p].saved = y] =>
                Leaves(p, pc, merge[p].failed, x, merge[p].pairs, y)
           /\ merge' = [merge EXCEPT ![p].todo = x, ![p].failed = y] =>
                Leaves(p, merge[p].pc, y, merge[p].rows, merge[p].pairs, merge[p].saved)
           /\ merge' = [merge EXCEPT ![p].pc = pc, ![p].todo = x, ![p].saved = y] =>
                Leaves(p, pc, merge[p].failed, merge[p].rows, merge[p].pairs, y)
           /\ merge' = [merge EXCEPT ![p] =
                           [IdleMerge EXCEPT !.pc = pc, !.todo = x, !.failed = y]] =>
                Leaves(p, pc, y, {}, {}, NoWrites)
           /\ merge' = [merge EXCEPT ![p] = [IdleMerge EXCEPT !.pc = pc, !.todo = x]] =>
                Leaves(p, pc, {}, {}, {}, NoWrites)
           /\ merge' = [merge EXCEPT ![p] = [IdleMerge EXCEPT !.pc = pc]] =>
                Leaves(p, pc, {}, {}, {}, NoWrites)
           /\ merge' = [merge EXCEPT ![p] = IdleMerge] =>
                Leaves(p, "idle", {}, {}, {}, NoWrites)
<1>1. /\ merge[p] = [pc |-> merge[p].pc, todo |-> merge[p].todo, failed |-> merge[p].failed,
                     rows |-> merge[p].rows, pairs |-> merge[p].pairs,
                     saved |-> merge[p].saved]
      /\ merge = [g \in Appliers |-> merge[g]]
  BY DEF Shape, MergeShape
<1> USE <1>1 DEF Leaves
<1>2. GotoMerge(p, pc) =>
        Leaves(p, pc, merge[p].failed, merge[p].rows, merge[p].pairs, merge[p].saved)
  BY DEF GotoMerge
<1>3. ASSUME merge' = [merge EXCEPT ![p].rows = x, ![p].pc = pc]
      PROVE  Leaves(p, pc, merge[p].failed, x, merge[p].pairs, merge[p].saved)
  BY <1>3
<1>4. ASSUME merge' = [merge EXCEPT ![p].pairs = x, ![p].pc = pc]
      PROVE  Leaves(p, pc, merge[p].failed, merge[p].rows, x, merge[p].saved)
  BY <1>4
<1>5. ASSUME merge' = [merge EXCEPT ![p].pc = pc, ![p].pairs = x]
      PROVE  Leaves(p, pc, merge[p].failed, merge[p].rows, x, merge[p].saved)
  BY <1>5
<1>6. ASSUME merge' = [merge EXCEPT ![p].pc = pc, ![p].rows = x, ![p].saved = y]
      PROVE  Leaves(p, pc, merge[p].failed, x, merge[p].pairs, y)
  BY <1>6
<1>7. ASSUME merge' = [merge EXCEPT ![p].todo = x, ![p].failed = y]
      PROVE  Leaves(p, merge[p].pc, y, merge[p].rows, merge[p].pairs, merge[p].saved)
  BY <1>7
<1>8. ASSUME merge' = [merge EXCEPT ![p].pc = pc, ![p].todo = x, ![p].saved = y]
      PROVE  Leaves(p, pc, merge[p].failed, merge[p].rows, merge[p].pairs, y)
  BY <1>8
<1>9. ASSUME merge' = [merge EXCEPT ![p] =
                          [IdleMerge EXCEPT !.pc = pc, !.todo = x, !.failed = y]]
      PROVE  Leaves(p, pc, y, {}, {}, NoWrites)
  BY <1>9 DEF IdleMerge
<1>10. ASSUME merge' = [merge EXCEPT ![p] = [IdleMerge EXCEPT !.pc = pc, !.todo = x]]
       PROVE  Leaves(p, pc, {}, {}, {}, NoWrites)
  BY <1>10 DEF IdleMerge
<1>11. ASSUME merge' = [merge EXCEPT ![p] = [IdleMerge EXCEPT !.pc = pc]]
       PROVE  Leaves(p, pc, {}, {}, {}, NoWrites)
  BY <1>11 DEF IdleMerge
<1>12. ASSUME merge' = [merge EXCEPT ![p] = IdleMerge]
       PROVE  Leaves(p, "idle", {}, {}, {}, NoWrites)
  BY <1>12 DEF IdleMerge
<1> QED
  BY <1>2, <1>3, <1>4, <1>5, <1>6, <1>7, <1>8, <1>9, <1>10, <1>11, <1>12

\* The step of an applier that keeps the committed tables.
LEMMA LeavesTyped ==
    ASSUME IInv, Typed, NEW p \in Appliers, UNCHANGED <<job, runs>>,
           TablesTyped', \A g \in Procs : WritesTyped(tx'[g]),
           NEW pc \in {"idle", "dead", "next"} \cup Statements,
           NEW failed \in SUBSET Proposals,
           NEW rows \in SUBSET ((Items \X Tags) \X (1 .. MaxConf)),
           NEW pairs \in SUBSET (Tags \X Tags),
           NEW saved, WritesTyped(saved), DOMAIN saved = DOMAIN NoWrites,
           Leaves(p, pc, failed, rows, pairs, saved)
    PROVE  Typed'
<1>1. MergeTyped(merge'[p])
  BY DEF Leaves, MergeTyped
<1>2. \A g \in Appliers : MergeTyped(merge'[g])
  BY <1>1 DEF Leaves, Typed
<1>3. /\ job' = [g \in Taggers |-> job'[g]]
      /\ \A g \in Taggers : JobTyped(job'[g])
      /\ runs' \in 0 .. MaxRuns
  BY DEF Typed
<1> QED
  BY <1>2, <1>3 DEF Typed

\* A statement.
LEMMA StatementTyped ==
    ASSUME IInv, Typed, NEW p \in Appliers, UNCHANGED <<tables, job, runs>>,
           NEW K, NEW v,
           \/ UNCHANGED tx
           \/ WriteTags(p, K, v) /\ K \subseteq Tags /\ v \in TagRow /\ v.status # "absent"
           \/ WriteLinks(p, K, v) /\ K \subseteq Items \X Tags /\ v \in 0 .. MaxConf
           \/ WriteEdges(p, K, v) /\ K \subseteq Tags \X Tags /\ v \in BOOLEAN
           \/ WriteProposals(p, K, v),
           NEW pc \in {"idle", "dead", "next"} \cup Statements,
           NEW failed \in SUBSET Proposals,
           NEW rows \in SUBSET ((Items \X Tags) \X (1 .. MaxConf)),
           NEW pairs \in SUBSET (Tags \X Tags),
           NEW saved, WritesTyped(saved), DOMAIN saved = DOMAIN NoWrites,
           Leaves(p, pc, failed, rows, pairs, saved)
    PROVE  Typed'
<1>1. p \in Procs
  BY MergingAssumption
<1>2. \A g \in Procs : WritesTyped(tx'[g])
  BY <1>1, WritingTyped
<1>3. TablesTyped'
  BY DEF Typed, tables, TablesTyped
<1> QED
  BY <1>2, <1>3, LeavesTyped

\* What an applier is at, and what its selections hold.
LEMMA AtHand ==
    ASSUME IInv, Typed, NEW p \in Appliers
    PROVE  /\ p \in Procs /\ Shape /\ WritesTyped(tx[p]) /\ DOMAIN tx[p] = DOMAIN NoWrites
           /\ merge[p].pc \in {"idle", "dead", "next"} \cup Statements
           /\ merge[p].failed \in SUBSET Proposals
           /\ merge[p].rows \in SUBSET ((Items \X Tags) \X (1 .. MaxConf))
           /\ merge[p].pairs \in SUBSET (Tags \X Tags)
           /\ WritesTyped(merge[p].saved) /\ DOMAIN merge[p].saved = DOMAIN NoWrites
           /\ merge[p].pc \in Statements => merge[p].todo # <<>>
           /\ merge[p].todo # <<>> =>
                /\ This(p) \in Proposals /\ Target(p) \in Tags
                /\ Sources(p) \in SUBSET Tags
<1>1. p \in Procs /\ Shape /\ WritesTyped(tx[p]) /\ MergeOk(p) /\ MergeTyped(merge[p])
  BY MergingAssumption DEF IInv, MergesExplained, Typed
<1>2. DOMAIN tx[p] = DOMAIN NoWrites
  BY <1>1 DEF Shape, WritesShape, NoWrites
<1>3. merge[p].todo # <<>> => This(p) \in Proposals
  BY <1>1, TailRange DEF Shape, MergeShape, This
<1>4. merge[p].todo # <<>> => Target(p) \in Tags /\ Sources(p) \in SUBSET Tags
  BY <1>3, TagStoreAssumption DEF Target, Sources
<1>5. merge[p].pc \in Statements => merge[p].todo # <<>>
  BY <1>1 DEF MergeOk, Statements
<1> QED
  BY <1>1, <1>2, <1>3, <1>4, <1>5 DEF MergeTyped

LEMMA ApplierTyped ==
    ASSUME IInv, Typed, NEW p \in Appliers, ApplierStep(p) \/ AbandonMerge(p),
           UNCHANGED taggingVars
    PROVE  Typed'
<1> DEFINE m == merge[p]
<1>1. /\ p \in Procs /\ Shape /\ WritesTyped(tx[p]) /\ DOMAIN tx[p] = DOMAIN NoWrites
      /\ m.pc \in {"idle", "dead", "next"} \cup Statements
      /\ m.failed \in SUBSET Proposals
      /\ m.rows \in SUBSET ((Items \X Tags) \X (1 .. MaxConf))
      /\ m.pairs \in SUBSET (Tags \X Tags)
      /\ WritesTyped(m.saved) /\ DOMAIN m.saved = DOMAIN NoWrites
  BY AtHand
<1>2. /\ m.pc \in Statements => m.todo # <<>>
      /\ m.todo # <<>> => This(p) \in Proposals /\ Target(p) \in Tags /\ Sources(p) \in SUBSET Tags
  BY AtHand
<1>3. UNCHANGED <<job, runs>>
  BY DEF taggingVars
<1>4. /\ {} \in SUBSET Proposals /\ {} \in SUBSET ((Items \X Tags) \X (1 .. MaxConf))
      /\ {} \in SUBSET (Tags \X Tags) /\ WritesTyped(NoWrites)
      /\ "next" \in {"idle", "dead", "next"} \cup Statements
      /\ "idle" \in {"idle", "dead", "next"} \cup Statements
      /\ "dead" \in {"idle", "dead", "next"} \cup Statements
  BY NoWritesTyped
<1>5. /\ SeenLinks(p) \in [Items \X Tags -> 0 .. MaxConf]
      /\ SeenEdges(p) \in [Tags \X Tags -> BOOLEAN]
  BY <1>1, SeenTyped
<1>6. MaxConf \in Nat
  BY TagStoreAssumption
<1>7. ASSUME NEW q, NEW verdict, Decide(p, q, verdict)
      PROVE  Typed'
  <2>1. PICK todo :
          /\ UNCHANGED tables
          /\ WriteProposals(p, {q}, [status |-> verdict, by |-> PersonOf[p]])
          /\ merge' = [merge EXCEPT ![p] = [IdleMerge EXCEPT !.pc = "next", !.todo = todo]]
    BY <1>7 DEF Decide
  <2>2. Leaves(p, "next", {}, {}, {}, NoWrites)
    BY <1>1, <2>1, Leaving
  <2> QED
    BY <1>3, <1>4, <2>1, <2>2, StatementTyped
<1>8. CASE ListApproved(p)
  <2>1. PICK todo :
          /\ UNCHANGED <<tables, tx>>
          /\ merge' = [merge EXCEPT ![p] = [IdleMerge EXCEPT !.pc = "next", !.todo = todo]]
    BY <1>8 DEF ListApproved, tagVars
  <2>2. Leaves(p, "next", {}, {}, {}, NoWrites)
    BY <1>1, <2>1, Leaving
  <2> QED
    BY <1>3, <1>4, <2>1, <2>2, StatementTyped
<1>9. CASE StartMerge(p)
  <2> DEFINE rows == {<<k, SeenLinks(p)[k]>> : k \in LinksOf(p, Sources(p))}
  <2>1. PICK pc \in {"edges", "move"} :
          /\ UNCHANGED <<tables, tx>> /\ m.todo # <<>>
          /\ merge' = [merge EXCEPT ![p].pc = pc, ![p].rows = rows, ![p].saved = tx[p]]
    BY <1>9 DEF StartMerge, tagVars
  <2>2. rows \in SUBSET ((Items \X Tags) \X (1 .. MaxConf))
    <3>1. Sources(p) \in SUBSET Tags
      BY <1>2, <2>1
    <3>2. \A k \in LinksOf(p, Sources(p)) : k \in Items \X Tags /\ SeenLinks(p)[k] > 0
      BY <3>1 DEF LinksOf
    <3>3. \A k \in LinksOf(p, Sources(p)) : SeenLinks(p)[k] \in 1 .. MaxConf
      BY <1>5, <1>6, <3>2
    <3> QED
      BY <3>2, <3>3
  <2> HIDE DEF rows
  <2>3. Leaves(p, pc, m.failed, rows, m.pairs, tx[p])
    BY <1>1, <2>1, Leaving
  <2>4. pc \in {"idle", "dead", "next"} \cup Statements
    BY DEF Statements
  <2> QED
    BY <1>1, <1>3, <2>1, <2>2, <2>3, <2>4, StatementTyped
<1>10. CASE SkipInapplicable(p)
  <2>1. PICK todo :
          /\ UNCHANGED <<tables, tx>> /\ m.todo # <<>>
          /\ merge' = [merge EXCEPT ![p].todo = todo, ![p].failed = m.failed \cup {This(p)}]
    BY <1>10 DEF SkipInapplicable, tagVars
  <2>2. m.failed \cup {This(p)} \in SUBSET Proposals
    BY <1>1, <1>2, <2>1
  <2>3. Leaves(p, m.pc, m.failed \cup {This(p)}, m.rows, m.pairs, m.saved)
    BY <1>1, <2>1, Leaving
  <2> QED
    BY <1>1, <1>3, <2>1, <2>2, <2>3, StatementTyped
<1>11. ASSUME NEW r \in m.rows, MoveLink(p, r) PROVE Typed'
  <2> DEFINE k == Moved(p, r)
             v == IF SeenLinks(p)[k] > r[2] THEN SeenLinks(p)[k] ELSE r[2]
             rest == m.rows \ {r}
  <2>1. PICK pc \in {"drop", "move"} :
          /\ UNCHANGED tables /\ m.pc = "move" /\ WriteLinks(p, {k}, v)
          /\ merge' = [merge EXCEPT ![p].rows = rest, ![p].pc = pc]
    BY <1>11 DEF MoveLink
  <2>2. k \in Items \X Tags /\ r[2] \in 1 .. MaxConf
    <3>1. Target(p) \in Tags
      BY <1>2, <2>1 DEF Statements
    <3>2. r \in (Items \X Tags) \X (1 .. MaxConf)
      BY <1>1, <1>11
    <3> QED
      BY <3>1, <3>2 DEF Moved
  <2>3. {k} \subseteq Items \X Tags /\ v \in 0 .. MaxConf
    BY <1>5, <1>6, <2>2
  <2>4. rest \in SUBSET ((Items \X Tags) \X (1 .. MaxConf))
    BY <1>1
  <2> HIDE DEF k, v, rest
  <2>5. Leaves(p, pc, m.failed, rest, m.pairs, m.saved)
    BY <1>1, <2>1, Leaving
  <2>6. pc \in {"idle", "dead", "next"} \cup Statements
    BY DEF Statements
  <2> QED
    BY <1>1, <1>3, <2>1, <2>3, <2>4, <2>5, <2>6, StatementTyped
<1>12. CASE DropLinks(p)
  <2>1. /\ UNCHANGED tables /\ m.pc = "drop" /\ GotoMerge(p, "edges")
        /\ WriteLinks(p, LinksOf(p, Sources(p)), 0)
    BY <1>12 DEF DropLinks
  <2>2. LinksOf(p, Sources(p)) \subseteq Items \X Tags /\ 0 \in 0 .. MaxConf
    <3>1. Sources(p) \in SUBSET Tags
      BY <1>2, <2>1 DEF Statements
    <3> QED
      BY <1>6, <3>1 DEF LinksOf
  <2>3. Leaves(p, "edges", m.failed, m.rows, m.pairs, m.saved)
    BY <1>1, <2>1, Leaving
  <2>4. "edges" \in {"idle", "dead", "next"} \cup Statements
    BY DEF Statements
  <2> QED
    BY <1>1, <1>3, <2>1, <2>2, <2>3, <2>4, StatementTyped
<1>13. CASE SelectEdges(p)
  <2> DEFINE pairs == EdgesOf(p, Sources(p))
  <2>1. PICK pc \in {"unlink", "repoint"} :
          /\ UNCHANGED <<tables, tx>>
          /\ merge' = [merge EXCEPT ![p].pc = pc, ![p].pairs = pairs]
    BY <1>13 DEF SelectEdges, tagVars
  <2>2. pairs \in SUBSET (Tags \X Tags)
    BY DEF EdgesOf
  <2> HIDE DEF pairs
  <2>3. Leaves(p, pc, m.failed, m.rows, pairs, m.saved)
    BY <1>1, <2>1, Leaving
  <2>4. pc \in {"idle", "dead", "next"} \cup Statements
    BY DEF Statements
  <2> QED
    BY <1>1, <1>3, <2>1, <2>2, <2>3, <2>4, StatementTyped
<1>14. ASSUME NEW e \in m.pairs, RepointEdge(p, e) PROVE Typed'
  <2> DEFINE new == Repointed(p, e)
             rest == m.pairs \ {e}
  <2>1. PICK pc \in {"unlink", "repoint"} :
          /\ UNCHANGED tables /\ m.pc = "repoint"
          /\ UNCHANGED tx \/ WriteEdges(p, {new}, TRUE)
          /\ merge' = [merge EXCEPT ![p].pairs = rest, ![p].pc = pc]
    BY <1>14 DEF RepointEdge
  <2>2. {new} \subseteq Tags \X Tags
    <3>1. Target(p) \in Tags
      BY <1>2, <2>1 DEF Statements
    <3>2. e \in Tags \X Tags
      BY <1>1, <1>14
    <3> QED
      BY <3>1, <3>2 DEF Repointed
  <2>3. rest \in SUBSET (Tags \X Tags)
    BY <1>1
  <2> HIDE DEF new, rest
  <2>4. Leaves(p, pc, m.failed, m.rows, rest, m.saved)
    BY <1>1, <2>1, Leaving
  <2>5. pc \in {"idle", "dead", "next"} \cup Statements
    BY DEF Statements
  <2> QED
    BY <1>1, <1>3, <2>1, <2>2, <2>3, <2>4, <2>5, StatementTyped
<1>15. CASE UnlinkSources(p)
  <2>1. /\ UNCHANGED tables /\ GotoMerge(p, "retire")
        /\ WriteEdges(p, EdgesOf(p, Sources(p)), FALSE)
    BY <1>15 DEF UnlinkSources
  <2>2. EdgesOf(p, Sources(p)) \subseteq Tags \X Tags
    BY DEF EdgesOf
  <2>3. Leaves(p, "retire", m.failed, m.rows, m.pairs, m.saved)
    BY <1>1, <2>1, Leaving
  <2>4. "retire" \in {"idle", "dead", "next"} \cup Statements
    BY DEF Statements
  <2> QED
    BY <1>1, <1>3, <2>1, <2>2, <2>3, <2>4, StatementTyped
<1>16. CASE RetireSources(p)
  <2> DEFINE K == {t \in Sources(p) : Exists(p, t)}
             v == [status |-> "merged", into |-> Target(p)]
  <2>1. /\ UNCHANGED tables /\ m.pc = "retire" /\ GotoMerge(p, "mark") /\ WriteTags(p, K, v)
    BY <1>16 DEF RetireSources
  <2>2. K \subseteq Tags /\ v \in TagRow /\ v.status # "absent"
    BY <1>2, <2>1 DEF TagRow, Statements
  <2> HIDE DEF K, v
  <2>3. Leaves(p, "mark", m.failed, m.rows, m.pairs, m.saved)
    BY <1>1, <2>1, Leaving
  <2>4. "mark" \in {"idle", "dead", "next"} \cup Statements
    BY DEF Statements
  <2> QED
    BY <1>1, <1>3, <2>1, <2>2, <2>3, <2>4, StatementTyped
<1>17. CASE MarkApplied(p)
  <2>1. PICK K, v, todo :
          /\ UNCHANGED tables /\ WriteProposals(p, K, v)
          /\ merge' = [merge EXCEPT ![p].pc = "next", ![p].todo = todo, ![p].saved = NoWrites]
    BY <1>17 DEF MarkApplied
  <2>2. Leaves(p, "next", m.failed, m.rows, m.pairs, NoWrites)
    BY <1>1, <2>1, Leaving
  <2> QED
    BY <1>1, <1>3, <1>4, <2>1, <2>2, StatementTyped
<1>18. CASE CommitMerges(p)
  <2>1. CommitTx(p) /\ merge' = [merge EXCEPT ![p] = IdleMerge]
    BY <1>18 DEF CommitMerges
  <2>2. Leaves(p, "idle", {}, {}, {}, NoWrites)
    BY <1>1, <2>1, Leaving
  <2>3. TablesTyped' /\ \A g \in Procs : WritesTyped(tx'[g])
    BY <1>1, <2>1, CommittingTyped
  <2> QED
    BY <1>3, <1>4, <2>2, <2>3, LeavesTyped
<1>19. UNCHANGED tables => TablesTyped'
  BY DEF Typed, tables, TablesTyped
<1>20. CASE ApplierDies(p)
  <2>1. /\ UNCHANGED tables /\ tx' = [tx EXCEPT ![p] = NoWrites]
        /\ merge' = [merge EXCEPT ![p] = [IdleMerge EXCEPT !.pc = "dead"]]
    BY <1>20 DEF ApplierDies, Rollback
  <2>2. Leaves(p, "dead", {}, {}, {}, NoWrites)
    BY <1>1, <2>1, Leaving
  <2>3. \A g \in Procs : WritesTyped(tx'[g])
    BY <1>1, <1>4, <2>1, ReplacingTyped
  <2> QED
    BY <1>3, <1>4, <1>19, <2>1, <2>2, <2>3, LeavesTyped
<1>21. CASE AbandonMerge(p)
  <2> DEFINE failed == m.failed \cup {This(p)}
  <2>1. PICK todo :
          /\ UNCHANGED tables /\ tx' = [tx EXCEPT ![p] = m.saved]
          /\ ~AtRest(p) /\ m.pc # "next"
          /\ merge' = [merge EXCEPT ![p] = [IdleMerge EXCEPT
                          !.pc = "next", !.todo = todo, !.failed = failed]]
    BY <1>21 DEF AbandonMerge
  <2>2. failed \in SUBSET Proposals
    BY <1>1, <1>2, <2>1 DEF AtRest
  <2> HIDE DEF failed
  <2>3. Leaves(p, "next", failed, {}, {}, NoWrites)
    BY <1>1, <2>1, Leaving
  <2>4. \A g \in Procs : WritesTyped(tx'[g])
    BY <1>1, <2>1, ReplacingTyped
  <2> QED
    BY <1>3, <1>4, <1>19, <2>1, <2>2, <2>3, <2>4, LeavesTyped
<1> QED
  BY <1>7, <1>8, <1>9, <1>10, <1>11, <1>12, <1>13, <1>14, <1>15, <1>16, <1>17, <1>18,
     <1>20, <1>21 DEF ApplierStep, ApplierProgress, MergeStatement

LEMMA TypedInit == Init => Typed
<1> SUFFICES ASSUME NEW s \in Starts, TagStoreInit(s), TaggingInit(s), MergingInit
             PROVE  Typed
  BY DEF Init
<1>1. /\ s.links \in [Items \X Tags -> 0 .. MaxConf] /\ s.runs \in 0 .. MaxRuns
  BY TagStoreAssumption, TaggingAssumption
<1>2. TablesTyped
  BY <1>1 DEF TagStoreInit, TablesTyped, TagRow, Active, Absent
<1>3. \A p \in Procs : WritesTyped(tx[p])
  BY NoWritesTyped DEF TagStoreInit
<1>4. \A p \in Appliers : MergeTyped(merge[p])
  <2>1. MergeTyped(IdleMerge)
    BY NoWritesTyped DEF MergeTyped, IdleMerge
  <2> QED
    BY <2>1 DEF MergingInit
<1>5. job = [p \in Taggers |-> job[p]] /\ \A p \in Taggers : JobTyped(job[p])
  BY IdleTyped DEF TaggingInit
<1> QED
  BY <1>1, <1>2, <1>3, <1>4, <1>5 DEF Typed, TaggingInit

LEMMA TypedStep == IInv /\ Typed /\ [Next]_vars => Typed'
<1> SUFFICES ASSUME IInv, Typed, [Next]_vars PROVE Typed'
  OBVIOUS
<1>1. ASSUME NEW p \in Taggers, TaggingStep(p), UNCHANGED merge PROVE Typed'
  BY <1>1, TaggingTyped
<1>2. ASSUME NEW p \in Appliers, ApplierStep(p) \/ Victim(p), UNCHANGED taggingVars PROVE Typed'
  BY <1>2, ApplierTyped DEF Victim
<1>3. ASSUME NEW q \in Proposals, AdminApproves(q), UNCHANGED taggingVars PROVE Typed'
  <2>1. UNCHANGED <<tags, links, edges, tx, merge, job, runs>>
    BY <1>3 DEF AdminApproves, taggingVars
  <2> QED
    BY <2>1 DEF Typed, TablesTyped
<1>4. CASE UNCHANGED vars
  <2>1. UNCHANGED <<tags, links, edges, tx, merge, job, runs>>
    BY <1>4 DEF vars, tagVars, tables, taggingVars
  <2> QED
    BY <2>1 DEF Typed, TablesTyped
<1> QED
  BY <1>1, <1>2, <1>3, <1>4 DEF Next, Settled

LEMMA TypedIsTypeOK == IInv /\ Typed => TypeOK
<1> SUFFICES ASSUME IInv, Typed PROVE TypeOK
  OBVIOUS
<1>1. ASSUME NEW p \in Procs
      PROVE  /\ DOMAIN tx[p].tags \subseteq Tags
             /\ Range(tx[p].tags) \subseteq TagRow
             /\ DOMAIN tx[p].links \subseteq Items \X Tags
             /\ Range(tx[p].links) \subseteq 0 .. MaxConf
             /\ DOMAIN tx[p].edges \subseteq Tags \X Tags
             /\ Range(tx[p].edges) \subseteq BOOLEAN
             /\ DOMAIN tx[p].proposals \subseteq Proposals
             /\ Range(tx[p].proposals) \subseteq ProposalRow
  <2>1. WritesTyped(tx[p]) /\ WritesShape(tx[p])
    BY DEF IInv, Typed, Shape
  <2>2. /\ DOMAIN tx[p].tags \subseteq Tags /\ Range(tx[p].tags) \subseteq TagRow
    BY <2>1 DEF WritesTyped, Range
  <2>3. DOMAIN tx[p].links \subseteq Items \X Tags /\ Range(tx[p].links) \subseteq 0 .. MaxConf
    BY <2>1 DEF WritesTyped, Range
  <2>4. DOMAIN tx[p].edges \subseteq Tags \X Tags /\ Range(tx[p].edges) \subseteq BOOLEAN
    BY <2>1 DEF WritesTyped, Range
  <2>5. DOMAIN tx[p].proposals \subseteq Proposals /\ Range(tx[p].proposals) \subseteq ProposalRow
    BY <2>1 DEF WritesShape, Range
  <2> QED
    BY <2>2, <2>3, <2>4, <2>5
<1>2. TagStoreTypeOK
  BY <1>1 DEF TagStoreTypeOK, Typed, TablesTyped, IInv, Shape
<1>3. TaggingTypeOK
  BY DEF TaggingTypeOK, Typed, JobTyped
<1>4. MergingTypeOK
  BY DEF MergingTypeOK, MergeStateOK, Typed, MergeTyped, Statements, IInv, Shape, MergeShape
<1> QED
  BY <1>2, <1>3, <1>4 DEF TypeOK

LEMMA TaxonomyTyped == Spec => []Typed
<1>1. Init => Typed
  BY TypedInit
<1>2. IInv /\ Typed /\ [Next]_vars => Typed'
  BY TypedStep
<1> QED
  BY <1>1, <1>2, TaxonomyInvariant, PTL DEF Spec

\* Rows, writes, jobs and merges stay what the schema and the code make them:
\* in particular a confidence stays a confidence, also where a merge combines
\* two of them.
THEOREM TaxonomyTypes == Spec => []TypeOK
<1>1. IInv /\ Typed => TypeOK
  BY TypedIsTypeOK
<1> QED
  BY <1>1, TaxonomyInvariant, TaxonomyTyped, PTL

(***************************************************************************)
(* What one classification may add.                                        *)
(***************************************************************************)

\* The tags p has coined, and those it would have to coin for what it has left.
Coinable(p) ==
    DOMAIN tx[p].tags \cup
      {t \in Tags : ~Exists(p, t) /\ \E k \in DOMAIN job[p].todo : job[p].todo[k].tag = t}

Few(S) == IsFiniteSet(S) /\ (Cardinality(S) <= MaxNewTags \/ S \subseteq {Placeholder})

CapsOk(p) ==
    /\ job[p].pc \in {"idle", "prompt"} =>
         tx[p] = NoWrites /\ job[p].todo = <<>> /\ job[p].linked = 0
    /\ Few(Coinable(p))
    /\ IsFiniteSet(DOMAIN tx[p].edges)
    /\ Cardinality(DOMAIN tx[p].edges) <= job[p].linked
    /\ job[p].linked <= MaxNewEdges
    /\ job[p].pc \in {"walk", "link"} => job[p].linked < MaxNewEdges

Capping == \A p \in Taggers : CapsOk(p)

LEMMA FewerStillFew ==
    ASSUME NEW S, Few(S), NEW T \in SUBSET S
    PROVE  Few(T)
<1>1. IsFiniteSet(S) /\ (Cardinality(S) <= MaxNewTags \/ S \subseteq {Placeholder})
  BY DEF Few
<1>2. IsFiniteSet(T) /\ Cardinality(T) <= Cardinality(S)
  BY <1>1, FS_Subset
<1>3. Cardinality(S) \in Nat /\ Cardinality(T) \in Nat /\ MaxNewTags \in Nat
  BY <1>1, <1>2, FS_CardinalityType, TaggingAssumption
<1>4. CASE Cardinality(S) <= MaxNewTags
  BY <1>2, <1>3, <1>4 DEF Few
<1>5. CASE S \subseteq {Placeholder}
  BY <1>2, <1>5 DEF Few
<1> QED
  BY <1>1, <1>4, <1>5

\* Tags stay: whatever a step of anybody commits.
LEMMA TagsStay ==
    ASSUME IInv, Typed, [Next]_vars
    PROVE  \A t \in Tags : tags[t].status # "absent" => tags'[t].status # "absent"
<1>1. ASSUME NEW p \in Procs, CommitTx(p)
      PROVE  \A t \in Tags : tags[t].status # "absent" => tags'[t].status # "absent"
  <2>1. tags' = [t \in Tags |-> IF t \in DOMAIN tx[p].tags THEN tx[p].tags[t] ELSE tags[t]]
    BY <1>1 DEF CommitTx, SeenTags, Over, Typed, TablesTyped
  <2> QED
    BY <1>1, <2>1 DEF Typed, WritesTyped
<1>2. \/ UNCHANGED tags
      \/ \E p \in Procs : CommitTx(p)
  <2>1. ASSUME NEW p \in Taggers, TaggingStep(p) PROVE UNCHANGED tags \/ CommitTx(p)
    BY <2>1 DEF TaggingStep, TaggingProgress, BeginJob, ModelAnswers, FallBack, GetOrCreate,
       Assign, FindParent, WalkDown, Link, CommitTagging, FailTagging, Rollback, tagVars, tables
  <2>2. ASSUME NEW p \in Appliers, ApplierStep(p) \/ Victim(p)
        PROVE  UNCHANGED tags \/ CommitTx(p)
    BY <2>2 DEF ApplierStep, Victim, ApplierProgress, MergeStatement, Decide, ListApproved,
       StartMerge, SkipInapplicable, MoveLink, DropLinks, SelectEdges, RepointEdge,
       UnlinkSources, RetireSources, MarkApplied, CommitMerges, AbandonMerge, ApplierDies,
       Rollback, tagVars, tables
  <2>3. ASSUME NEW q \in Proposals, AdminApproves(q) PROVE UNCHANGED tags
    BY <2>3 DEF AdminApproves
  <2>4. UNCHANGED vars => UNCHANGED tags
    BY DEF vars, tagVars, tables
  <2>5. Taggers \subseteq Procs /\ Appliers \subseteq Procs
    BY TaggingAssumption, MergingAssumption
  <2> QED
    BY <2>1, <2>2, <2>3, <2>4, <2>5 DEF Next, Settled
<1> QED
  BY <1>1, <1>2

\* Steps of others.
LEMMA OthersCap ==
    ASSUME IInv, Typed, NEW p \in Taggers, CapsOk(p), tx'[p] = tx[p], job'[p] = job[p],
           tags' = [t \in Tags |-> tags'[t]],
           \A t \in Tags : tags[t].status # "absent" => tags'[t].status # "absent"
    PROVE  CapsOk(p)'
<1>1. tags = [t \in Tags |-> tags[t]]
  BY DEF IInv, Shape
<1>2. \A t \in Tags : Exists(p, t) => Exists(p, t)'
  BY <1>1 DEF Exists, SeenTags, Over
<1>3. Coinable(p)' \in SUBSET Coinable(p)
  BY <1>2 DEF Coinable
<1>4. Few(Coinable(p)')
  BY <1>3, FewerStillFew DEF CapsOk
<1> QED
  BY <1>4 DEF CapsOk

LEMMA NoneFew == Few({}) /\ Few({Placeholder})
<1>1. IsFiniteSet({}) /\ IsFiniteSet({Placeholder})
  BY FS_EmptySet, FS_Singleton
<1> QED
  BY <1>1 DEF Few

\* The cap leaves at most MaxNewTags suggestions of tags nobody has coined.
LEMMA CappedFew ==
    ASSUME NEW p \in Taggers, NEW answer \in Seq(Suggestion)
    PROVE  Few({t \in Tags : /\ ~Exists(p, t)
                             /\ \E k \in DOMAIN Capped(p, answer) : Capped(p, answer)[k].tag = t})
<1> DEFINE novel == {n \in DOMAIN answer : ~Exists(p, answer[n].tag)}
           kept == {n \in DOMAIN answer :
                      n \in novel => Cardinality({m \in novel : m < n}) < MaxNewTags}
           few == {n \in novel : Cardinality({m \in novel : m < n}) < MaxNewTags}
           list == Capped(p, answer)
           new == {t \in Tags : ~Exists(p, t) /\ \E k \in DOMAIN list : list[k].tag = t}
           coined == {answer[n].tag : n \in few}
           tag == [n \in few |-> answer[n].tag]
<1>1. list = Picked(answer, kept)
  BY DEF Capped
<1>2. DOMAIN answer = 1 .. Len(answer) /\ Len(answer) \in Nat
  OBVIOUS
<1>3. IsFiniteSet(novel) /\ novel \in SUBSET Nat
  <2>1. IsFiniteSet(1 .. Len(answer)) /\ novel \in SUBSET (1 .. Len(answer))
    BY <1>2, FS_Interval
  <2>2. novel \in SUBSET Nat
    BY <1>2
  <2> HIDE DEF novel
  <2>3. IsFiniteSet(novel)
    BY <2>1, FS_Subset
  <2> QED
    BY <2>2, <2>3
<1>4. MaxNewTags \in Nat
  BY TaggingAssumption
<1>5. IsFiniteSet(few) /\ Cardinality(few) <= MaxNewTags
  <2> HIDE DEF novel
  <2> QED
    BY <1>3, <1>4, FirstFew
<1>6. \A n \in kept : n \in novel => n \in few
  OBVIOUS
<1>7. kept \in SUBSET DOMAIN answer
  OBVIOUS
<1>8. \A k \in DOMAIN list : \E n \in kept : list[k] = answer[n]
  <2> HIDE DEF kept, list
  <2> QED
    BY <1>1, <1>7, PickedFrom
<1>9. new \in SUBSET coined
  <2> SUFFICES ASSUME NEW t \in new PROVE t \in coined
    OBVIOUS
  <2>1. PICK k \in DOMAIN list : list[k].tag = t /\ ~Exists(p, t)
    OBVIOUS
  <2> HIDE DEF list, new
  <2>2. PICK n \in kept : list[k] = answer[n]
    BY <1>8
  <2>3. answer[n].tag = t /\ n \in DOMAIN answer
    BY <1>7, <2>1, <2>2
  <2>4. n \in novel
    BY <2>1, <2>3
  <2> HIDE DEF kept, novel, few
  <2>5. n \in few
    BY <1>6, <2>4
  <2> QED
    BY <2>3, <2>5
<1> HIDE DEF few
<1>10. tag \in Surjection(few, coined)
  BY DEF Surjection
<1> HIDE DEF tag, coined
<1>11. IsFiniteSet(coined) /\ Cardinality(coined) <= Cardinality(few)
  BY <1>5, <1>10, FS_Surjection
<1>12. Cardinality(coined) <= MaxNewTags
  <2>1. Cardinality(coined) \in Nat /\ Cardinality(few) \in Nat
    BY <1>5, <1>11, FS_CardinalityType
  <2> QED
    BY <1>4, <1>5, <1>11, <2>1
<1>13. Few(coined)
  BY <1>11, <1>12 DEF Few
<1> HIDE DEF new
<1>14. Few(new)
  BY <1>9, <1>13, FewerStillFew
<1> QED
  BY <1>14 DEF new

\* A job that has written nothing and has nothing left to apply.
LEMMA FreshCap ==
    ASSUME NEW p, tx'[p] = NoWrites, job'[p].todo = <<>>, job'[p].linked = 0,
           job'[p].pc \notin {"walk", "link"}
    PROVE  CapsOk(p)'
<1>1. DOMAIN NoWrites.tags = {} /\ DOMAIN NoWrites.edges = {}
  BY DEF NoWrites
<1>2. Coinable(p)' = {}
  BY <1>1 DEF Coinable
<1>3. Few(Coinable(p)')
  BY <1>2, NoneFew
<1> DEFINE E == DOMAIN tx'[p].edges
<1>4. E = {}
  BY <1>1
<1> HIDE DEF E
<1>5. IsFiniteSet(E) /\ Cardinality(E) = 0
  BY <1>4, FS_EmptySet
<1>6. 0 <= MaxNewEdges
  BY TaggingAssumption
<1>7. IsFiniteSet(E) /\ Cardinality(E) <= job'[p].linked /\ job'[p].linked <= MaxNewEdges
  BY <1>5, <1>6
<1>8. /\ IsFiniteSet(DOMAIN tx'[p].edges) /\ Cardinality(DOMAIN tx'[p].edges) <= job'[p].linked
      /\ job'[p].linked <= MaxNewEdges
  BY <1>7 DEF E
<1> QED
  BY <1>3, <1>8 DEF CapsOk

LEMMA OwnCap ==
    ASSUME IInv, Typed, NEW p \in Taggers, CapsOk(p), TaggingStep(p)
    PROVE  CapsOk(p)'
<1> DEFINE j == job[p]
<1>1. /\ p \in Procs /\ Shape /\ tx = [g \in Procs |-> tx[g]] /\ WritesShape(tx[p])
      /\ tags = [t \in Tags |-> tags[t]] /\ job = [g \in Taggers |-> job[g]]
  BY TaggersAreApart DEF IInv, Shape, Typed
<1>2. /\ j.pc \in {"idle", "prompt"} => tx[p] = NoWrites /\ j.todo = <<>> /\ j.linked = 0
      /\ Few(Coinable(p)) /\ IsFiniteSet(DOMAIN tx[p].edges)
      /\ Cardinality(DOMAIN tx[p].edges) <= j.linked /\ j.linked <= MaxNewEdges
      /\ j.pc \in {"walk", "link"} => j.linked < MaxNewEdges
      /\ j.todo \in Seq(Suggestion) /\ j.linked \in Nat
  BY DEF CapsOk, Typed, JobTyped, JobState
<1>3. /\ MaxNewEdges \in Nat /\ Placeholder \in Tags
      /\ DOMAIN NoWrites.tags = {} /\ DOMAIN NoWrites.edges = {}
      /\ IsFiniteSet({}) /\ Cardinality({}) = 0
  BY FS_EmptySet, TaggingAssumption DEF NoWrites
<1>4. j.todo # <<>> =>
        /\ Now(p).tag \in Tags /\ 1 \in DOMAIN j.todo /\ j.todo[1] = Now(p)
        /\ Tail(j.todo) \in Seq(Suggestion)
        /\ \A k \in DOMAIN Tail(j.todo) :
             k + 1 \in DOMAIN j.todo /\ Tail(j.todo)[k] = j.todo[k + 1]
  <2> SUFFICES ASSUME j.todo # <<>>
               PROVE  /\ Now(p).tag \in Tags /\ 1 \in DOMAIN j.todo /\ j.todo[1] = Now(p)
                      /\ Tail(j.todo) \in Seq(Suggestion)
                      /\ \A k \in DOMAIN Tail(j.todo) :
                           k + 1 \in DOMAIN j.todo /\ Tail(j.todo)[k] = j.todo[k + 1]
    OBVIOUS
  <2> DEFINE s == j.todo
  <2>1. s \in Seq(Suggestion) /\ s # <<>> /\ Now(p) = Head(s)
    BY <1>2 DEF Now
  <2> HIDE DEF s
  <2>2. Head(s) \in Suggestion /\ Tail(s) \in Seq(Suggestion)
    BY <2>1, TailRange
  <2>3. Len(s) \in Nat /\ Len(s) > 0 /\ DOMAIN s = 1 .. Len(s) /\ Head(s) = s[1]
    BY <2>1
  <2>4. Len(Tail(s)) = Len(s) - 1 /\ DOMAIN Tail(s) = 1 .. Len(s) - 1
        /\ \A k \in 1 .. Len(s) - 1 : Tail(s)[k] = s[k + 1]
    BY <2>1, <2>3
  <2>5. 1 \in DOMAIN s /\ \A k \in 1 .. Len(s) - 1 : k + 1 \in DOMAIN s
    BY <2>3
  <2>6. Head(s).tag \in Tags
    BY <2>2 DEF Suggestion
  <2> QED
    BY <2>1, <2>2, <2>3, <2>4, <2>5, <2>6 DEF s
<1>5. ASSUME job' = [job EXCEPT ![p] = IdleJob], tx'[p] = NoWrites
      PROVE  CapsOk(p)'
  <2>1. job'[p] = IdleJob
    BY <1>1, <1>5
  <2>2. job'[p].todo = <<>> /\ job'[p].linked = 0 /\ job'[p].pc = "idle"
    BY <2>1 DEF IdleJob
  <2> QED
    BY <1>5, <2>2, FreshCap
<1>6. ASSUME NEW pc \in {"coin", "assign", "place", "walk", "link"}, NEW todo, NEW linked,
             Becomes(p, pc, todo, linked)
      PROVE  job'[p].pc = pc /\ job'[p].todo = todo /\ job'[p].linked = linked
  BY <1>1, <1>6 DEF Becomes
<1>7. ASSUME UNCHANGED tags, DOMAIN tx'[p].edges = DOMAIN tx[p].edges,
             job'[p].pc \notin {"idle", "prompt"}, job'[p].linked = j.linked,
             job'[p].pc \in {"walk", "link"} => j.linked < MaxNewEdges,
             Few(Coinable(p)')
      PROVE  CapsOk(p)'
  BY <1>2, <1>7 DEF CapsOk
<1>8. UNCHANGED <<tags, tx>> => \A t \in Tags : Exists(p, t)' = Exists(p, t)
  BY DEF Exists, SeenTags
<1>9. CASE BeginJob(p)
  <2>1. PICK i, known :
          job' = [job EXCEPT ![p] = [IdleJob EXCEPT
                     !.pc = "prompt", !.item = i, !.known = known]]
    BY <1>9 DEF BeginJob
  <2> DEFINE w == "prompt"
  <2> HIDE DEF w
  <2>2. job'[p] = [IdleJob EXCEPT !.pc = w, !.item = i, !.known = known]
    BY <1>1, <2>1 DEF w
  <2>3. job'[p] = [pc |-> w, item |-> i, known |-> known, todo |-> <<>>, linked |-> 0]
    BY <2>2, Begun
  <2>4. job'[p].todo = <<>> /\ job'[p].linked = 0 /\ job'[p].pc = "prompt"
    BY <2>3 DEF w
  <2>5. tx'[p] = NoWrites
    BY <1>2, <1>9 DEF BeginJob, tagVars
  <2> QED
    BY <2>4, <2>5, FreshCap
<1>10. CASE ModelAnswers(p)
  <2>1. PICK answer \in Answers(j.known) :
          job' = [job EXCEPT ![p].pc = "coin", ![p].todo = Capped(p, answer)]
    BY <1>10 DEF ModelAnswers
  <2>2. answer \in Seq(Suggestion)
    <3>1. PICK n \in 0 .. MaxSuggestions : answer \in [1 .. n -> Suggestion]
      BY <2>1 DEF Answers
    <3> QED
      BY <3>1
  <2> DEFINE list == Capped(p, answer)
             new == {t \in Tags : ~Exists(p, t) /\ \E k \in DOMAIN list : list[k].tag = t}
  <2>3. Becomes(p, "coin", list, j.linked)
    BY <2>1, JobChanges
  <2>4. Few(new)
    BY <2>2, CappedFew
  <2> HIDE DEF list
  <2>5. job'[p].pc = "coin" /\ job'[p].todo = list /\ job'[p].linked = j.linked
    BY <1>6, <2>3
  <2>6. UNCHANGED <<tags, tx>> /\ tx'[p] = tx[p] /\ tx[p] = NoWrites
    BY <1>2, <1>10 DEF ModelAnswers, tagVars, tables
  <2>7. Coinable(p)' = new
    BY <1>3, <1>8, <2>5, <2>6 DEF Coinable
  <2> QED
    BY <1>7, <2>4, <2>5, <2>6, <2>7
<1>11. CASE FallBack(p)
  <2>1. PICK c \in Given :
          job' = [job EXCEPT ![p].pc = "coin",
                    ![p].todo = <<[tag |-> Placeholder, conf |-> c, parent |-> NoTag]>>]
    BY <1>11 DEF FallBack
  <2> DEFINE list == <<[tag |-> Placeholder, conf |-> c, parent |-> NoTag]>>
  <2>2. \A k \in DOMAIN list : list[k].tag = Placeholder
    OBVIOUS
  <2>3. Becomes(p, "coin", list, j.linked)
    BY <2>1, JobChanges
  <2> HIDE DEF list
  <2>4. job'[p].pc = "coin" /\ job'[p].todo = list /\ job'[p].linked = j.linked
    BY <1>6, <2>3
  <2>5. UNCHANGED <<tags, tx>> /\ tx'[p] = tx[p] /\ tx[p] = NoWrites
    BY <1>2, <1>11 DEF FallBack, tagVars, tables
  <2>6. Coinable(p)' \in SUBSET {Placeholder}
    BY <1>3, <2>2, <2>4, <2>5 DEF Coinable
  <2>7. Few(Coinable(p)')
    BY <2>6, NoneFew, FewerStillFew
  <2> QED
    BY <1>7, <2>4, <2>5, <2>7
<1>12. CASE GetOrCreate(p)
  <2>1. /\ j.todo # <<>> /\ j.pc = "coin" /\ UNCHANGED tags
        /\ IF Exists(p, Now(p).tag) THEN UNCHANGED tx ELSE WriteTags(p, {Now(p).tag}, Active)
        /\ job' = [job EXCEPT ![p].pc = "assign"]
    BY <1>12 DEF GetOrCreate, tables
  <2>2. Becomes(p, "assign", j.todo, j.linked)
    BY <2>1, JobChanges
  <2>3. job'[p].pc = "assign" /\ job'[p].todo = j.todo /\ job'[p].linked = j.linked
    BY <1>6, <2>2
  <2>4. CASE UNCHANGED tx
    <3>1. Coinable(p)' = Coinable(p)
      BY <1>8, <2>1, <2>3, <2>4 DEF Coinable
    <3>2. Few(Coinable(p)')
      BY <1>2, <3>1
    <3>3. DOMAIN tx'[p].edges = DOMAIN tx[p].edges
      BY <2>4
    <3> QED
      BY <1>7, <2>1, <2>3, <3>2, <3>3
  <2>5. CASE ~Exists(p, Now(p).tag) /\ WriteTags(p, {Now(p).tag}, Active)
    <3> DEFINE c == Now(p).tag
    <3>1. tx'[p].tags = Put(tx[p].tags, {c}, Active) /\ tx'[p].edges = tx[p].edges
      BY <1>1, <2>5 DEF WriteTags, WritesShape
    <3>2. c \in Coinable(p) /\ c \in Tags
      BY <1>4, <2>1, <2>5 DEF Coinable
    <3> HIDE DEF c
    <3>3. /\ DOMAIN tx'[p].tags = DOMAIN tx[p].tags \cup {c}
          /\ \A t \in DOMAIN tx[p].tags : t # c => tx'[p].tags[t] = tx[p].tags[t]
          /\ tx'[p].tags[c] = Active
      BY <3>1 DEF Put
    <3>4. \A t \in Tags : Exists(p, t) => Exists(p, t)'
      BY <1>1, <2>1, <3>3 DEF Exists, SeenTags, Over, Active
    <3>5. Coinable(p)' \in SUBSET Coinable(p)
      BY <2>3, <3>2, <3>3, <3>4 DEF Coinable
    <3>6. Few(Coinable(p)')
      BY <1>2, <3>5, FewerStillFew
    <3> QED
      BY <1>7, <2>1, <2>3, <3>1, <3>6
  <2> QED
    BY <2>1, <2>4, <2>5
<1>13. CASE Assign(p)
  <2>1. /\ UNCHANGED tags /\ \E K, v : WriteLinks(p, K, v)
        /\ job' = [job EXCEPT ![p].pc = "place"]
    BY <1>13 DEF Assign, tables
  <2>2. Becomes(p, "place", j.todo, j.linked)
    BY <2>1, JobChanges
  <2>3. job'[p].pc = "place" /\ job'[p].todo = j.todo /\ job'[p].linked = j.linked
    BY <1>6, <2>2
  <2>4. tx'[p].tags = tx[p].tags /\ tx'[p].edges = tx[p].edges
    BY <1>1, <2>1 DEF WriteLinks, WritesShape
  <2>5. Coinable(p)' = Coinable(p)
    BY <2>1, <2>3, <2>4 DEF Coinable, Exists, SeenTags
  <2>6. Few(Coinable(p)')
    BY <1>2, <2>5
  <2> QED
    BY <1>7, <2>1, <2>3, <2>4, <2>6
<1>14. CASE FindParent(p) \/ WalkDown(p) \/ Link(p)
  <2> DEFINE rest == Tail(j.todo)
             e == <<Now(p).parent, Now(p).tag>>
             more == j.linked + 1
  <2>1. /\ UNCHANGED tags /\ j.todo # <<>>
        /\ LeftOut(p) \/ ParentFound(p) \/ WalkClear(p) \/ Hooked(p)
    BY <1>14, Placing DEF tables
  <2>2. ASSUME tx'[p].tags = tx[p].tags, job'[p].todo \in {j.todo, rest}
        PROVE  Few(Coinable(p)')
    <3>1. \A t \in Tags : Exists(p, t)' = Exists(p, t)
      BY <2>1, <2>2 DEF Exists, SeenTags
    <3>2. \A k \in DOMAIN rest : k + 1 \in DOMAIN j.todo /\ rest[k] = j.todo[k + 1]
      BY <1>4, <2>1
    <3> HIDE DEF rest
    <3>3. Coinable(p)' \in SUBSET Coinable(p)
      BY <2>2, <3>1, <3>2 DEF Coinable
    <3> QED
      BY <1>2, <3>3, FewerStillFew
  <2> HIDE DEF rest, e, more
  <2>3. CASE LeftOut(p) \/ ParentFound(p) \/ WalkClear(p)
    <3>1. UNCHANGED tx /\ tx'[p].tags = tx[p].tags
      BY <2>3 DEF LeftOut, ParentFound, WalkClear
    <3>2. /\ job'[p].pc \in {"coin", "walk", "link"} /\ job'[p].todo \in {j.todo, rest}
          /\ job'[p].linked = j.linked
          /\ job'[p].pc \in {"walk", "link"} => j.linked < MaxNewEdges
      BY <1>2, <1>6, <2>3 DEF LeftOut, ParentFound, WalkClear, rest
    <3> QED
      BY <1>7, <2>1, <2>2, <3>1, <3>2
  <2>4. CASE Hooked(p)
    <3>1. WriteEdges(p, {e}, TRUE) /\ j.linked < MaxNewEdges /\ Becomes(p, "coin", rest, more)
      BY <1>2, <2>4 DEF Hooked, rest, e, more
    <3>2. job'[p].pc = "coin" /\ job'[p].todo = rest /\ job'[p].linked = more
      BY <1>6, <3>1
    <3>3. tx'[p].tags = tx[p].tags /\ DOMAIN tx'[p].edges = DOMAIN tx[p].edges \cup {e}
      BY <1>1, <3>1 DEF WriteEdges, WritesShape, Put
    <3>4. Few(Coinable(p)')
      BY <2>2, <3>2, <3>3
    <3> DEFINE E == DOMAIN tx[p].edges
    <3>5. IsFiniteSet(E) /\ Cardinality(E) <= j.linked
      BY <1>2
    <3> HIDE DEF E
    <3>6. /\ IsFiniteSet(E \cup {e}) /\ Cardinality(E) \in Nat
          /\ Cardinality(E \cup {e}) = IF e \in E THEN Cardinality(E) ELSE Cardinality(E) + 1
      BY <3>5, FS_AddElement, FS_CardinalityType
    <3>7. Cardinality(E \cup {e}) <= more /\ more <= MaxNewEdges
      BY <1>2, <1>3, <3>1, <3>5, <3>6 DEF more
    <3>8. /\ IsFiniteSet(DOMAIN tx'[p].edges)
          /\ Cardinality(DOMAIN tx'[p].edges) <= more /\ more <= MaxNewEdges
      BY <3>3, <3>6, <3>7 DEF E
    <3> QED
      BY <3>2, <3>4, <3>8 DEF CapsOk
  <2> QED
    BY <2>1, <2>3, <2>4
<1>15. CASE CommitTagging(p)
  BY <1>1, <1>5, <1>15 DEF CommitTagging, CommitTx
<1>16. CASE FailTagging(p)
  BY <1>1, <1>5, <1>16 DEF FailTagging, Rollback
<1> QED
  BY <1>9, <1>10, <1>11, <1>12, <1>13, <1>14, <1>15, <1>16 DEF TaggingStep, TaggingProgress

LEMMA CappingInit == Init => Capping
<1> SUFFICES ASSUME NEW s \in Starts, TagStoreInit(s), TaggingInit(s), NEW p \in Taggers
             PROVE  CapsOk(p)
  BY DEF Init, Capping
<1>1. p \in Procs
  BY TaggersAreApart
<1>2. tx[p] = NoWrites /\ job[p] = IdleJob
  BY <1>1 DEF TagStoreInit, TaggingInit
<1>3. job[p].todo = <<>> /\ job[p].linked = 0 /\ job[p].pc = "idle"
  BY <1>2 DEF IdleJob
<1>4. DOMAIN NoWrites.tags = {} /\ DOMAIN NoWrites.edges = {}
  BY DEF NoWrites
<1>5. Coinable(p) = {}
  BY <1>2, <1>3, <1>4 DEF Coinable
<1>6. Few(Coinable(p))
  BY <1>5, NoneFew
<1> DEFINE E == DOMAIN tx[p].edges
<1>7. E = {}
  BY <1>2, <1>4
<1> HIDE DEF E
<1>8. IsFiniteSet(E) /\ Cardinality(E) = 0
  BY <1>7, FS_EmptySet
<1>9. IsFiniteSet(E) /\ Cardinality(E) <= job[p].linked /\ job[p].linked <= MaxNewEdges
  BY <1>3, <1>8, TaggingAssumption
<1>10. /\ IsFiniteSet(DOMAIN tx[p].edges) /\ Cardinality(DOMAIN tx[p].edges) <= job[p].linked
       /\ job[p].linked <= MaxNewEdges
  BY <1>9 DEF E
<1> QED
  BY <1>2, <1>3, <1>6, <1>10 DEF CapsOk

\* Whoever steps, the writes and jobs of the others stay.
LEMMA TaggingIsLocal ==
    ASSUME IInv, Typed, NEW p \in Taggers, TaggingStep(p), NEW g \in Taggers \ {p}
    PROVE  tx'[g] = tx[g] /\ job'[g] = job[g]
<1>1. /\ p \in Procs /\ g \in Procs /\ tx = [k \in Procs |-> tx[k]]
      /\ job = [k \in Taggers |-> job[k]]
  BY TaggersAreApart DEF IInv, Shape, Typed
<1>2. job'[g] = job[g]
  BY <1>1 DEF TaggingStep, TaggingProgress, BeginJob, ModelAnswers, FallBack, GetOrCreate,
     Assign, FindParent, WalkDown, Link, LeaveUnplaced, CommitTagging, FailTagging
<1>3. tx'[g] = tx[g]
  BY <1>1 DEF TaggingStep, TaggingProgress, BeginJob, ModelAnswers, FallBack, GetOrCreate,
     Assign, FindParent, WalkDown, Link, CommitTagging, FailTagging, WriteTags, WriteLinks,
     WriteEdges, CommitTx, Rollback, tagVars
<1> QED
  BY <1>2, <1>3

LEMMA ApplyingIsLocal ==
    ASSUME IInv, NEW p \in Appliers, ApplierStep(p) \/ Victim(p), NEW g \in Taggers
    PROVE  tx'[g] = tx[g]
<1>1. /\ p \in Procs /\ g \in Procs /\ g # p /\ tx = [k \in Procs |-> tx[k]]
  BY TaggersAreApart, MergingAssumption DEF IInv, Shape
<1>2. CASE ApplierStep(p)
  BY <1>1, <1>2 DEF ApplierStep, ApplierProgress, MergeStatement, Decide, ListApproved,
     StartMerge, SkipInapplicable, MoveLink, DropLinks, SelectEdges, RepointEdge,
     UnlinkSources, RetireSources, MarkApplied, CommitMerges, ApplierDies, Rollback,
     CommitTx, WriteTags, WriteLinks, WriteEdges, WriteProposals, tagVars
<1>3. CASE Victim(p)
  BY <1>1, <1>3 DEF Victim, AbandonMerge
<1> QED
  BY <1>2, <1>3

LEMMA CappingStep == IInv /\ Typed /\ Capping /\ [Next]_vars => Capping'
<1> SUFFICES ASSUME IInv, Typed, Capping, [Next]_vars, NEW g \in Taggers PROVE CapsOk(g)'
  BY DEF Capping
<1>1. CapsOk(g)
  BY DEF Capping
<1>2. IInv'
  BY StepInvariant
<1>3. tags' = [t \in Tags |-> tags'[t]]
  BY <1>2 DEF IInv, Shape
<1>4. \A t \in Tags : tags[t].status # "absent" => tags'[t].status # "absent"
  BY TagsStay
<1>5. ASSUME tx'[g] = tx[g], job'[g] = job[g] PROVE CapsOk(g)'
  BY <1>1, <1>3, <1>4, <1>5, OthersCap
<1>6. ASSUME NEW p \in Taggers, TaggingStep(p) PROVE CapsOk(g)'
  <2>1. CASE p = g
    BY <1>1, <1>6, <2>1, OwnCap
  <2>2. CASE p # g
    BY <1>5, <1>6, <2>2, TaggingIsLocal
  <2> QED
    BY <2>1, <2>2
<1>7. ASSUME NEW p \in Appliers, ApplierStep(p) \/ Victim(p), UNCHANGED taggingVars
      PROVE  CapsOk(g)'
  <2>1. tx'[g] = tx[g]
    BY <1>7, ApplyingIsLocal
  <2>2. job'[g] = job[g]
    BY <1>7 DEF taggingVars
  <2> QED
    BY <1>5, <2>1, <2>2
<1>8. ASSUME NEW q \in Proposals, AdminApproves(q), UNCHANGED taggingVars PROVE CapsOk(g)'
  BY <1>5, <1>8 DEF AdminApproves, taggingVars
<1>9. CASE UNCHANGED vars
  BY <1>5, <1>9 DEF vars, tagVars, taggingVars
<1> QED
  BY <1>6, <1>7, <1>8, <1>9 DEF Next, Settled

LEMMA CappingHolds ==
    ASSUME Typed, Capping
    PROVE  CapsHold
<1> SUFFICES ASSUME NEW p \in Taggers
             PROVE  /\ \/ Cardinality(DOMAIN tx[p].tags) <= MaxNewTags
                       \/ DOMAIN tx[p].tags = {Placeholder}
                    /\ Cardinality(DOMAIN tx[p].edges) <= MaxNewEdges
  BY DEF CapsHold
<1> DEFINE T == DOMAIN tx[p].tags
           E == DOMAIN tx[p].edges
<1>1. CapsOk(p)
  BY DEF Capping
<1>2. T \in SUBSET Coinable(p)
  BY DEF Coinable
<1>3. Few(Coinable(p))
  BY <1>1 DEF CapsOk
<1>4. IsFiniteSet(E) /\ Cardinality(E) <= job[p].linked /\ job[p].linked <= MaxNewEdges
  BY <1>1 DEF CapsOk
<1>5. job[p].linked \in Nat /\ MaxNewEdges \in Nat /\ MaxNewTags \in Nat
  BY TaggingAssumption DEF Typed, JobTyped, JobState
<1> HIDE DEF T, E
<1>6. Few(T)
  BY <1>2, <1>3, FewerStillFew
<1>7. Cardinality(T) <= MaxNewTags \/ T = {Placeholder}
  <2>1. CASE T = {}
    BY <1>5, <2>1, FS_EmptySet
  <2>2. CASE T # {}
    BY <1>6, <2>2 DEF Few
  <2> QED
    BY <2>1, <2>2
<1>8. Cardinality(E) <= MaxNewEdges
  <2>1. Cardinality(E) \in Nat
    BY <1>4, FS_CardinalityType
  <2> QED
    BY <1>4, <1>5, <2>1
<1> QED
  BY <1>7, <1>8 DEF T, E

\* One classification adds at most MaxNewTags tags and MaxNewEdges edges,
\* however its answer is worded and whoever else writes meanwhile: the cap of
\* _cap_new_tags is taken before anything is written, and since no tag is ever
\* deleted what is left to coin only shrinks.  Only the placeholder is coined
\* whatever the cap.
THEOREM CapsAreKept == Spec => []CapsHold
<1>1. Init => Capping
  BY CappingInit
<1>2. IInv /\ Typed /\ Capping /\ [Next]_vars => Capping'
  BY CappingStep
<1>3. Typed /\ Capping => CapsHold
  BY CappingHolds
<1> QED
  BY <1>1, <1>2, <1>3, TaxonomyInvariant, TaxonomyTyped, PTL DEF Spec

(***************************************************************************)
(* The review gate.                                                        *)
(***************************************************************************)

\* Nothing in the repository starts a second run of apply_approved_proposals
\* while one goes on.
OneApplyJob == \A p, g \in ApplyJobs : p = g

\* A proposal that may still be applied names rows there are: ids come from rows,
\* and no row of `tags` is deleted.
SourcesExist ==
    \A s \in Starts, q \in Proposals :
        KindOf[q] = "merge" /\ s.status[q] # "rejected" => SourcesOf[q] \subseteq s.tags

\* The proposals a transaction has applied.
Marked(w) == {q \in DOMAIN w.proposals : w.proposals[q].status = "applied"}

\* The tags written by w are those the merges Q fold, each folded by one of them.
Accounted(w, Q) ==
    /\ \A q \in Q : KindOf[q] = "merge"
    /\ \A t \in DOMAIN w.tags :
         /\ w.tags[t].status = "merged"
         /\ \E q \in Q : Gate!Folds(q, t) /\ w.tags[t].into = TargetOf[q]
    /\ \A q \in Q, t \in Tags : Gate!Folds(q, t) => t \in DOMAIN w.tags

\* Between retiring its sources and marking it, the proposal at hand counts.
AtMark(p) == IF merge[p].pc = "mark" THEN {This(p)} ELSE {}

\* p is a reviewer's request, with the one decision it has made.
Reviewing(p) ==
    /\ p \in Reviewers
    /\ \E q \in Proposals :
         /\ DOMAIN tx[p].proposals = {q} /\ Range(merge[p].todo) \subseteq {q}
         /\ proposals[q].status = "pending"
         /\ tx[p].proposals[q].by \in People

\* p is a run of the apply job: what it has listed or marked stays approved in
\* the table, by whoever approved it.
Running(p) ==
    /\ p \in ApplyJobs
    /\ \A q \in Range(merge[p].todo) : proposals[q].status = "approved"
    /\ \A q \in DOMAIN tx[p].proposals :
         /\ proposals[q].status = "approved"
         /\ tx[p].proposals[q].status = "applied"
         /\ tx[p].proposals[q].by = proposals[q].by

AtWork(p) == AtRest(p) \/ Reviewing(p) \/ Running(p)

Savepoint(p) ==
    merge[p].pc \in Statements =>
        /\ Applicable(This(p))
        /\ Accounted(merge[p].saved, Marked(merge[p].saved))
        /\ DOMAIN merge[p].saved.tags \subseteq DOMAIN tx[p].tags

GateOk(p) ==
    /\ AtRest(p) => tx[p] = NoWrites
    /\ AtWork(p)
    /\ Savepoint(p)
    /\ Accounted(tx[p], Marked(tx[p]) \cup AtMark(p))

\* A worker writes tags that were not there, and merges none.
CoinsOk(p) == \A t \in DOMAIN tx[p].tags : tags[t].into = NoTag /\ tx[p].tags[t].into = NoTag

OnlyMergedGoSomewhere == \A t \in Tags : tags[t].status # "merged" => tags[t].into = NoTag

TagsLocked ==
    \A p, g \in Procs : p # g => DOMAIN tx[p].tags \cap DOMAIN tx[g].tags = {}

SourcesStay ==
    \A q \in Proposals : KindOf[q] = "merge" /\ proposals[q].status # "rejected" =>
        \A t \in SourcesOf[q] : tags[t].status # "absent"

GateInv ==
    /\ OneApplyJob
    /\ OnlyMergedGoSomewhere
    /\ TagsLocked
    /\ SourcesStay
    /\ \A p \in Appliers : GateOk(p)
    /\ \A p \in Procs \ Appliers : CoinsOk(p)

\* A step of p that commits nothing.
LEMMA GateOthers ==
    ASSUME IInv, GateInv, NEW p \in Procs, Step(p), UNCHANGED <<tags, proposals>>,
           p \in Appliers => GateOk(p)',
           p \notin Appliers => CoinsOk(p)',
           \A t \in DOMAIN tx'[p].tags :
             t \in DOMAIN tx[p].tags \/ \A g \in Procs \ {p} : t \notin DOMAIN tx[g].tags
    PROVE  GateInv'
<1>1. \A g \in Procs \ {p} : tx'[g] = tx[g]
  BY DEF Step, OthersKeep
<1>2. ASSUME NEW g \in Appliers \ {p} PROVE GateOk(g)'
  <2>1. tx'[g] = tx[g] /\ merge'[g] = merge[g]
    BY <1>1, MergingAssumption DEF Step
  <2>2. GateOk(g)
    BY DEF GateInv
  <2>3. Range(merge[g].todo) \subseteq Proposals
    BY DEF IInv, Shape, MergeShape, Range
  <2>4. AtRest(g)' = AtRest(g) /\ AtMark(g)' = AtMark(g) /\ This(g)' = This(g)
    BY <2>1 DEF AtRest, AtMark, This
  <2>5. AtWork(g)'
    BY <2>1, <2>2, <2>4 DEF GateOk, AtWork, Reviewing, Running
  <2>6. Savepoint(g)'
    BY <2>1, <2>2, <2>4 DEF GateOk, Savepoint
  <2> QED
    BY <2>1, <2>2, <2>4, <2>5, <2>6 DEF GateOk
<1>3. ASSUME NEW g \in (Procs \ Appliers) \ {p} PROVE CoinsOk(g)'
  BY <1>1 DEF GateInv, CoinsOk
<1>4. TagsLocked'
  BY <1>1 DEF GateInv, TagsLocked
<1>5. OnlyMergedGoSomewhere' /\ SourcesStay'
  BY DEF GateInv, OnlyMergedGoSomewhere, SourcesStay
<1> QED
  BY <1>2, <1>3, <1>4, <1>5 DEF GateInv

\* Accounts are of tags and marks only.
LEMMA SameAccount ==
    ASSUME NEW w, NEW x, x.tags = w.tags, x.proposals = w.proposals, NEW Q, Accounted(w, Q)
    PROVE  Accounted(x, Q) /\ Marked(x) = Marked(w)
BY DEF Accounted, Marked

LEMMA NothingAccounted ==
    Accounted(NoWrites, {}) /\ Marked(NoWrites) = {}
BY NothingWritten DEF Accounted, Marked

LEMMA GateQuiet ==
    ASSUME IInv, GateInv, NEW p \in Appliers, Step(p), UNCHANGED <<tags, proposals>>,
           tx'[p].tags = tx[p].tags, tx'[p].proposals = tx[p].proposals,
           \/ /\ merge[p].pc \in Statements \ {"mark"}
              /\ merge'[p].pc \in Statements \ {"mark"}
              /\ merge'[p].todo = merge[p].todo /\ merge'[p].saved = merge[p].saved
           \/ /\ merge[p].pc = "next" /\ merge'[p].pc \in Statements \ {"mark"}
              /\ Applicable(This(p))
              /\ merge'[p].todo = merge[p].todo /\ merge'[p].saved = tx[p]
           \/ /\ merge[p].pc = "next" /\ merge'[p].pc = "next"
              /\ Range(merge'[p].todo) \subseteq Range(merge[p].todo)
    PROVE  GateInv'
<1>1. p \in Procs /\ GateOk(p)
  BY MergingAssumption DEF GateInv
<1>2. ~AtRest(p) /\ ~AtRest(p)' /\ merge[p].pc # "mark" /\ merge'[p].pc # "mark"
  BY DEF AtRest, Statements
<1>3. Range(merge'[p].todo) \subseteq Range(merge[p].todo)
  OBVIOUS
<1>4. AtWork(p)'
  <2>1. CASE Reviewing(p)
    BY <1>3, <2>1 DEF Reviewing, AtWork
  <2>2. CASE Running(p)
    BY <1>3, <2>2 DEF Running, AtWork
  <2> QED
    BY <1>1, <1>2, <2>1, <2>2 DEF GateOk, AtWork
<1>5. AtMark(p) = {} /\ AtMark(p)' = {}
  BY <1>2 DEF AtMark
<1>6. Accounted(tx[p], Marked(tx[p]))
  <2>1. Marked(tx[p]) \cup AtMark(p) = Marked(tx[p])
    BY <1>5
  <2> QED
    BY <1>1, <2>1 DEF GateOk
<1>7. Accounted(tx'[p], Marked(tx'[p]))
  BY <1>6, SameAccount
<1>8. Accounted(tx[p], Marked(tx[p]) \cup AtMark(p))'
  <2>1. Marked(tx'[p]) \cup AtMark(p)' = Marked(tx'[p])
    BY <1>5
  <2> QED
    BY <1>7, <2>1
<1>9. Savepoint(p)'
  <2>1. CASE merge[p].pc \in Statements /\ merge'[p].todo = merge[p].todo
             /\ merge'[p].saved = merge[p].saved
    BY <1>1, <2>1 DEF GateOk, Savepoint, This
  <2>2. CASE merge'[p].saved = tx[p] /\ merge'[p].todo = merge[p].todo /\ Applicable(This(p))
    BY <1>6, <2>2 DEF Savepoint, This
  <2>3. CASE merge'[p].pc = "next"
    BY <2>3 DEF Savepoint, Statements
  <2> QED
    BY <2>1, <2>2, <2>3
<1>10. GateOk(p)'
  BY <1>2, <1>4, <1>8, <1>9 DEF GateOk
<1> QED
  BY <1>1, <1>10, GateOthers

LEMMA GateDecide ==
    ASSUME IInv, GateInv, NEW p \in Reviewers, NEW q \in Proposals,
           NEW verdict \in {"approved", "rejected"}, Decide(p, q, verdict)
    PROVE  GateInv'
<1> DEFINE r == [status |-> verdict, by |-> PersonOf[p]]
<1> DEFINE todo == IF verdict = "approved" THEN <<q>> ELSE <<>>
<1>1. p \in Appliers /\ p \in Procs /\ Shape /\ GateOk(p)
  BY MergingAssumption DEF IInv, Appliers, GateInv
<1>2. /\ r \in ProposalRow /\ r.status # "pending" /\ r.status # "applied"
      /\ r.by \in People
  BY MergingAssumption, TagStoreAssumption DEF ProposalRow
<1>3. /\ UNCHANGED <<tags, proposals>>
      /\ WriteProposals(p, {q}, r) /\ AtRest(p)
      /\ merge' = [merge EXCEPT ![p] = [IdleMerge EXCEPT !.pc = "next", !.todo = todo]]
      /\ SeenProposals(p)[q].status = "pending"
  BY DEF Decide, tables
<1>4. proposals[q].status = "pending"
  BY <1>1, <1>3, SeenNamed
<1> HIDE DEF r
<1>5. /\ tx' = [g \in Procs |-> tx'[g]] /\ OthersKeep(p) /\ WritesShape(tx'[p])
      /\ tx'[p].tags = tx[p].tags
      /\ tx'[p].proposals = Put(tx[p].proposals, {q}, r)
  BY <1>1, <1>2, <1>3, Writing
<1>6. todo \in Seq(Proposals) /\ \A k \in Range(todo) : k = q
  BY DEF Range
<1> HIDE DEF todo
<1>7. Turns(p, "next", todo, NoWrites)
  BY <1>1, <1>3, <1>6, Turning
<1>8. Step(p)
  BY <1>1, <1>5, <1>7, TurningSteps
<1>9. /\ merge'[p].pc = "next" /\ merge'[p].todo = todo
  BY <1>7 DEF Turns
<1>10. tx[p] = NoWrites
  BY <1>1, <1>3 DEF GateOk
<1>11. /\ DOMAIN tx'[p].proposals = {q} /\ tx'[p].proposals[q] = r
       /\ DOMAIN tx'[p].tags = {}
  BY <1>5, <1>10, NothingWritten DEF Put
<1>12. AtWork(p)'
  BY <1>2, <1>3, <1>4, <1>6, <1>9, <1>11 DEF AtWork, Reviewing
<1>13. Savepoint(p)'
  BY <1>9 DEF Savepoint, Statements
<1>14. Accounted(tx[p], Marked(tx[p]) \cup AtMark(p))'
  <2>1. Marked(tx'[p]) \cup AtMark(p)' = {}
    BY <1>2, <1>9, <1>11 DEF Marked, AtMark
  <2>2. Accounted(tx'[p], {})
    BY <1>11 DEF Accounted
  <2> QED
    BY <2>1, <2>2
<1>15. ~AtRest(p)'
  BY <1>9 DEF AtRest
<1>16. GateOk(p)'
  BY <1>12, <1>13, <1>14, <1>15 DEF GateOk
<1> QED
  BY <1>1, <1>3, <1>5, <1>8, <1>16, GateOthers

LEMMA GateListing ==
    ASSUME IInv, GateInv, NEW p \in ApplyJobs, ListApproved(p)
    PROVE  GateInv'
<1>1. p \in Procs /\ p \in Appliers /\ Shape /\ GateOk(p)
  BY MergingAssumption DEF IInv, Appliers, GateInv
<1>2. UNCHANGED <<tags, proposals, tx>> /\ AtRest(p)
  BY DEF ListApproved, tagVars, tables
<1>3. PICK listed :
        /\ listed \in Seq(Proposals)
        /\ \A q \in Range(listed) : q \in Proposals /\ SeenProposals(p)[q].status = "approved"
        /\ merge' = [merge EXCEPT ![p] = [IdleMerge EXCEPT !.pc = "next", !.todo = listed]]
  BY <1>1, Listed
<1>4. tx[p] = NoWrites
  BY <1>1, <1>2 DEF GateOk
<1>5. \A q \in Range(listed) : proposals[q].status = "approved"
  BY <1>1, <1>3, <1>4, NothingWritten DEF SeenProposals, Over, Shape
<1>6. Turns(p, "next", listed, NoWrites)
  BY <1>1, <1>3, Turning
<1>7. /\ tx' = [g \in Procs |-> tx'[g]] /\ OthersKeep(p) /\ WritesShape(tx'[p])
      /\ tx'[p] = tx[p]
  BY <1>1, <1>2 DEF Shape, OthersKeep
<1>8. Step(p)
  BY <1>1, <1>6, <1>7, TurningSteps
<1>9. merge'[p].pc = "next" /\ merge'[p].todo = listed
  BY <1>6 DEF Turns
<1>10. tx'[p] = NoWrites /\ DOMAIN tx'[p].proposals = {}
  BY <1>4, <1>7, NothingWritten
<1>11. AtWork(p)'
  BY <1>2, <1>5, <1>9, <1>10 DEF AtWork, Running
<1>12. Savepoint(p)'
  BY <1>9 DEF Savepoint, Statements
<1>13. Accounted(tx[p], Marked(tx[p]) \cup AtMark(p))'
  <2>1. Marked(tx'[p]) \cup AtMark(p)' = {}
    BY <1>9, <1>10, NothingAccounted DEF AtMark
  <2>2. Accounted(tx'[p], {})
    BY <1>10, NothingAccounted
  <2> QED
    BY <2>1, <2>2
<1>14. ~AtRest(p)'
  BY <1>9 DEF AtRest
<1>15. GateOk(p)'
  BY <1>11, <1>12, <1>13, <1>14 DEF GateOk
<1> QED
  BY <1>1, <1>2, <1>8, <1>10, <1>15, NothingWritten, GateOthers

LEMMA GateRetire ==
    ASSUME IInv, Typed, GateInv, NEW p \in Appliers, RetireSources(p)
    PROVE  GateInv'
<1> DEFINE K == {t \in Sources(p) : Exists(p, t)}
           v == [status |-> "merged", into |-> Target(p)]
           q == This(p)
<1>1. /\ p \in Procs /\ Shape /\ GateOk(p) /\ MergeOk(p) /\ MergeShape(merge[p])
      /\ WritesShape(tx[p]) /\ WritesTyped(tx[p])
  BY MergingAssumption DEF IInv, GateInv, Shape, MergesExplained, Typed
<1>2. /\ merge[p].pc = "retire" /\ UNCHANGED <<tags, proposals>>
      /\ Free(p, TagKeys(K)) /\ WriteTags(p, K, v) /\ GotoMerge(p, "mark")
  BY DEF RetireSources, tables, ApplierWants
<1>3. merge[p].todo # <<>> /\ q \in Range(merge[p].todo) /\ q \in Proposals
  <2>1. merge[p].todo # <<>> /\ merge[p].todo \in Seq(Proposals)
    BY <1>1, <1>2 DEF MergeOk, MergeShape
  <2> QED
    BY <2>1, TailRange DEF This
<1>4. KindOf[q] = "merge" /\ \A t : t \in Sources(p) <=> Gate!Folds(q, t)
  BY <1>1, <1>2 DEF GateOk, Savepoint, Statements, Applicable, Sources, Target, Gate!Folds
<1>5. proposals[q].status # "rejected"
  <2>1. AtWork(p) /\ ~AtRest(p)
    BY <1>1, <1>2 DEF GateOk, AtRest
  <2>2. CASE Reviewing(p)
    BY <1>3, <2>2 DEF Reviewing
  <2>3. CASE Running(p)
    BY <1>3, <2>3 DEF Running
  <2> QED
    BY <2>1, <2>2, <2>3 DEF AtWork
<1>6. SourcesOf[q] \in SUBSET Tags
  BY <1>3, TagStoreAssumption
<1>7. \A t \in SourcesOf[q] : Exists(p, t)
  <2>1. \A t \in SourcesOf[q] : tags[t].status # "absent"
    BY <1>3, <1>4, <1>5 DEF GateInv, SourcesStay
  <2>2. tags = [t \in Tags |-> tags[t]]
    BY <1>1 DEF Shape
  <2> QED
    BY <1>1, <1>6, <2>1, <2>2 DEF Exists, SeenTags, Over, WritesTyped
<1>8. \A t : t \in K <=> Gate!Folds(q, t)
  BY <1>4, <1>7 DEF Sources
<1>9. v.status = "merged" /\ v.into = TargetOf[q]
  BY DEF Target
<1>10. \A g \in Procs \ {p} : \A t \in K : t \notin DOMAIN tx[g].tags
  BY <1>2 DEF Free, Locks, TagKeys
<1> HIDE DEF K, v
<1>11. /\ tx' = [g \in Procs |-> tx'[g]] /\ OthersKeep(p) /\ WritesShape(tx'[p])
       /\ tx'[p].tags = Put(tx[p].tags, K, v)
       /\ tx'[p].proposals = tx[p].proposals
  BY <1>1, <1>2, Writing
<1>12. Turns(p, "mark", merge[p].todo, merge[p].saved)
  BY <1>1, <1>2, Turning
<1>13. Step(p)
  BY <1>1, <1>11, <1>12, TurningSteps
<1>14. /\ merge'[p].pc = "mark" /\ merge'[p].todo = merge[p].todo
       /\ merge'[p].saved = merge[p].saved /\ This(p)' = q
  BY <1>12 DEF Turns, This
<1>15. /\ DOMAIN tx'[p].tags = DOMAIN tx[p].tags \cup K
       /\ \A t \in K : tx'[p].tags[t] = v
       /\ \A t \in DOMAIN tx[p].tags : t \notin K => tx'[p].tags[t] = tx[p].tags[t]
  BY <1>11 DEF Put
<1>16. AtWork(p)'
  <2>1. AtWork(p) /\ ~AtRest(p)
    BY <1>1, <1>2 DEF GateOk, AtRest
  <2>2. CASE Reviewing(p)
    BY <1>2, <1>11, <1>14, <2>2 DEF Reviewing, AtWork
  <2>3. CASE Running(p)
    BY <1>2, <1>11, <1>14, <2>3 DEF Running, AtWork
  <2> QED
    BY <2>1, <2>2, <2>3 DEF AtWork
<1>17. Savepoint(p)'
  BY <1>1, <1>2, <1>14, <1>15 DEF GateOk, Savepoint, Statements
<1>18. Accounted(tx'[p], Marked(tx[p]) \cup {q})
  <2>1. Accounted(tx[p], Marked(tx[p]))
    <3>1. Marked(tx[p]) \cup AtMark(p) = Marked(tx[p])
      BY <1>2 DEF AtMark
    <3> QED
      BY <1>1, <3>1 DEF GateOk
  <2>2. \A k \in Marked(tx[p]) \cup {q} : KindOf[k] = "merge"
    BY <1>4, <2>1 DEF Accounted
  <2>3. ASSUME NEW t \in DOMAIN tx'[p].tags
        PROVE  /\ tx'[p].tags[t].status = "merged"
               /\ \E k \in Marked(tx[p]) \cup {q} :
                    Gate!Folds(k, t) /\ tx'[p].tags[t].into = TargetOf[k]
    <3>1. CASE t \in K
      BY <1>8, <1>9, <1>15, <3>1
    <3>2. CASE t \notin K
      BY <1>15, <2>1, <3>2 DEF Accounted
    <3> QED
      BY <3>1, <3>2
  <2>4. \A k \in Marked(tx[p]) \cup {q}, t \in Tags : Gate!Folds(k, t) => t \in DOMAIN tx'[p].tags
    BY <1>8, <1>15, <2>1 DEF Accounted
  <2> QED
    BY <2>2, <2>3, <2>4 DEF Accounted
<1>19. Accounted(tx[p], Marked(tx[p]) \cup AtMark(p))'
  <2>1. Marked(tx'[p]) = Marked(tx[p])
    BY <1>11 DEF Marked
  <2>2. AtMark(p)' = {q}
    BY <1>14 DEF AtMark
  <2> QED
    BY <1>18, <2>1, <2>2
<1>20. ~AtRest(p)'
  BY <1>14 DEF AtRest
<1>21. GateOk(p)'
  BY <1>16, <1>17, <1>19, <1>20 DEF GateOk
<1> QED
  BY <1>1, <1>2, <1>10, <1>13, <1>15, <1>21, GateOthers

LEMMA GateMark ==
    ASSUME IInv, GateInv, NEW p \in Appliers, MarkApplied(p)
    PROVE  GateInv'
<1> DEFINE q == This(p)
           r == [SeenProposals(p)[q] EXCEPT !.status = "applied"]
           rest == Tail(merge[p].todo)
<1>1. /\ p \in Procs /\ Shape /\ GateOk(p) /\ MergeOk(p) /\ MergeShape(merge[p])
      /\ WritesShape(tx[p])
  BY MergingAssumption DEF IInv, GateInv, Shape, MergesExplained
<1>2. /\ merge[p].pc = "mark" /\ UNCHANGED <<tags, proposals>>
      /\ WriteProposals(p, {q}, r)
      /\ merge' = [merge EXCEPT ![p].pc = "next", ![p].todo = rest, ![p].saved = NoWrites]
  BY DEF MarkApplied, tables
<1>3. merge[p].todo # <<>> /\ merge[p].todo \in Seq(Proposals)
  BY <1>1, <1>2 DEF MergeOk, MergeShape
<1>4. /\ q \in Proposals /\ q \in Range(merge[p].todo)
      /\ rest \in Seq(Proposals) /\ Range(rest) \subseteq Range(merge[p].todo)
  BY <1>3, TailRange DEF This
<1>5. /\ SeenProposals(p)[q] \in ProposalRow
      /\ SeenProposals(p)[q] =
           IF q \in DOMAIN tx[p].proposals THEN tx[p].proposals[q] ELSE proposals[q]
  BY <1>1, <1>4, SeenNamed DEF SeenProposals, Over, Shape
<1>6. r \in ProposalRow /\ r.status = "applied" /\ r.by = SeenProposals(p)[q].by
  BY <1>5 DEF ProposalRow
<1> HIDE DEF r, rest
<1>7. /\ tx' = [g \in Procs |-> tx'[g]] /\ OthersKeep(p) /\ WritesShape(tx'[p])
      /\ tx'[p].tags = tx[p].tags
      /\ tx'[p].proposals = Put(tx[p].proposals, {q}, r)
  BY <1>1, <1>2, <1>4, <1>6, Writing
<1>8. Turns(p, "next", rest, NoWrites)
  BY <1>1, <1>2, <1>4, Turning
<1>9. Step(p)
  BY <1>1, <1>7, <1>8, TurningSteps
<1>10. merge'[p].pc = "next" /\ merge'[p].todo = rest
  BY <1>8 DEF Turns
<1>11. /\ DOMAIN tx'[p].proposals = DOMAIN tx[p].proposals \cup {q}
       /\ tx'[p].proposals[q] = r
       /\ \A k \in DOMAIN tx[p].proposals : k # q => tx'[p].proposals[k] = tx[p].proposals[k]
  BY <1>7 DEF Put
<1>12. AtWork(p)'
  <2>1. AtWork(p) /\ ~AtRest(p)
    BY <1>1, <1>2 DEF GateOk, AtRest
  <2>2. CASE Reviewing(p)
    <3>1. PICK k \in Proposals :
            /\ DOMAIN tx[p].proposals = {k} /\ Range(merge[p].todo) \subseteq {k}
            /\ proposals[k].status = "pending"
            /\ tx[p].proposals[k].by \in People
      BY <2>2 DEF Reviewing
    <3>2. k = q
      BY <1>4, <3>1
    <3>3. DOMAIN tx'[p].proposals = {k} /\ tx'[p].proposals[k].by \in People
      BY <1>5, <1>6, <1>11, <3>1, <3>2
    <3>4. Range(merge'[p].todo) \subseteq {k} /\ proposals'[k].status = "pending"
      BY <1>2, <1>4, <1>10, <3>1
    <3> QED
      BY <2>2, <3>3, <3>4 DEF Reviewing, AtWork
  <2>3. CASE Running(p)
    <3>1. proposals[q].status = "approved" /\ r.by = proposals[q].by
      BY <1>4, <1>5, <1>6, <2>3 DEF Running
    <3>2. \A k \in DOMAIN tx'[p].proposals :
            /\ proposals'[k].status = "approved"
            /\ tx'[p].proposals[k].status = "applied"
            /\ tx'[p].proposals[k].by = proposals'[k].by
      BY <1>2, <1>6, <1>11, <2>3, <3>1 DEF Running
    <3>3. \A k \in Range(merge'[p].todo) : proposals'[k].status = "approved"
      BY <1>2, <1>4, <1>10, <2>3 DEF Running
    <3> QED
      BY <2>3, <3>2, <3>3 DEF Running, AtWork
  <2> QED
    BY <2>1, <2>2, <2>3 DEF AtWork
<1>13. Savepoint(p)'
  BY <1>10 DEF Savepoint, Statements
<1>14. Marked(tx'[p]) \cup AtMark(p)' = Marked(tx[p]) \cup AtMark(p)
  <2>1. AtMark(p) = {q} /\ AtMark(p)' = {}
    BY <1>2, <1>10 DEF AtMark
  <2>2. Marked(tx'[p]) = Marked(tx[p]) \cup {q}
    BY <1>6, <1>11 DEF Marked
  <2> QED
    BY <2>1, <2>2
<1>15. Accounted(tx[p], Marked(tx[p]) \cup AtMark(p))'
  <2>1. Accounted(tx[p], Marked(tx[p]) \cup AtMark(p))
    BY <1>1 DEF GateOk
  <2>2. Accounted(tx'[p], Marked(tx[p]) \cup AtMark(p))
    BY <1>7, <2>1 DEF Accounted
  <2> QED
    BY <1>14, <2>2
<1>16. ~AtRest(p)'
  BY <1>10 DEF AtRest
<1>17. GateOk(p)'
  BY <1>12, <1>13, <1>15, <1>16 DEF GateOk
<1> QED
  BY <1>1, <1>2, <1>7, <1>9, <1>17, GateOthers

\* An applier at rest has nothing to account for.
LEMMA RestIsOk ==
    ASSUME NEW p, tx'[p] = NoWrites, merge'[p].pc \in {"idle", "dead"}
    PROVE  GateOk(p)'
<1>1. AtRest(p)' /\ AtMark(p)' = {}
  BY DEF AtRest, AtMark
<1>2. Savepoint(p)'
  BY DEF Savepoint, Statements
<1>3. Accounted(tx[p], Marked(tx[p]) \cup AtMark(p))'
  <2>1. Marked(tx'[p]) \cup AtMark(p)' = {}
    BY <1>1, NothingAccounted
  <2>2. Accounted(tx'[p], {})
    BY NothingAccounted
  <2> QED
    BY <2>1, <2>2
<1>4. AtWork(p)'
  BY <1>1 DEF AtWork
<1> QED
  BY <1>2, <1>3, <1>4 DEF GateOk

LEMMA GateUndo ==
    ASSUME IInv, Typed, GateInv, NEW p \in Appliers, ApplierDies(p) \/ AbandonMerge(p)
    PROVE  GateInv'
<1>1. /\ p \in Procs /\ Shape /\ GateOk(p) /\ MergeOk(p) /\ MergeShape(merge[p])
  BY MergingAssumption DEF IInv, GateInv, MergesExplained, Shape
<1>2. CASE ApplierDies(p)
  <2>1. /\ UNCHANGED <<tags, proposals>> /\ tx' = [tx EXCEPT ![p] = NoWrites]
        /\ merge' = [merge EXCEPT ![p] = [IdleMerge EXCEPT !.pc = "dead"]]
    BY <1>2 DEF ApplierDies, Rollback, tables
  <2>2. Turns(p, "dead", <<>>, NoWrites)
    BY <1>1, <2>1, Turning
  <2>3. /\ tx' = [g \in Procs |-> tx'[g]] /\ OthersKeep(p) /\ tx'[p] = NoWrites
    BY <1>1, <2>1, NothingWritten, Replacing
  <2>4. Step(p)
    BY <1>1, <2>2, <2>3, NothingWritten, TurningSteps
  <2>5. merge'[p].pc = "dead"
    BY <2>2 DEF Turns
  <2>6. GateOk(p)'
    BY <2>3, <2>5, RestIsOk
  <2>7. DOMAIN tx'[p].tags = {}
    BY <2>3, NothingWritten
  <2> QED
    BY <1>1, <2>1, <2>4, <2>6, <2>7, GateOthers
<1>3. CASE AbandonMerge(p)
  <2> DEFINE rest == Tail(merge[p].todo)
             failed == merge[p].failed \cup {This(p)}
  <2>1. /\ merge[p].pc \notin {"idle", "dead", "next"} /\ UNCHANGED <<tags, proposals>>
        /\ tx' = [tx EXCEPT ![p] = merge[p].saved]
        /\ merge' = [merge EXCEPT ![p] = [IdleMerge EXCEPT
                        !.pc = "next", !.todo = rest, !.failed = failed]]
    BY <1>3 DEF AbandonMerge, AtRest, tables
  <2>2. /\ WritesShape(merge[p].saved)
        /\ merge[p].saved.proposals = tx[p].proposals /\ merge[p].todo # <<>>
    BY <1>1, <2>1 DEF MergeOk
  <2>3. rest \in Seq(Proposals) /\ Range(rest) \subseteq Range(merge[p].todo)
    BY <1>1, <2>2, TailRange DEF MergeShape
  <2> HIDE DEF rest, failed
  <2>4. Turns(p, "next", rest, NoWrites)
    BY <1>1, <2>1, <2>3, Turning
  <2>5. /\ tx' = [g \in Procs |-> tx'[g]] /\ OthersKeep(p) /\ tx'[p] = merge[p].saved
    BY <1>1, <2>1, <2>2, Replacing
  <2>6. Step(p)
    BY <1>1, <2>2, <2>4, <2>5, TurningSteps
  <2>7. merge'[p].pc = "next" /\ merge'[p].todo = rest
    BY <2>4 DEF Turns
  <2>8. /\ Accounted(merge[p].saved, Marked(merge[p].saved))
        /\ DOMAIN merge[p].saved.tags \subseteq DOMAIN tx[p].tags
    <3>1. merge[p].pc \in Statements
      BY <2>1 DEF Typed, MergeTyped
    <3> QED
      BY <1>1, <3>1 DEF GateOk, Savepoint
  <2>9. AtWork(p)'
    <3>1. AtWork(p) /\ ~AtRest(p)
      BY <1>1, <2>1 DEF GateOk, AtRest
    <3>2. CASE Reviewing(p)
      BY <2>1, <2>2, <2>3, <2>5, <2>7, <3>2 DEF Reviewing, AtWork
    <3>3. CASE Running(p)
      BY <2>1, <2>2, <2>3, <2>5, <2>7, <3>3 DEF Running, AtWork
    <3> QED
      BY <3>1, <3>2, <3>3 DEF AtWork
  <2>10. Savepoint(p)'
    BY <2>7 DEF Savepoint, Statements
  <2>11. Accounted(tx[p], Marked(tx[p]) \cup AtMark(p))'
    <3>1. Marked(tx'[p]) \cup AtMark(p)' = Marked(merge[p].saved)
      BY <2>5, <2>7 DEF AtMark
    <3> QED
      BY <2>5, <2>8, <3>1
  <2>12. ~AtRest(p)'
    BY <2>7 DEF AtRest
  <2>13. GateOk(p)'
    BY <2>9, <2>10, <2>11, <2>12 DEF GateOk
  <2> QED
    BY <1>1, <2>1, <2>5, <2>6, <2>8, <2>13, GateOthers
<1> QED
  BY <1>2, <1>3

LEMMA GateProgress ==
    ASSUME IInv, Typed, GateInv, NEW p \in Appliers, ApplierProgress(p), ~CommitMerges(p)
    PROVE  GateInv'
<1>1. /\ p \in Procs /\ Shape /\ WritesShape(tx[p]) /\ MergeShape(merge[p])
  BY MergingAssumption DEF IInv, Shape
<1>2. UNCHANGED tx => /\ tx' = [g \in Procs |-> tx'[g]] /\ OthersKeep(p)
                      /\ WritesShape(tx'[p]) /\ tx'[p] = tx[p]
  BY <1>1 DEF Shape, OthersKeep
<1>3. ASSUME NEW pc \in Statements \ {"mark"}, merge[p].pc \in Statements \ {"mark"},
             Turns(p, pc, merge[p].todo, merge[p].saved), UNCHANGED <<tags, proposals>>,
             \/ UNCHANGED tx
             \/ \E K, v : WriteLinks(p, K, v) \/ WriteEdges(p, K, v)
      PROVE  GateInv'
  <2>1. /\ tx' = [g \in Procs |-> tx'[g]] /\ OthersKeep(p) /\ WritesShape(tx'[p])
        /\ tx'[p].tags = tx[p].tags /\ tx'[p].proposals = tx[p].proposals
    BY <1>1, <1>2, <1>3, Writing
  <2>2. Step(p)
    BY <1>1, <1>3, <2>1, TurningSteps
  <2> QED
    BY <1>3, <2>1, <2>2, GateQuiet DEF Turns
<1>4. CASE StartMerge(p)
  <2>a. PICK pc \in {"edges", "move"} : \E rows :
          merge' = [merge EXCEPT ![p].pc = pc, ![p].rows = rows, ![p].saved = tx[p]]
    BY <1>4 DEF StartMerge
  <2>1. PICK rows :
          merge' = [merge EXCEPT ![p].pc = pc, ![p].rows = rows, ![p].saved = tx[p]]
    BY <2>a
  <2>2. Turns(p, pc, merge[p].todo, tx[p])
    BY <1>1, <2>1, Turning
  <2>3. UNCHANGED <<tags, proposals, tx>>
    BY <1>4 DEF StartMerge, tagVars, tables
  <2>4. Step(p)
    BY <1>1, <1>2, <2>2, <2>3, TurningSteps
  <2>5. merge[p].pc = "next" /\ Applicable(This(p))
    BY <1>4 DEF StartMerge
  <2> QED
    BY <1>2, <2>2, <2>3, <2>4, <2>5, GateQuiet DEF Turns, Statements
<1>5. CASE SkipInapplicable(p)
  <2> DEFINE rest == Tail(merge[p].todo)
  <2>1. /\ merge[p].pc = "next" /\ merge[p].todo # <<>> /\ UNCHANGED <<tags, proposals, tx>>
        /\ merge' = [merge EXCEPT ![p].todo = rest,
                                  ![p].failed = merge[p].failed \cup {This(p)}]
    BY <1>5 DEF SkipInapplicable, tagVars, tables
  <2>2. rest \in Seq(Proposals) /\ Range(rest) \subseteq Range(merge[p].todo)
    BY <1>1, <2>1, TailRange DEF MergeShape
  <2> HIDE DEF rest
  <2>3. Turns(p, "next", rest, merge[p].saved)
    BY <1>1, <2>1, <2>2, Turning
  <2>4. Step(p)
    BY <1>1, <1>2, <2>1, <2>3, TurningSteps
  <2> QED
    BY <1>2, <2>1, <2>2, <2>3, <2>4, GateQuiet DEF Turns
<1>6. ASSUME NEW r \in merge[p].rows, MoveLink(p, r) PROVE GateInv'
  <2>1. PICK pc \in {"drop", "move"} :
          merge' = [merge EXCEPT ![p].rows = merge[p].rows \ {r}, ![p].pc = pc]
    BY <1>6 DEF MoveLink
  <2>2. Turns(p, pc, merge[p].todo, merge[p].saved)
    BY <1>1, <2>1, Turning
  <2>3. /\ merge[p].pc = "move" /\ UNCHANGED <<tags, proposals>>
        /\ \E K, v : WriteLinks(p, K, v)
    BY <1>6 DEF MoveLink, tables
  <2> QED
    BY <1>3, <2>2, <2>3 DEF Statements
<1>7. CASE DropLinks(p)
  <2>1. /\ merge[p].pc = "drop" /\ UNCHANGED <<tags, proposals>>
        /\ \E K, v : WriteLinks(p, K, v)
    BY <1>7 DEF DropLinks, tables
  <2>2. Turns(p, "edges", merge[p].todo, merge[p].saved)
    BY <1>1, <1>7, Turning DEF DropLinks
  <2> QED
    BY <1>3, <2>1, <2>2 DEF Statements
<1>8. CASE SelectEdges(p)
  <2>a. PICK pc \in {"unlink", "repoint"} : \E pairs :
          merge' = [merge EXCEPT ![p].pc = pc, ![p].pairs = pairs]
    BY <1>8 DEF SelectEdges
  <2>1. PICK pairs : merge' = [merge EXCEPT ![p].pc = pc, ![p].pairs = pairs]
    BY <2>a
  <2>2. Turns(p, pc, merge[p].todo, merge[p].saved)
    BY <1>1, <2>1, Turning
  <2>3. merge[p].pc = "edges" /\ UNCHANGED <<tags, proposals, tx>>
    BY <1>8 DEF SelectEdges, tagVars, tables
  <2> QED
    BY <1>3, <2>2, <2>3 DEF Statements
<1>9. ASSUME NEW e \in merge[p].pairs, RepointEdge(p, e) PROVE GateInv'
  <2>1. PICK pc \in {"unlink", "repoint"} :
          merge' = [merge EXCEPT ![p].pairs = merge[p].pairs \ {e}, ![p].pc = pc]
    BY <1>9 DEF RepointEdge
  <2>2. Turns(p, pc, merge[p].todo, merge[p].saved)
    BY <1>1, <2>1, Turning
  <2>3. /\ merge[p].pc = "repoint" /\ UNCHANGED <<tags, proposals>>
        /\ UNCHANGED tx \/ \E K, v : WriteEdges(p, K, v)
    BY <1>9 DEF RepointEdge, tables
  <2> QED
    BY <1>3, <2>2, <2>3 DEF Statements
<1>10. CASE UnlinkSources(p)
  <2>1. /\ merge[p].pc = "unlink" /\ UNCHANGED <<tags, proposals>>
        /\ \E K, v : WriteEdges(p, K, v)
    BY <1>10 DEF UnlinkSources, tables
  <2>2. Turns(p, "retire", merge[p].todo, merge[p].saved)
    BY <1>1, <1>10, Turning DEF UnlinkSources
  <2> QED
    BY <1>3, <2>1, <2>2 DEF Statements
<1> QED
  BY <1>4, <1>5, <1>6, <1>7, <1>8, <1>9, <1>10, GateRetire, GateMark
     DEF ApplierProgress, MergeStatement

\* What a commit of p makes of the rows.
LEMMA Committed ==
    ASSUME IInv, NEW p \in Procs, CommitTx(p)
    PROVE  /\ tags' = [t \in Tags |-> IF t \in DOMAIN tx[p].tags THEN tx[p].tags[t] ELSE tags[t]]
           /\ proposals' = [q \in Proposals |->
                IF q \in DOMAIN tx[p].proposals THEN tx[p].proposals[q] ELSE proposals[q]]
           /\ \A q \in DOMAIN tx[p].proposals : q \in Proposals
           /\ tx'[p] = NoWrites /\ \A g \in Procs \ {p} : tx'[g] = tx[g]
<1>1. Shape
  BY DEF IInv
<1> QED
  BY <1>1 DEF CommitTx, SeenTags, SeenProposals, Over, Shape, WritesShape

\* A commit of p leaves alone the appliers at work on other proposals.
LEMMA CommitOthers ==
    ASSUME IInv, GateInv, NEW p \in Procs, CommitTx(p),
           p \in Appliers => Reviewing(p) \/ Running(p),
           p \notin Appliers => DOMAIN tx[p].proposals = {},
           NEW g \in Appliers \ {p}, merge'[g] = merge[g]
    PROVE  GateOk(g)'
<1>1. g \in Procs /\ tx'[g] = tx[g] /\ GateOk(g)
  BY MergingAssumption, Committed DEF GateInv
<1>2. /\ \A q \in Proposals : q \notin DOMAIN tx[p].proposals => proposals'[q] = proposals[q]
      /\ \A q \in DOMAIN tx[p].proposals : q \notin DOMAIN tx[g].proposals
  BY <1>1, Committed DEF IInv, DecisionsLocked
<1>3. AtRest(g)' = AtRest(g) /\ AtMark(g)' = AtMark(g) /\ This(g)' = This(g)
  BY <1>1 DEF AtRest, AtMark, This
<1>4. AtWork(g)'
  <2>1. CASE AtRest(g)
    BY <1>3, <2>1 DEF AtWork
  <2>2. CASE Reviewing(g)
    BY <1>1, <1>2, <2>2 DEF AtWork, Reviewing
  <2>3. CASE Running(g)
    <3>1. \A q \in Range(merge[g].todo) : q \in Proposals
      BY DEF IInv, Shape, MergeShape, Range
    <3>2. \A q \in DOMAIN tx[g].proposals : q \in Proposals
      BY <1>1 DEF IInv, Shape, WritesShape
    <3>3. \A q \in DOMAIN tx[p].proposals : proposals[q].status = "pending"
      <4>1. CASE p \in Appliers
        <5>1. ~Running(p)
          BY <2>3 DEF GateInv, OneApplyJob, Running
        <5> QED
          BY <4>1, <5>1 DEF Reviewing
      <4> QED
        BY <4>1
    <3>4. \A q \in Proposals : proposals[q].status = "approved" => proposals'[q] = proposals[q]
      BY <1>2, <3>3
    <3> QED
      BY <1>1, <2>3, <3>1, <3>2, <3>4 DEF AtWork, Running
  <2> QED
    BY <1>1, <2>1, <2>2, <2>3 DEF GateOk, AtWork
<1>5. Savepoint(g)'
  BY <1>1, <1>3 DEF GateOk, Savepoint
<1> QED
  BY <1>1, <1>3, <1>4, <1>5 DEF GateOk

\* What the tags committed by p do to the rest.
LEMMA CommitTags ==
    ASSUME IInv, Typed, GateInv, NEW p \in Procs, CommitTx(p),
           \A t \in DOMAIN tx[p].tags :
             tx[p].tags[t].status = "merged" \/ tx[p].tags[t].into = NoTag,
           \A q \in DOMAIN tx[p].proposals : proposals[q].status # "rejected"
    PROVE  OnlyMergedGoSomewhere' /\ TagsLocked' /\ SourcesStay'
<1>1. /\ tags' = [t \in Tags |-> IF t \in DOMAIN tx[p].tags THEN tx[p].tags[t] ELSE tags[t]]
      /\ proposals' = [q \in Proposals |->
           IF q \in DOMAIN tx[p].proposals THEN tx[p].proposals[q] ELSE proposals[q]]
      /\ tx'[p] = NoWrites /\ \A g \in Procs \ {p} : tx'[g] = tx[g]
  BY Committed
<1>2. OnlyMergedGoSomewhere'
  BY <1>1 DEF GateInv, OnlyMergedGoSomewhere
<1>3. TagsLocked'
  BY <1>1, NothingWritten DEF GateInv, TagsLocked
<1>4. \A t \in Tags : tags[t].status # "absent" => tags'[t].status # "absent"
  BY <1>1 DEF Typed, WritesTyped
<1>5. SourcesStay'
  <2> SUFFICES ASSUME NEW q \in Proposals, KindOf[q] = "merge", proposals'[q].status # "rejected",
                      NEW t \in SourcesOf[q]
               PROVE  tags'[t].status # "absent"
    BY DEF SourcesStay
  <2>1. proposals[q].status # "rejected"
    BY <1>1
  <2>2. t \in Tags
    BY TagStoreAssumption
  <2> QED
    BY <1>4, <2>1, <2>2 DEF GateInv, SourcesStay
<1> QED
  BY <1>2, <1>3, <1>5

\* A commit of p leaves alone the tags others are coining.
LEMMA CommitCoins ==
    ASSUME IInv, Typed, GateInv, NEW p \in Procs, CommitTx(p),
           NEW g \in (Procs \ Appliers) \ {p}
    PROVE  CoinsOk(g)'
<1>1. /\ tags' = [t \in Tags |-> IF t \in DOMAIN tx[p].tags THEN tx[p].tags[t] ELSE tags[t]]
      /\ tx'[g] = tx[g]
  BY Committed
<1>2. \A t \in DOMAIN tx[g].tags : t \in Tags /\ t \notin DOMAIN tx[p].tags
  BY DEF GateInv, TagsLocked, Typed, WritesTyped
<1>3. CoinsOk(g)
  BY DEF GateInv
<1> QED
  BY <1>1, <1>2, <1>3 DEF CoinsOk
LEMMA GateCommit ==
    ASSUME IInv, Typed, GateInv, NEW p \in Appliers, CommitMerges(p)
    PROVE  GateInv'
<1>1. p \in Procs /\ Shape /\ GateOk(p)
  BY MergingAssumption DEF IInv, GateInv
<1>2. /\ merge[p].pc = "next" /\ CommitTx(p)
      /\ merge' = [merge EXCEPT ![p] = IdleMerge]
  BY DEF CommitMerges
<1>3. Reviewing(p) \/ Running(p)
  BY <1>1, <1>2 DEF GateOk, AtWork, AtRest
<1>4. merge'[p].pc = "idle" /\ \A g \in Appliers \ {p} : merge'[g] = merge[g]
  BY <1>1, <1>2 DEF Shape, IdleMerge
<1>5. GateOk(p)'
  BY <1>1, <1>2, <1>4, Committed, RestIsOk
<1>6. \A g \in Appliers \ {p} : GateOk(g)'
  BY <1>1, <1>2, <1>3, <1>4, CommitOthers
<1>7. \A g \in (Procs \ Appliers) \ {p} : CoinsOk(g)'
  BY <1>1, <1>2, CommitCoins
<1>8. \A t \in DOMAIN tx[p].tags : tx[p].tags[t].status = "merged"
  BY <1>1 DEF GateOk, Accounted
<1>9. \A q \in DOMAIN tx[p].proposals : proposals[q].status # "rejected"
  BY <1>3 DEF Reviewing, Running
<1>10. OnlyMergedGoSomewhere' /\ TagsLocked' /\ SourcesStay'
  BY <1>1, <1>2, <1>8, <1>9, CommitTags
<1> QED
  BY <1>5, <1>6, <1>7, <1>10 DEF GateInv

(***************************************************************************)
(* The gate and the others.                                                *)
(***************************************************************************)

LEMMA GateTagging ==
    ASSUME IInv, Typed, GateInv, NEW p \in Taggers, TaggingStep(p), UNCHANGED merge
    PROVE  GateInv'
<1>1. p \in Procs /\ p \notin Appliers
  BY TaggersAreApart
<1>2. /\ Shape /\ OtherOk(p) /\ WritesShape(tx[p]) /\ WritesTyped(tx[p]) /\ CoinsOk(p)
      /\ tags = [t \in Tags |-> tags[t]]
  BY <1>1 DEF IInv, MergesExplained, Shape, Typed, GateInv
<1>3. /\ merge' = [g \in Appliers |-> merge'[g]]
      /\ \A g \in Appliers \ {p} : merge'[g] = merge[g]
  BY <1>2 DEF Shape
<1>4. ASSUME UNCHANGED <<tags, proposals>>, tx' = [g \in Procs |-> tx'[g]],
             OthersKeep(p), WritesShape(tx'[p]), CoinsOk(p)',
             \A t \in DOMAIN tx'[p].tags :
               t \in DOMAIN tx[p].tags \/ \A g \in Procs \ {p} : t \notin DOMAIN tx[g].tags
      PROVE  GateInv'
  <2>1. Step(p)
    BY <1>1, <1>3, <1>4 DEF Step
  <2> QED
    BY <1>1, <1>4, <2>1, GateOthers
<1>5. ASSUME UNCHANGED <<tags, proposals, tx>> PROVE GateInv'
  <2>1. tx' = [g \in Procs |-> tx'[g]] /\ OthersKeep(p) /\ tx'[p] = tx[p]
    BY <1>2, <1>5 DEF Shape, OthersKeep
  <2>2. CoinsOk(p)'
    BY <1>2, <1>5 DEF CoinsOk
  <2>3. WritesShape(tx'[p])
    BY <1>2, <2>1
  <2> QED
    BY <1>4, <1>5, <2>1, <2>2, <2>3
<1>6. ASSUME NEW K, NEW v, UNCHANGED <<tags, proposals>>,
             WriteLinks(p, K, v) \/ WriteEdges(p, K, v)
      PROVE  GateInv'
  <2>1. /\ tx' = [g \in Procs |-> tx'[g]] /\ OthersKeep(p) /\ WritesShape(tx'[p])
        /\ tx'[p].tags = tx[p].tags
    BY <1>1, <1>2, <1>6, Writing
  <2>2. CoinsOk(p)'
    BY <1>2, <1>6, <2>1 DEF CoinsOk
  <2> QED
    BY <1>4, <1>6, <2>1, <2>2
<1>7. CASE BeginJob(p) \/ ModelAnswers(p) \/ FallBack(p)
  BY <1>5, <1>7 DEF BeginJob, ModelAnswers, FallBack, tagVars, tables
<1>8. CASE GetOrCreate(p)
  <2> DEFINE t == Now(p).tag
  <2>1. UNCHANGED <<tags, proposals>> /\ job[p].pc = "coin" /\ job[p].todo # <<>>
    BY <1>8 DEF GetOrCreate, tables
  <2>2. CASE UNCHANGED tx
    BY <1>5, <2>1, <2>2
  <2>3. CASE WriteTags(p, {t}, Active) /\ ~Exists(p, t)
    <3>1. /\ tx' = [g \in Procs |-> tx'[g]] /\ OthersKeep(p) /\ WritesShape(tx'[p])
          /\ tx'[p].tags = Put(tx[p].tags, {t}, Active)
      BY <1>1, <1>2, <2>3, Writing
    <3>2. t \in Tags
      <4>1. job[p].todo \in Seq(Suggestion) /\ job[p].todo # <<>>
        BY <2>1 DEF Typed, JobTyped, JobState
      <4>2. Head(job[p].todo) \in Suggestion
        BY <4>1, TailRange
      <4> QED
        BY <4>2 DEF Now, Suggestion
    <3>3. t \notin DOMAIN tx[p].tags /\ tags[t].status = "absent"
      BY <1>2, <2>3, <3>2 DEF Exists, SeenTags, Over, WritesTyped
    <3>4. tags[t].into = NoTag
      BY <3>2, <3>3 DEF GateInv, OnlyMergedGoSomewhere
    <3>5. \A g \in Procs \ {p} : t \notin DOMAIN tx[g].tags
      <4>1. Free(p, TagKeys({t}))
        BY <1>8 DEF GetOrCreate, TaggerWants
      <4> QED
        BY <4>1 DEF Free, Locks, TagKeys
    <3> HIDE DEF t
    <3>6. /\ DOMAIN tx'[p].tags = DOMAIN tx[p].tags \cup {t} /\ tx'[p].tags[t] = Active
          /\ \A u \in DOMAIN tx[p].tags : u # t => tx'[p].tags[u] = tx[p].tags[u]
      BY <3>1 DEF Put
    <3>7. CoinsOk(p)'
      BY <1>2, <2>1, <3>4, <3>6 DEF CoinsOk, Active
    <3> QED
      BY <1>4, <2>1, <3>1, <3>5, <3>6, <3>7
  <2> QED
    BY <1>8, <2>2, <2>3 DEF GetOrCreate
<1>9. CASE Assign(p)
  BY <1>6, <1>9 DEF Assign, tables
<1>10. CASE FindParent(p) \/ WalkDown(p) \/ Link(p)
  <2>1. /\ UNCHANGED <<tags, proposals>> /\ job[p].pc \in {"place", "walk", "link"}
        /\ UNCHANGED tx \/ WriteEdges(p, {<<Now(p).parent, Now(p).tag>>}, TRUE)
    BY <1>10, Placing DEF LeftOut, ParentFound, WalkClear, Hooked, tables
  <2> QED
    BY <1>5, <1>6, <2>1
<1>11. CASE FailTagging(p)
  <2>1. UNCHANGED <<tags, proposals>> /\ tx' = [tx EXCEPT ![p] = NoWrites]
    BY <1>11 DEF FailTagging, Rollback, tables
  <2>2. tx' = [g \in Procs |-> tx'[g]] /\ OthersKeep(p) /\ tx'[p] = NoWrites
    BY <1>1, <1>2, <2>1, NothingWritten, Replacing
  <2>3. WritesShape(tx'[p]) /\ DOMAIN tx'[p].tags = {}
    BY <2>2, NothingWritten
  <2>4. CoinsOk(p)'
    BY <2>3 DEF CoinsOk
  <2> QED
    BY <1>4, <2>1, <2>2, <2>3, <2>4
<1>12. CASE CommitTagging(p)
  <2>1. CommitTx(p)
    BY <1>12 DEF CommitTagging
  <2>2. tx'[p] = NoWrites
    BY <1>1, <2>1, Committed
  <2>3. CoinsOk(p)'
    BY <2>2, NothingWritten DEF CoinsOk
  <2>4. DOMAIN tx[p].proposals = {}
    BY <1>2 DEF OtherOk
  <2>5. \A g \in Appliers : g \in Appliers \ {p} /\ merge'[g] = merge[g]
    BY <1>1, <1>3
  <2>6. \A g \in Appliers : GateOk(g)'
    BY <1>1, <2>1, <2>4, <2>5, CommitOthers
  <2>7. \A g \in (Procs \ Appliers) \ {p} : CoinsOk(g)'
    BY <1>1, <2>1, CommitCoins
  <2>8. OnlyMergedGoSomewhere' /\ TagsLocked' /\ SourcesStay'
    BY <1>1, <1>2, <2>1, <2>4, CommitTags DEF CoinsOk
  <2> QED
    BY <2>3, <2>6, <2>7, <2>8 DEF GateInv
<1> QED
  BY <1>7, <1>8, <1>9, <1>10, <1>11, <1>12 DEF TaggingStep, TaggingProgress

LEMMA GateAdmin ==
    ASSUME IInv, GateInv, NEW q \in Proposals, AdminApproves(q)
    PROVE  GateInv'
<1>1. /\ \A p \in Procs : q \notin DOMAIN tx[p].proposals
      /\ proposals[q].status = "pending"
      /\ proposals' = [proposals EXCEPT ![q] = [status |-> "approved", by |-> AdminUser]]
      /\ UNCHANGED <<tags, tx, merge>>
  BY DEF AdminApproves
<1>2. /\ proposals'[q].status = "approved"
      /\ \A k \in Proposals : k # q => proposals'[k] = proposals[k]
  BY <1>1 DEF IInv, Shape
<1>3. ASSUME NEW p \in Appliers PROVE GateOk(p)'
  <2>1. p \in Procs /\ GateOk(p)
    BY MergingAssumption DEF GateInv
  <2>2. AtRest(p)' = AtRest(p) /\ AtMark(p)' = AtMark(p) /\ This(p)' = This(p)
    BY <1>1 DEF AtRest, AtMark, This
  <2>3. AtWork(p)'
    <3>1. \A k \in Range(merge[p].todo) : k \in Proposals
      BY DEF IInv, Shape, MergeShape, Range
    <3>2. \A k \in DOMAIN tx[p].proposals : k \in Proposals /\ k # q
      BY <1>1, <2>1 DEF IInv, Shape, WritesShape
    <3>3. CASE Reviewing(p)
      BY <1>1, <1>2, <3>2, <3>3 DEF AtWork, Reviewing
    <3>4. CASE Running(p)
      BY <1>1, <1>2, <3>1, <3>2, <3>4 DEF AtWork, Running
    <3> QED
      BY <2>1, <2>2, <3>3, <3>4 DEF GateOk, AtWork
  <2>4. Savepoint(p)'
    BY <1>1, <2>1, <2>2 DEF GateOk, Savepoint
  <2> QED
    BY <1>1, <2>1, <2>2, <2>3, <2>4 DEF GateOk
<1>4. \A p \in Procs \ Appliers : CoinsOk(p)'
  BY <1>1 DEF GateInv, CoinsOk
<1>5. OnlyMergedGoSomewhere' /\ TagsLocked'
  BY <1>1 DEF GateInv, OnlyMergedGoSomewhere, TagsLocked
<1>6. SourcesStay'
  BY <1>1, <1>2 DEF GateInv, SourcesStay
<1> QED
  BY <1>3, <1>4, <1>5, <1>6 DEF GateInv

LEMMA GateStill == GateInv /\ UNCHANGED vars => GateInv'
<1> SUFFICES ASSUME GateInv, UNCHANGED vars PROVE GateInv'
  OBVIOUS
<1>1. UNCHANGED <<tags, proposals, tx, merge>>
  BY DEF vars, tagVars, tables
<1>2. ASSUME NEW p \in Appliers PROVE GateOk(p)'
  <2>1. GateOk(p)
    BY DEF GateInv
  <2>2. AtRest(p)' = AtRest(p) /\ AtMark(p)' = AtMark(p) /\ This(p)' = This(p)
    BY <1>1 DEF AtRest, AtMark, This
  <2>3. AtWork(p)'
    BY <1>1, <2>1, <2>2 DEF GateOk, AtWork, Reviewing, Running
  <2>4. Savepoint(p)'
    BY <1>1, <2>1, <2>2 DEF GateOk, Savepoint
  <2> QED
    BY <1>1, <2>1, <2>2, <2>3, <2>4 DEF GateOk
<1>3. \A p \in Procs \ Appliers : CoinsOk(p)'
  BY <1>1 DEF GateInv, CoinsOk
<1>4. OnlyMergedGoSomewhere' /\ TagsLocked' /\ SourcesStay'
  BY <1>1 DEF GateInv, OnlyMergedGoSomewhere, TagsLocked, SourcesStay
<1> QED
  BY <1>2, <1>3, <1>4 DEF GateInv

LEMMA GateStep == IInv /\ Typed /\ GateInv /\ [Next]_vars => GateInv'
<1> SUFFICES ASSUME IInv, Typed, GateInv, [Next]_vars PROVE GateInv'
  OBVIOUS
<1>1. ASSUME NEW p \in Taggers, TaggingStep(p), UNCHANGED merge PROVE GateInv'
  BY <1>1, GateTagging
<1>2. ASSUME NEW p \in Appliers, ApplierStep(p) PROVE GateInv'
  <2>1. CASE ApplierProgress(p) \/ ApplierDies(p)
    BY <2>1, GateProgress, GateCommit, GateUndo
  <2>2. CASE p \in ApplyJobs /\ ListApproved(p)
    BY <2>2, GateListing
  <2>3. ASSUME p \in Reviewers, NEW q \in Proposals,
               NEW verdict \in {"approved", "rejected"}, Decide(p, q, verdict)
        PROVE  GateInv'
    BY <2>3, GateDecide
  <2> QED
    BY <1>2, <2>1, <2>2, <2>3 DEF ApplierStep
<1>3. ASSUME NEW q \in Proposals, AdminApproves(q) PROVE GateInv'
  BY <1>3, GateAdmin
<1>4. ASSUME NEW p \in Appliers, Victim(p) PROVE GateInv'
  BY <1>4, GateUndo DEF Victim
<1> QED
  BY <1>1, <1>2, <1>3, <1>4, GateStill DEF Next, Settled

LEMMA GateInit == Init /\ OneApplyJob /\ SourcesExist => GateInv
<1> SUFFICES ASSUME OneApplyJob, SourcesExist, NEW s \in Starts, TagStoreInit(s), MergingInit
             PROVE  GateInv
  BY DEF Init
<1>1. /\ tags = [t \in Tags |-> IF t \in s.tags THEN Active ELSE Absent]
      /\ proposals = [q \in Proposals |->
           [status |-> s.status[q],
            by |-> IF s.status[q] = "pending" THEN Nobody ELSE CHOOSE person \in People : TRUE]]
      /\ tx = [p \in Procs |-> NoWrites]
      /\ merge = [p \in Appliers |-> IdleMerge]
  BY DEF TagStoreInit, MergingInit
<1>2. OnlyMergedGoSomewhere
  BY <1>1 DEF OnlyMergedGoSomewhere, Active, Absent
<1>3. TagsLocked
  BY <1>1, NothingWritten DEF TagsLocked
<1>4. SourcesStay
  <2>1. \A q \in Proposals : proposals[q].status = s.status[q] /\ SourcesOf[q] \subseteq Tags
    BY <1>1, TagStoreAssumption
  <2>2. \A t \in s.tags : t \in Tags /\ tags[t].status # "absent"
    BY <1>1, TagStoreAssumption DEF Active
  <2> QED
    BY <2>1, <2>2 DEF SourcesStay, SourcesExist
<1>5. ASSUME NEW p \in Appliers PROVE GateOk(p)
  <2>1. tx[p] = NoWrites /\ merge[p].pc = "idle"
    BY <1>1, MergingAssumption DEF IdleMerge
  <2>2. AtRest(p) /\ AtMark(p) = {}
    BY <2>1 DEF AtRest, AtMark
  <2>3. Savepoint(p)
    BY <2>1 DEF Savepoint, Statements
  <2>4. Accounted(tx[p], Marked(tx[p]) \cup AtMark(p))
    <3>1. Marked(tx[p]) \cup AtMark(p) = {}
      BY <2>1, <2>2, NothingAccounted
    <3> QED
      BY <2>1, <3>1, NothingAccounted
  <2> QED
    BY <2>1, <2>2, <2>3, <2>4 DEF GateOk, AtWork
<1>6. \A p \in Procs \ Appliers : CoinsOk(p)
  BY <1>1, NothingWritten DEF CoinsOk
<1> QED
  BY <1>2, <1>3, <1>4, <1>5, <1>6 DEF GateInv

(***************************************************************************)
(* The refinement.                                                         *)
(***************************************************************************)

\* A transaction that accounts for Q carries out the merges Q when it commits.
LEMMA CommitFolds ==
    ASSUME IInv, Typed, NEW p \in Procs, CommitTx(p), NEW Q, Accounted(tx[p], Q)
    PROVE  Gate!Fold(Q)
<1> DEFINE into == [t \in Tags |-> tags[t].into]
<1>1. tags' = [t \in Tags |-> IF t \in DOMAIN tx[p].tags THEN tx[p].tags[t] ELSE tags[t]]
  BY Committed
<1>2. \A t \in Tags : tags'[t] \in TagRow
  BY <1>1 DEF Typed, TablesTyped, WritesTyped
<1>3. into' \in [Tags -> Tags \cup {NoTag}]
  BY <1>2 DEF TagRow
<1>4. ASSUME NEW t \in Tags, \E q \in Q : Gate!Folds(q, t)
      PROVE  \E q \in Q : Gate!Folds(q, t) /\ into'[t] = TargetOf[q]
  BY <1>1, <1>4 DEF Accounted
<1>5. ASSUME NEW t \in Tags, ~ \E q \in Q : Gate!Folds(q, t)
      PROVE  into'[t] = into[t]
  BY <1>1, <1>5 DEF Accounted
<1> QED
  BY <1>3, <1>4, <1>5 DEF Gate!Fold

LEMMA FoldNothing == Gate!Fold({}) => UNCHANGED [t \in Tags |-> tags[t].into]
BY DEF Gate!Fold

LEMMA GateCommits ==
    ASSUME IInv, Typed, GateInv, NEW p \in Appliers, CommitMerges(p)
    PROVE  Gate!Next \/ UNCHANGED Gate!vars
<1>1. p \in Procs /\ Shape /\ GateOk(p) /\ merge[p].pc = "next" /\ CommitTx(p)
  BY MergingAssumption DEF IInv, GateInv, CommitMerges
<1>2. /\ proposals' = [q \in Proposals |->
           IF q \in DOMAIN tx[p].proposals THEN tx[p].proposals[q] ELSE proposals[q]]
      /\ \A q \in DOMAIN tx[p].proposals :
           /\ q \in Proposals /\ tx[p].proposals[q] \in ProposalRow
           /\ tx[p].proposals[q].status # "pending"
  BY <1>1, Committed DEF IInv, Shape, WritesShape, DecisionsLocked
<1>3. Accounted(tx[p], Marked(tx[p]))
  <2>1. Marked(tx[p]) \cup AtMark(p) = Marked(tx[p])
    BY <1>1 DEF AtMark
  <2> QED
    BY <1>1, <2>1 DEF GateOk
<1>4. ASSUME NEW Q, Marked(tx[p]) = Q PROVE Accounted(tx[p], Q) /\ Gate!Fold(Q)
  <2>1. Accounted(tx[p], Q)
    BY <1>3, <1>4
  <2> QED
    BY <1>1, <2>1, CommitFolds
<1>5. CASE Reviewing(p)
  <2>1. PICK q \in Proposals :
          /\ DOMAIN tx[p].proposals = {q} /\ proposals[q].status = "pending"
          /\ tx[p].proposals[q].by \in People
    BY <1>5 DEF Reviewing
  <2>2. PICK row \in ProposalRow : row = tx[p].proposals[q]
    BY <1>2, <2>1
  <2>3. /\ row.by \in People
        /\ row.status \in {"approved", "rejected", "applied"}
        /\ proposals' = [k \in Proposals |-> IF k = q THEN row ELSE proposals[k]]
    BY <1>2, <2>1, <2>2 DEF ProposalRow
  <2>4. CASE row.status = "applied"
    <3>1. Marked(tx[p]) = {q}
      BY <2>1, <2>2, <2>4 DEF Marked
    <3>2. KindOf[q] = "merge" /\ Gate!Fold({q})
      BY <1>4, <3>1 DEF Accounted
    <3>3. Gate!Decide(q, row.by, "applied")
      BY <2>1, <2>3, <2>4 DEF Gate!Decide
    <3>4. Gate!ApproveAndApply(q, row.by)
      BY <3>2, <3>3 DEF Gate!ApproveAndApply
    <3> QED
      BY <2>3, <3>4 DEF Gate!Next
  <2>5. CASE row.status \in {"approved", "rejected"}
    <3>1. Marked(tx[p]) = {}
      BY <2>1, <2>2, <2>5 DEF Marked
    <3>2. Gate!Fold({})
      BY <1>4, <3>1
    <3>3. UNCHANGED [t \in Tags |-> tags[t].into]
      BY <3>2, FoldNothing
    <3>4. Gate!Decide(q, row.by, row.status)
      BY <2>1, <2>3 DEF Gate!Decide
    <3>5. Gate!Record(q, row.by)
      BY <2>5, <3>3, <3>4 DEF Gate!Record
    <3> QED
      BY <2>3, <3>5 DEF Gate!Next
  <2> QED
    BY <2>3, <2>4, <2>5
<1>6. CASE Running(p)
  <2>1. PICK Q : Q = DOMAIN tx[p].proposals
    OBVIOUS
  <2>2. Q \subseteq Proposals /\ Marked(tx[p]) = Q
    BY <1>2, <1>6, <2>1 DEF Running, Marked
  <2>3. Accounted(tx[p], Q) /\ Gate!Fold(Q)
    BY <1>4, <2>2
  <2>4. \A q \in Q : proposals[q].status = "approved" /\ KindOf[q] = "merge"
    BY <1>6, <2>1, <2>3 DEF Running, Accounted
  <2>5. \A q \in Q : proposals'[q].status = "applied" /\ proposals'[q].by = proposals[q].by
    BY <1>2, <1>6, <2>1 DEF Running
  <2>6. \A q \in Proposals : q \notin Q => proposals'[q] = proposals[q]
    BY <1>2, <2>1
  <2>7. [q \in Proposals |-> proposals[q].status]' =
          [q \in Proposals |->
             IF q \in Q THEN "applied" ELSE [k \in Proposals |-> proposals[k].status][q]]
    BY <2>5, <2>6
  <2>8. UNCHANGED [q \in Proposals |-> proposals[q].by]
    BY <2>5, <2>6
  <2>9. CASE Q # {}
    <3>1. Gate!Apply(Q)
      BY <2>2, <2>4, <2>3, <2>7, <2>8, <2>9 DEF Gate!Apply
    <3> QED
      BY <2>2, <3>1 DEF Gate!Next
  <2>10. CASE Q = {}
    <3>1. Gate!Fold({})
      BY <1>4, <2>2, <2>10
    <3>2. UNCHANGED [t \in Tags |-> tags[t].into]
      BY <3>1, FoldNothing
    <3>3. UNCHANGED [q \in Proposals |-> proposals[q].status]
      BY <2>7, <2>10
    <3> QED
      BY <2>8, <3>2, <3>3 DEF Gate!vars
  <2> QED
    BY <2>9, <2>10
<1>7. ~AtRest(p)
  BY <1>1 DEF AtRest
<1> QED
  BY <1>1, <1>5, <1>6, <1>7 DEF GateOk, AtWork

LEMMA GateCoins ==
    ASSUME IInv, Typed, GateInv, NEW p \in Taggers, CommitTagging(p)
    PROVE  UNCHANGED Gate!vars
<1>1. /\ p \in Procs /\ p \notin Appliers /\ OtherOk(p) /\ CoinsOk(p) /\ CommitTx(p)
  BY TaggersAreApart DEF IInv, MergesExplained, GateInv, CommitTagging
<1>2. /\ tags' = [t \in Tags |-> IF t \in DOMAIN tx[p].tags THEN tx[p].tags[t] ELSE tags[t]]
      /\ \A q \in Proposals : proposals'[q] = proposals[q]
  BY <1>1, Committed DEF OtherOk
<1>3. \A t \in Tags : tags'[t].into = tags[t].into
  BY <1>1, <1>2 DEF CoinsOk
<1> QED
  BY <1>2, <1>3 DEF Gate!vars

LEMMA GateApproves ==
    ASSUME IInv, NEW q \in Proposals, AdminApproves(q)
    PROVE  Gate!Next
<1> DEFINE row == [status |-> "approved", by |-> AdminUser]
<1>1. /\ proposals[q].status = "pending" /\ UNCHANGED tags
      /\ proposals' = [k \in Proposals |-> IF k = q THEN row ELSE proposals[k]]
  BY DEF AdminApproves, IInv, Shape
<1>2. Gate!Decide(q, AdminUser, "approved")
  BY <1>1 DEF Gate!Decide
<1>3. Gate!Record(q, AdminUser)
  BY <1>1, <1>2 DEF Gate!Record
<1> QED
  BY <1>3, MergingAssumption DEF Gate!Next

\* Only a commit shows.
LEMMA OnlyCommitsShow ==
    ASSUME [Next]_vars
    PROVE  \/ UNCHANGED <<tags, proposals>>
           \/ \E p \in Taggers : CommitTagging(p)
           \/ \E p \in Appliers : CommitMerges(p)
           \/ \E q \in Proposals : AdminApproves(q)
<1>1. ASSUME NEW p \in Taggers, TaggingStep(p)
      PROVE  UNCHANGED <<tags, proposals>> \/ CommitTagging(p)
  BY <1>1 DEF TaggingStep, TaggingProgress, BeginJob, ModelAnswers, FallBack, GetOrCreate,
     Assign, FindParent, WalkDown, Link, FailTagging, Rollback, tagVars, tables
<1>2. ASSUME NEW p \in Appliers, ApplierStep(p) \/ Victim(p)
      PROVE  UNCHANGED <<tags, proposals>> \/ CommitMerges(p)
  BY <1>2 DEF ApplierStep, Victim, ApplierProgress, MergeStatement, Decide, ListApproved,
     StartMerge, SkipInapplicable, MoveLink, DropLinks, SelectEdges, RepointEdge,
     UnlinkSources, RetireSources, MarkApplied, AbandonMerge, ApplierDies,
     Rollback, tagVars, tables
<1>3. UNCHANGED vars => UNCHANGED <<tags, proposals>>
  BY DEF vars, tagVars, tables
<1> QED
  BY <1>1, <1>2, <1>3 DEF Next, Settled

LEMMA GateRefines == IInv /\ Typed /\ GateInv /\ [Next]_vars => [Gate!Next]_(Gate!vars)
<1> SUFFICES ASSUME IInv, Typed, GateInv, [Next]_vars PROVE Gate!Next \/ UNCHANGED Gate!vars
  OBVIOUS
<1>1. CASE UNCHANGED <<tags, proposals>>
  BY <1>1 DEF Gate!vars
<1> QED
  BY <1>1, OnlyCommitsShow, GateCommits, GateCoins, GateApproves

LEMMA GateBegins == Init => Gate!Init
<1> SUFFICES ASSUME NEW s \in Starts, TagStoreInit(s) PROVE Gate!Init
  BY DEF Init
<1>1. /\ s.status \in [Proposals -> {"pending", "approved", "rejected"}]
      /\ Nobody \notin People /\ AdminUser \in People
  BY TagStoreAssumption, MergingAssumption
<1>2. (CHOOSE person \in People : TRUE) \in People
  BY <1>1
<1>3. /\ tags = [t \in Tags |-> IF t \in s.tags THEN Active ELSE Absent]
      /\ proposals = [q \in Proposals |->
           [status |-> s.status[q],
            by |-> IF s.status[q] = "pending" THEN Nobody ELSE CHOOSE person \in People : TRUE]]
  BY DEF TagStoreInit
<1>4. \A q \in Proposals :
        /\ proposals[q].status \in {"pending", "approved", "rejected"}
        /\ proposals[q].by \in People \cup {Nobody}
        /\ proposals[q].status = "pending" <=> proposals[q].by = Nobody
  BY <1>1, <1>2, <1>3
<1>5. \A t \in Tags : tags[t].into = NoTag
  BY <1>3 DEF Active, Absent
<1> QED
  BY <1>4, <1>5 DEF Gate!Init, Gate!Statuses

\* Deciding and applying proposals, statement by statement, with savepoints that
\* are rolled back, deadlocks and crashes, implements the gate: a committed
\* transaction is one approval, rejection or approval with its merge, or the
\* approved merges of a run together, and nothing else restructures the tags
\* (decide_proposal, apply_approved_proposals, merge_tags).  At most one run of
\* the apply job goes on, and proposals name tags there are.
THEOREM MergesPassTheGate ==
    ASSUME OneApplyJob, SourcesExist
    PROVE  Spec => ImplementsReviewGate
<1>1. Init => GateInv
  BY GateInit
<1>2. IInv /\ Typed /\ GateInv /\ [Next]_vars => GateInv'
  BY GateStep
<1>3. Init => Gate!Init
  BY GateBegins
<1>4. IInv /\ Typed /\ GateInv /\ [Next]_vars => [Gate!Next]_(Gate!vars)
  BY GateRefines
<1> QED
  BY <1>1, <1>2, <1>3, <1>4, TaxonomyInvariant, TaxonomyTyped, PTL
     DEF Spec, ImplementsReviewGate, Gate!Spec

(***************************************************************************)
(* What a step that commits nothing writes, and how far it is then: the    *)
(* summaries the proofs below go through, one case each.                   *)
(***************************************************************************)

\* p's writes to tags, links and edges stay.
Keeps(p) ==
    /\ tx'[p].tags = tx[p].tags /\ tx'[p].links = tx[p].links /\ tx'[p].edges = tx[p].edges

\* p puts v into the rows K of one table.
PutsTags(p, K, v) ==
    /\ tx'[p].tags = Put(tx[p].tags, K, v)
    /\ tx'[p].links = tx[p].links /\ tx'[p].edges = tx[p].edges

PutsLinks(p, K, v) ==
    /\ tx'[p].links = Put(tx[p].links, K, v)
    /\ tx'[p].tags = tx[p].tags /\ tx'[p].edges = tx[p].edges

PutsEdges(p, K, v) ==
    /\ tx'[p].edges = Put(tx[p].edges, K, v)
    /\ tx'[p].tags = tx[p].tags /\ tx'[p].links = tx[p].links

\* The rest is as before.
Stays(p) ==
    /\ tx' = [g \in Procs |-> tx'[g]] /\ OthersKeep(p) /\ WritesShape(tx'[p])

LEMMA Puts ==
    ASSUME Shape, NEW p \in Procs, NEW K, NEW v
    PROVE  /\ UNCHANGED tx => Stays(p) /\ Keeps(p) /\ tx'[p] = tx[p]
           /\ WriteTags(p, K, v) => Stays(p) /\ PutsTags(p, K, v)
           /\ WriteLinks(p, K, v) => Stays(p) /\ PutsLinks(p, K, v)
           /\ WriteEdges(p, K, v) => Stays(p) /\ PutsEdges(p, K, v)
           /\ WriteProposals(p, K, v) /\ K \subseteq Proposals /\ v \in ProposalRow =>
                Stays(p) /\ Keeps(p)
<1>1. WritesShape(tx[p]) /\ tx = [g \in Procs |-> tx[g]]
  BY DEF Shape
<1>2. UNCHANGED tx => Stays(p) /\ Keeps(p) /\ tx'[p] = tx[p]
  BY <1>1 DEF Stays, Keeps, OthersKeep
<1>3. ASSUME WriteTags(p, K, v) PROVE Stays(p) /\ PutsTags(p, K, v)
  <2>1. Stays(p)
    BY <1>3, Writing DEF Stays
  <2> QED
    BY <1>1, <1>3, <2>1 DEF WriteTags, WritesShape, PutsTags
<1>4. ASSUME WriteLinks(p, K, v) PROVE Stays(p) /\ PutsLinks(p, K, v)
  <2>1. Stays(p)
    BY <1>4, Writing DEF Stays
  <2> QED
    BY <1>1, <1>4, <2>1 DEF WriteLinks, WritesShape, PutsLinks
<1>5. ASSUME WriteEdges(p, K, v) PROVE Stays(p) /\ PutsEdges(p, K, v)
  <2>1. Stays(p)
    BY <1>5, Writing DEF Stays
  <2> QED
    BY <1>1, <1>5, <2>1 DEF WriteEdges, WritesShape, PutsEdges
<1>6. ASSUME WriteProposals(p, K, v), K \subseteq Proposals, v \in ProposalRow
      PROVE  Stays(p) /\ Keeps(p)
  <2>1. Stays(p)
    BY <1>6, Writing DEF Stays
  <2> QED
    BY <1>1, <1>6, <2>1 DEF WriteProposals, WritesShape, Keeps
<1> QED
  BY <1>2, <1>3, <1>4, <1>5, <1>6

\* The merge at hand goes on at pc.
Goes(p, pc) ==
    /\ merge'[p].pc = pc /\ merge'[p].todo = merge[p].todo /\ merge'[p].saved = merge[p].saved

Selected(p) == {<<k, SeenLinks(p)[k]>> : k \in LinksOf(p, Sources(p))}

\* What an applier does, as far as tags, links and edges go.
TurnsPage(p) ==
    /\ merge[p].pc \notin Statements \ {"mark"} /\ merge'[p].pc = "next" /\ Keeps(p)

Begins(p) ==
    /\ merge[p].pc = "next" /\ merge[p].todo # <<>> /\ Applicable(This(p))
    /\ merge'[p].todo = merge[p].todo /\ merge'[p].saved = tx[p]
    /\ merge'[p].rows = Selected(p)
    /\ merge'[p].pc = IF Selected(p) = {} THEN "edges" ELSE "move"
    /\ tx'[p] = tx[p]

Moves(p, r) ==
    /\ merge[p].pc = "move" /\ r \in merge[p].rows
    /\ Free(p, LinkKeys({Moved(p, r)}))
    /\ PutsLinks(p, {Moved(p, r)},
         IF SeenLinks(p)[Moved(p, r)] > r[2] THEN SeenLinks(p)[Moved(p, r)] ELSE r[2])
    /\ Goes(p, IF merge[p].rows = {r} THEN "drop" ELSE "move")
    /\ merge'[p].rows = merge[p].rows \ {r}

Drops(p) ==
    /\ merge[p].pc = "drop"
    /\ Free(p, LinkKeys(LinksOf(p, Sources(p))))
    /\ PutsLinks(p, LinksOf(p, Sources(p)), 0)
    /\ Goes(p, "edges")

Selects(p) ==
    /\ merge[p].pc = "edges" /\ Keeps(p)
    /\ Goes(p, IF EdgesOf(p, Sources(p)) = {} THEN "unlink" ELSE "repoint")

Repoints(p) ==
    /\ merge[p].pc = "repoint"
    /\ Keeps(p) \/ \E e : PutsEdges(p, {e}, TRUE)
    /\ \E pc \in {"repoint", "unlink"} : Goes(p, pc)

Unlinks(p) ==
    /\ merge[p].pc = "unlink"
    /\ PutsEdges(p, EdgesOf(p, Sources(p)), FALSE)
    /\ Goes(p, "retire")

Retires(p) ==
    LET K == {t \in Sources(p) : Exists(p, t)}
    IN  /\ merge[p].pc = "retire"
        /\ Free(p, TagKeys(K))
        /\ PutsTags(p, K, [status |-> "merged", into |-> Target(p)])
        /\ Goes(p, "mark")

Undoes(p) ==
    \/ merge[p].pc \in Statements /\ tx'[p] = merge[p].saved /\ merge'[p].pc = "next"
    \/ tx'[p] = NoWrites /\ merge'[p].pc = "dead"

ApplierMoves(p) ==
    \/ TurnsPage(p) \/ Begins(p) \/ (\E r : Moves(p, r)) \/ Drops(p) \/ Selects(p)
    \/ Repoints(p) \/ Unlinks(p) \/ Retires(p) \/ Undoes(p)

LEMMA ApplierMovesSo ==
    ASSUME IInv, Typed, NEW p \in Appliers, ApplierStep(p) \/ Victim(p), ~CommitMerges(p)
    PROVE  Step(p) /\ UNCHANGED tables /\ ApplierMoves(p)
<1> DEFINE m == merge[p]
<1>1. /\ p \in Procs /\ Shape /\ MergeOk(p) /\ WritesShape(tx[p]) /\ MergeShape(m)
      /\ m.pc \in {"idle", "dead", "next"} \cup Statements
      /\ m.pc \in Statements => m.todo # <<>>
  BY AtHand DEF IInv, MergesExplained, Shape
<1>a. m.todo # <<>> => This(p) \in Proposals /\ Tail(m.todo) \in Seq(Proposals)
  BY <1>1, TailRange DEF MergeShape, This
<1>2. ASSUME NEW pc, NEW todo, NEW saved, Turns(p, pc, todo, saved), Stays(p)
      PROVE  Step(p)
  BY <1>1, <1>2, TurningSteps DEF Stays
<1>3. ASSUME NEW pc, Turns(p, pc, m.todo, m.saved) PROVE Goes(p, pc)
  BY <1>3 DEF Turns, Goes
<1>4. ASSUME NEW q \in Proposals, NEW verdict \in {"approved", "rejected"}, p \in Reviewers,
             Decide(p, q, verdict)
      PROVE  Step(p) /\ UNCHANGED tables /\ ApplierMoves(p)
  <2>1. PICK todo \in Seq(Proposals) :
          merge' = [merge EXCEPT ![p] = [IdleMerge EXCEPT !.pc = "next", !.todo = todo]]
    <3>1. <<q>> \in Seq(Proposals) /\ <<>> \in Seq(Proposals)
      OBVIOUS
    <3> QED
      BY <1>4, <3>1 DEF Decide
  <2>2. Turns(p, "next", todo, NoWrites)
    BY <1>1, <2>1, Turning
  <2>3. [status |-> verdict, by |-> PersonOf[p]] \in ProposalRow /\ {q} \subseteq Proposals
    BY <1>4, MergingAssumption DEF ProposalRow
  <2>4. Stays(p) /\ Keeps(p)
    BY <1>1, <1>4, <2>3, Puts DEF Decide
  <2>5. TurnsPage(p)
    BY <1>4, <2>2, <2>4 DEF Decide, AtRest, TurnsPage, Turns, Statements
  <2> QED
    BY <1>2, <1>4, <2>2, <2>4, <2>5 DEF Decide, ApplierMoves
<1>5. CASE ListApproved(p)
  <2>1. PICK listed \in Seq(Proposals) :
          merge' = [merge EXCEPT ![p] = [IdleMerge EXCEPT !.pc = "next", !.todo = listed]]
    BY <1>5, Listed
  <2>2. Turns(p, "next", listed, NoWrites)
    BY <1>1, <2>1, Turning
  <2>3. UNCHANGED <<tables, tx>> /\ AtRest(p)
    BY <1>5 DEF ListApproved, tagVars
  <2>4. Stays(p) /\ Keeps(p)
    BY <1>1, <2>3, Puts
  <2>5. TurnsPage(p)
    BY <2>2, <2>3, <2>4 DEF AtRest, TurnsPage, Turns, Statements
  <2> QED
    BY <1>2, <2>2, <2>3, <2>4, <2>5 DEF ApplierMoves
<1>6. CASE StartMerge(p)
  <2> DEFINE pc == IF Selected(p) = {} THEN "edges" ELSE "move"
  <2>1. /\ m.pc = "next" /\ m.todo # <<>> /\ Applicable(This(p)) /\ UNCHANGED <<tables, tx>>
        /\ merge' = [merge EXCEPT ![p].pc = pc, ![p].rows = Selected(p), ![p].saved = tx[p]]
    BY <1>6 DEF StartMerge, tagVars, Selected
  <2> HIDE DEF pc
  <2>2. Turns(p, pc, m.todo, tx[p])
    BY <1>1, <2>1, Turning
  <2>3. Leaves(p, pc, m.failed, Selected(p), m.pairs, tx[p])
    BY <1>1, <2>1, Leaving
  <2>4. Stays(p) /\ tx'[p] = tx[p]
    BY <1>1, <2>1, Puts
  <2>5. Begins(p)
    BY <2>1, <2>2, <2>3, <2>4 DEF Begins, Turns, Leaves, pc
  <2> QED
    BY <1>2, <2>1, <2>2, <2>4, <2>5 DEF ApplierMoves
<1>7. CASE SkipInapplicable(p)
  <2> DEFINE rest == Tail(m.todo)
  <2>1. /\ m.pc = "next" /\ m.todo # <<>> /\ UNCHANGED <<tables, tx>>
        /\ merge' = [merge EXCEPT ![p].todo = rest,
                                  ![p].failed = m.failed \cup {This(p)}]
    BY <1>7 DEF SkipInapplicable, tagVars
  <2>2. rest \in Seq(Proposals)
    BY <1>a, <2>1
  <2> HIDE DEF rest
  <2>3. Turns(p, "next", rest, m.saved)
    BY <1>1, <2>1, <2>2, Turning
  <2>4. Stays(p) /\ Keeps(p)
    BY <1>1, <2>1, Puts
  <2>5. TurnsPage(p)
    BY <2>1, <2>3, <2>4 DEF TurnsPage, Turns, Statements
  <2> QED
    BY <1>2, <2>1, <2>3, <2>4, <2>5 DEF ApplierMoves
<1>8. ASSUME NEW r \in m.rows, MoveLink(p, r)
      PROVE  Step(p) /\ UNCHANGED tables /\ ApplierMoves(p)
  <2> DEFINE pc == IF m.rows = {r} THEN "drop" ELSE "move"
             rest == m.rows \ {r}
             v == IF SeenLinks(p)[Moved(p, r)] > r[2] THEN SeenLinks(p)[Moved(p, r)] ELSE r[2]
  <2>1. /\ m.pc = "move" /\ UNCHANGED tables /\ WriteLinks(p, {Moved(p, r)}, v)
        /\ Free(p, LinkKeys({Moved(p, r)}))
        /\ merge' = [merge EXCEPT ![p].rows = rest, ![p].pc = pc]
    BY <1>8 DEF MoveLink, ApplierWants
  <2> HIDE DEF pc, rest, v
  <2>2. Turns(p, pc, m.todo, m.saved)
    BY <1>1, <2>1, Turning
  <2>3. Leaves(p, pc, m.failed, rest, m.pairs, m.saved)
    BY <1>1, <2>1, Leaving
  <2>4. Stays(p) /\ PutsLinks(p, {Moved(p, r)}, v)
    BY <1>1, <2>1, Puts
  <2>5. Goes(p, pc)
    BY <1>3, <2>2
  <2>6. Moves(p, r)
    BY <1>8, <2>1, <2>3, <2>4, <2>5 DEF Moves, Leaves, pc, rest, v
  <2> QED
    BY <1>2, <2>1, <2>2, <2>4, <2>6 DEF ApplierMoves
<1>9. CASE DropLinks(p)
  <2>1. /\ m.pc = "drop" /\ UNCHANGED tables /\ GotoMerge(p, "edges")
        /\ WriteLinks(p, LinksOf(p, Sources(p)), 0)
        /\ Free(p, LinkKeys(LinksOf(p, Sources(p))))
    BY <1>9 DEF DropLinks, ApplierWants
  <2>2. Turns(p, "edges", m.todo, m.saved)
    BY <1>1, <2>1, Turning
  <2>3. Stays(p) /\ PutsLinks(p, LinksOf(p, Sources(p)), 0)
    BY <1>1, <2>1, Puts
  <2>4. Drops(p)
    BY <1>3, <2>1, <2>2, <2>3 DEF Drops
  <2> QED
    BY <1>2, <2>1, <2>2, <2>3, <2>4 DEF ApplierMoves
<1>10. CASE SelectEdges(p)
  <2> DEFINE pairs == EdgesOf(p, Sources(p))
             pc == IF pairs = {} THEN "unlink" ELSE "repoint"
  <2>1. /\ m.pc = "edges" /\ UNCHANGED <<tables, tx>>
        /\ merge' = [merge EXCEPT ![p].pc = pc, ![p].pairs = pairs]
    BY <1>10 DEF SelectEdges, tagVars
  <2> HIDE DEF pc, pairs
  <2>2. Turns(p, pc, m.todo, m.saved)
    BY <1>1, <2>1, Turning
  <2>3. Stays(p) /\ Keeps(p)
    BY <1>1, <2>1, Puts
  <2>4. Selects(p)
    BY <1>3, <2>1, <2>2, <2>3 DEF Selects, pc, pairs
  <2> QED
    BY <1>2, <2>1, <2>2, <2>3, <2>4 DEF ApplierMoves
<1>11. ASSUME NEW e \in m.pairs, RepointEdge(p, e)
       PROVE  Step(p) /\ UNCHANGED tables /\ ApplierMoves(p)
  <2>1. PICK pc \in {"repoint", "unlink"} :
          merge' = [merge EXCEPT ![p].pairs = m.pairs \ {e}, ![p].pc = pc]
    BY <1>11 DEF RepointEdge
  <2>2. Turns(p, pc, m.todo, m.saved)
    BY <1>1, <2>1, Turning
  <2>3. /\ m.pc = "repoint" /\ UNCHANGED tables
        /\ UNCHANGED tx \/ WriteEdges(p, {Repointed(p, e)}, TRUE)
    BY <1>11 DEF RepointEdge
  <2>4. Stays(p) /\ (Keeps(p) \/ \E f : PutsEdges(p, {f}, TRUE))
    BY <1>1, <2>3, Puts
  <2>5. Repoints(p)
    BY <1>3, <2>2, <2>3, <2>4 DEF Repoints
  <2> QED
    BY <1>2, <2>2, <2>3, <2>4, <2>5 DEF ApplierMoves
<1>12. CASE UnlinkSources(p)
  <2>1. /\ m.pc = "unlink" /\ UNCHANGED tables /\ GotoMerge(p, "retire")
        /\ WriteEdges(p, EdgesOf(p, Sources(p)), FALSE)
    BY <1>12 DEF UnlinkSources
  <2>2. Turns(p, "retire", m.todo, m.saved)
    BY <1>1, <2>1, Turning
  <2>3. Stays(p) /\ PutsEdges(p, EdgesOf(p, Sources(p)), FALSE)
    BY <1>1, <2>1, Puts
  <2>4. Unlinks(p)
    BY <1>3, <2>1, <2>2, <2>3 DEF Unlinks
  <2> QED
    BY <1>2, <2>1, <2>2, <2>3, <2>4 DEF ApplierMoves
<1>13. CASE RetireSources(p)
  <2> DEFINE K == {t \in Sources(p) : Exists(p, t)}
             v == [status |-> "merged", into |-> Target(p)]
  <2>1. /\ m.pc = "retire" /\ UNCHANGED tables /\ GotoMerge(p, "mark") /\ WriteTags(p, K, v)
        /\ Free(p, TagKeys(K))
    BY <1>13 DEF RetireSources, ApplierWants
  <2> HIDE DEF K, v
  <2>2. Turns(p, "mark", m.todo, m.saved)
    BY <1>1, <2>1, Turning
  <2>3. Stays(p) /\ PutsTags(p, K, v)
    BY <1>1, <2>1, Puts
  <2>4. Retires(p)
    BY <1>3, <2>1, <2>2, <2>3 DEF Retires, K, v
  <2> QED
    BY <1>2, <2>1, <2>2, <2>3, <2>4 DEF ApplierMoves
<1>14. CASE MarkApplied(p)
  <2> DEFINE rest == Tail(m.todo)
             r == [SeenProposals(p)[This(p)] EXCEPT !.status = "applied"]
  <2>1. /\ m.pc = "mark" /\ UNCHANGED tables /\ WriteProposals(p, {This(p)}, r)
        /\ merge' = [merge EXCEPT ![p].pc = "next", ![p].todo = rest, ![p].saved = NoWrites]
    BY <1>14 DEF MarkApplied
  <2>2. rest \in Seq(Proposals) /\ This(p) \in Proposals
    BY <1>1, <1>a, <2>1 DEF Statements
  <2>3. r \in ProposalRow
    <3>1. SeenProposals(p)[This(p)] \in ProposalRow
      BY <1>1, <2>2 DEF Shape, WritesShape, SeenProposals, Over
    <3> QED
      BY <3>1 DEF ProposalRow
  <2> HIDE DEF rest, r
  <2>4. Turns(p, "next", rest, NoWrites)
    BY <1>1, <2>1, <2>2, Turning
  <2>5. Stays(p) /\ Keeps(p)
    BY <1>1, <2>1, <2>2, <2>3, Puts
  <2>6. TurnsPage(p)
    BY <2>1, <2>4, <2>5 DEF TurnsPage, Turns, Statements
  <2> QED
    BY <1>2, <2>1, <2>4, <2>5, <2>6 DEF ApplierMoves
<1>15. CASE ApplierDies(p)
  <2>1. /\ UNCHANGED tables /\ tx' = [tx EXCEPT ![p] = NoWrites]
        /\ merge' = [merge EXCEPT ![p] = [IdleMerge EXCEPT !.pc = "dead"]]
    BY <1>15 DEF ApplierDies, Rollback
  <2>2. Turns(p, "dead", <<>>, NoWrites)
    BY <1>1, <2>1, Turning
  <2>3. Stays(p) /\ tx'[p] = NoWrites
    BY <1>1, <2>1, NothingWritten, Replacing DEF Stays
  <2>4. Undoes(p)
    BY <2>2, <2>3 DEF Undoes, Turns
  <2> QED
    BY <1>2, <2>1, <2>2, <2>3, <2>4 DEF ApplierMoves
<1>16. CASE AbandonMerge(p)
  <2> DEFINE rest == Tail(m.todo)
             failed == m.failed \cup {This(p)}
  <2>1. /\ m.pc \in Statements /\ UNCHANGED tables
        /\ tx' = [tx EXCEPT ![p] = m.saved]
        /\ merge' = [merge EXCEPT ![p] = [IdleMerge EXCEPT
                        !.pc = "next", !.todo = rest, !.failed = failed]]
    BY <1>1, <1>16 DEF AbandonMerge, AtRest
  <2>2. WritesShape(m.saved) /\ rest \in Seq(Proposals)
    BY <1>1, <1>a, <2>1 DEF MergeOk, Statements
  <2> HIDE DEF rest, failed
  <2>3. Turns(p, "next", rest, NoWrites)
    BY <1>1, <2>1, <2>2, Turning
  <2>4. Stays(p) /\ tx'[p] = m.saved
    BY <1>1, <2>1, <2>2, Replacing DEF Stays
  <2>5. Undoes(p)
    BY <2>1, <2>3, <2>4 DEF Undoes, Turns
  <2> QED
    BY <1>2, <2>1, <2>3, <2>4, <2>5 DEF ApplierMoves
<1> QED
  BY <1>4, <1>5, <1>6, <1>7, <1>8, <1>9, <1>10, <1>11, <1>12, <1>13, <1>14, <1>15, <1>16
     DEF ApplierStep, ApplierProgress, MergeStatement, Victim

\* What a worker does that commits nothing.
Asks(p) == tx'[p] = tx[p] /\ job'[p].pc \in {"prompt", "coin"}

Coins(p) ==
    LET t == Now(p).tag
    IN  /\ t \in Tags /\ job'[p].pc = "assign" /\ job'[p].todo = job[p].todo
        /\ \/ Exists(p, t) /\ tx'[p] = tx[p]
           \/ ~Exists(p, t) /\ Free(p, TagKeys({t})) /\ PutsTags(p, {t}, Active)

Assigns(p) ==
    /\ job[p].pc = "assign" /\ job'[p].pc = "place" /\ job'[p].todo = job[p].todo
    /\ \E k \in Items \X Tags : PutsLinks(p, {k}, Now(p).conf)
    /\ Now(p).conf \in 1 .. MaxConf

FindsParent(p) ==
    /\ job[p].pc = "place" /\ job'[p].pc = "walk" /\ job'[p].todo = job[p].todo
    /\ tx'[p] = tx[p]
    /\ Now(p) \in Suggestion /\ HasParent(p, Now(p))

Clears(p) ==
    /\ job[p].pc = "walk" /\ job'[p].pc = "link" /\ job'[p].todo = job[p].todo
    /\ tx'[p] = tx[p]
    /\ Now(p).parent \notin Below(SeenEdges(p), Now(p).tag, MaxDepth)

Hangs(p) ==
    LET s == Now(p)
    IN  /\ job[p].pc = "link" /\ s \in Suggestion /\ job'[p].pc = "coin"
        /\ s.parent \in Tags \ {s.tag} /\ PutsEdges(p, {<<s.parent, s.tag>>}, TRUE)

Fails(p) == tx'[p] = NoWrites /\ job'[p].pc = "idle"

TaggerMoves(p) ==
    Asks(p) \/ Coins(p) \/ Assigns(p) \/ FindsParent(p) \/ Clears(p) \/ Hangs(p) \/ Fails(p)

LEMMA TaggerMovesSo ==
    ASSUME IInv, Typed, NEW p \in Taggers, TaggingStep(p), UNCHANGED merge, ~CommitTagging(p)
    PROVE  Step(p) /\ UNCHANGED tables /\ TaggerMoves(p)
<1> DEFINE j == job[p]
<1>1. /\ p \in Procs /\ p \notin Appliers /\ Shape /\ WritesShape(tx[p]) /\ JobTyped(j)
      /\ job = [g \in Taggers |-> job[g]]
  BY TaggersAreApart DEF IInv, Shape, Typed
<1>2. ASSUME Stays(p) PROVE Step(p)
  BY <1>1, <1>2 DEF Stays, Step, Shape
<1>3. j.todo # <<>> => Now(p) \in Suggestion
  BY <1>1, TailRange DEF JobTyped, JobState, Now
<1>4. \A s \in Suggestion :
        s.tag \in Tags /\ s.conf \in 1 .. MaxConf /\ s.parent \in Tags \cup {NoTag}
  BY TaggingAssumption DEF Suggestion
<1>5. ASSUME NEW pc, NEW todo, NEW linked, Becomes(p, pc, todo, linked)
      PROVE  job'[p].pc = pc /\ job'[p].todo = todo
  BY <1>1, <1>5 DEF Becomes
<1>6. CASE BeginJob(p)
  <2>1. PICK i, known : job' = [job EXCEPT ![p] = [IdleJob EXCEPT
                    !.pc = "prompt", !.item = i, !.known = known]]
    BY <1>6 DEF BeginJob
  <2>2. job'[p] = [IdleJob EXCEPT !.pc = "prompt", !.item = i, !.known = known]
    BY <1>1, <2>1
  <2>3. job'[p].pc = "prompt"
    BY <2>2, Begun
  <2>4. UNCHANGED <<tables, tx>>
    BY <1>6 DEF BeginJob, tagVars
  <2>5. Stays(p) /\ tx'[p] = tx[p]
    BY <1>1, <2>4, Puts
  <2> QED
    BY <1>2, <2>3, <2>4, <2>5 DEF TaggerMoves, Asks
<1>7. CASE ModelAnswers(p) \/ FallBack(p)
  <2>1. PICK todo : job' = [job EXCEPT ![p].pc = "coin", ![p].todo = todo]
    BY <1>7 DEF ModelAnswers, FallBack
  <2>2. job'[p].pc = "coin"
    BY <1>5, <2>1, JobChanges
  <2>3. UNCHANGED <<tables, tx>>
    BY <1>7 DEF ModelAnswers, FallBack, tagVars
  <2>4. Stays(p) /\ tx'[p] = tx[p]
    BY <1>1, <2>3, Puts
  <2> QED
    BY <1>2, <2>2, <2>3, <2>4 DEF TaggerMoves, Asks
<1>8. CASE GetOrCreate(p)
  <2> DEFINE t == Now(p).tag
  <2>1. /\ UNCHANGED tables /\ j.pc = "coin" /\ j.todo # <<>>
        /\ job' = [job EXCEPT ![p].pc = "assign"]
        /\ Free(p, TagKeys({t}))
        /\ IF Exists(p, t) THEN UNCHANGED tx ELSE WriteTags(p, {t}, Active)
    BY <1>8 DEF GetOrCreate, TaggerWants
  <2>2. t \in Tags
    BY <1>3, <1>4, <2>1
  <2> HIDE DEF t
  <2>3. job'[p].pc = "assign" /\ job'[p].todo = j.todo
    <3>1. Becomes(p, "assign", j.todo, j.linked)
      BY <2>1, JobChanges
    <3> QED
      BY <1>5, <3>1
  <2>4. /\ Stays(p)
        /\ \/ Exists(p, t) /\ tx'[p] = tx[p]
           \/ ~Exists(p, t) /\ PutsTags(p, {t}, Active)
    BY <1>1, <2>1, Puts
  <2>5. Coins(p)
    BY <2>1, <2>2, <2>3, <2>4 DEF Coins, t
  <2> QED
    BY <1>2, <2>1, <2>4, <2>5 DEF TaggerMoves
<1>9. CASE Assign(p)
  <2> DEFINE k == <<j.item, Now(p).tag>>
             c == Now(p).conf
  <2>1. /\ UNCHANGED tables /\ j.pc = "assign" /\ job' = [job EXCEPT ![p].pc = "place"]
        /\ WriteLinks(p, {k}, c)
    BY <1>9 DEF Assign
  <2>2. k \in Items \X Tags /\ c \in 1 .. MaxConf
    <3>1. j.item \in Items /\ j.todo # <<>>
      BY <1>1, <2>1 DEF JobTyped
    <3> QED
      BY <1>3, <1>4, <3>1
  <2> HIDE DEF k, c
  <2>3. job'[p].pc = "place" /\ job'[p].todo = j.todo
    BY <1>5, <2>1, JobChanges
  <2>4. Stays(p) /\ PutsLinks(p, {k}, c)
    BY <1>1, <2>1, Puts
  <2>5. Assigns(p)
    BY <2>1, <2>2, <2>3, <2>4 DEF Assigns, c
  <2> QED
    BY <1>2, <2>1, <2>4, <2>5 DEF TaggerMoves
<1>10. CASE FindParent(p) \/ WalkDown(p) \/ Link(p)
  <2>1. /\ UNCHANGED tables /\ j.todo # <<>>
        /\ LeftOut(p) \/ ParentFound(p) \/ WalkClear(p) \/ Hooked(p)
    BY <1>10, Placing
  <2>2. Now(p) \in Suggestion
    BY <1>3, <2>1
  <2>3. CASE LeftOut(p) \/ ParentFound(p) \/ WalkClear(p)
    <3>1. UNCHANGED <<tables, tx>>
      BY <2>1, <2>3 DEF LeftOut, ParentFound, WalkClear
    <3>2. Stays(p) /\ tx'[p] = tx[p]
      BY <1>1, <3>1, Puts
    <3>3. LeftOut(p) => Asks(p)
      BY <1>5, <3>2 DEF LeftOut, Asks
    <3>4. ParentFound(p) => FindsParent(p)
      BY <1>5, <2>2, <3>2 DEF ParentFound, FindsParent
    <3>5. WalkClear(p) => Clears(p)
      BY <1>5, <3>2 DEF WalkClear, Clears
    <3> QED
      BY <1>2, <2>1, <2>3, <3>2, <3>3, <3>4, <3>5 DEF TaggerMoves
  <2>4. CASE Hooked(p)
    <3> DEFINE e == <<Now(p).parent, Now(p).tag>>
    <3>1. j.pc = "link" /\ WriteEdges(p, {e}, TRUE) /\ job'[p].pc = "coin"
      BY <1>5, <2>4 DEF Hooked
    <3>2. Now(p).parent \in Tags \ {Now(p).tag}
      BY <1>1, <3>1 DEF JobTyped, Now
    <3> HIDE DEF e
    <3>3. Stays(p) /\ PutsEdges(p, {e}, TRUE)
      BY <1>1, <2>1, <3>1, Puts
    <3>4. Hangs(p)
      BY <2>2, <3>1, <3>2, <3>3 DEF Hangs, e
    <3> QED
      BY <1>2, <2>1, <3>3, <3>4 DEF TaggerMoves
  <2> QED
    BY <2>1, <2>3, <2>4
<1>11. CASE FailTagging(p)
  <2>1. /\ UNCHANGED tables /\ tx' = [tx EXCEPT ![p] = NoWrites]
        /\ job' = [job EXCEPT ![p] = IdleJob]
    BY <1>11 DEF FailTagging, Rollback
  <2>2. Stays(p) /\ tx'[p] = NoWrites
    BY <1>1, <2>1, NothingWritten, Replacing DEF Stays
  <2>3. job'[p].pc = "idle"
    BY <1>1, <2>1 DEF IdleJob
  <2> QED
    BY <1>2, <2>1, <2>2, <2>3 DEF TaggerMoves, Fails
<1> QED
  BY <1>6, <1>7, <1>8, <1>9, <1>10, <1>11 DEF TaggingStep, TaggingProgress

(***************************************************************************)
(* Walks down the hierarchy.                                               *)
(***************************************************************************)

\* The children of a set of tags.
Children(E, N) == {c \in Tags : \E b \in N : E[<<b, c>>]}

\* Level is defined stage by stage.
LEMMA Levels ==
    ASSUME NEW E, NEW t \in Tags
    PROVE  /\ Level(E, t) \in [Nat -> SUBSET Tags]
           /\ Level(E, t)[0] = {t}
           /\ \A n \in Nat : Level(E, t)[n + 1] = Children(E, Level(E, t)[n])
<1> DEFINE V == SUBSET Tags
           step == [N \in V |-> Children(E, N)]
           IsLevel(f) ==
              f = [n \in Nat |->
                    IF n = 0 THEN {t}
                    ELSE UNION {{c \in Tags : E[<<b, c>>]} : b \in f[n - 1]}]
           Kids(b) == {c \in Tags : E[<<b, c>>]}
           Down(N) == UNION {Kids(b) : b \in N}
<1>1. step \in [V -> V] /\ {t} \in V
  BY DEF Children
<1>2. PICK g \in [Nat -> V] : g[0] = {t} /\ \A n \in Nat : g[n + 1] = step[g[n]]
  <2> HIDE DEF V, step
  <2> QED
    BY <1>1, Iterates
<1>3. \A n \in Nat : g[n + 1] = Children(E, g[n])
  BY <1>2
<1>4. ASSUME NEW N PROVE Down(N) = Children(E, N)
  <2>1. \A c, b : c \in Kids(b) <=> c \in Tags /\ E[<<b, c>>]
    OBVIOUS
  <2> HIDE DEF Kids
  <2>2. \A c : c \in Down(N) <=> \E b \in N : c \in Kids(b)
    OBVIOUS
  <2> HIDE DEF Down
  <2> QED
    BY <2>1, <2>2 DEF Children
<1>5. IsLevel(g)
  <2>1. ASSUME NEW n \in Nat
        PROVE  g[n] = IF n = 0 THEN {t}
                      ELSE UNION {{c \in Tags : E[<<b, c>>]} : b \in g[n - 1]}
    <3>1. CASE n = 0
      BY <1>2, <3>1
    <3>2. CASE n # 0
      <4>1. n - 1 \in Nat /\ n - 1 + 1 = n
        BY <3>2
      <4>2. g[n] = Children(E, g[n - 1])
        BY <1>3, <4>1
      <4> QED
        BY <1>4, <3>2, <4>2
    <3> QED
      BY <3>1, <3>2
  <2> QED
    BY <1>2, <2>1
<1>6. Level(E, t) = CHOOSE f : IsLevel(f)
  BY DEF Level
<1>7. IsLevel(Level(E, t))
  <2> HIDE DEF IsLevel
  <2> QED
    BY <1>5, <1>6
<1> DEFINE L == Level(E, t)
<1> HIDE DEF L
<1>8. IsLevel(L)
  BY <1>7 DEF L
<1>9. L[0] = {t}
  BY <1>8
<1>10. ASSUME NEW n \in Nat PROVE L[n + 1] = Children(E, L[n])
  <2>1. n + 1 \in Nat /\ n + 1 # 0 /\ n + 1 - 1 = n
    OBVIOUS
  <2>2. \A k \in Nat : L[k] = IF k = 0 THEN {t}
                             ELSE Down(L[k - 1])
    BY <1>8, Zenon
  <2> HIDE DEF Down
  <2>3. L[n + 1] = Down(L[n])
    BY <2>1, <2>2
  <2> QED
    BY <1>4, <2>3
<1>11. \A n \in Nat : L[n] \in SUBSET Tags
  <2> DEFINE T == {n \in Nat : L[n] \in SUBSET Tags}
  <2>1. 0 \in T
    BY <1>9
  <2>2. ASSUME NEW n \in Nat PROVE n + 1 \in T
    <3>1. L[n + 1] \in SUBSET Tags
      BY <1>10 DEF Children
    <3> QED
      BY <3>1
  <2> HIDE DEF T
  <2>3. Nat \subseteq T
    BY <2>1, <2>2, AllNumbers
  <2> QED
    BY <2>3 DEF T
<1>12. L = [n \in Nat |-> L[n]]
  BY <1>8
<1> QED
  BY <1>9, <1>10, <1>11, <1>12 DEF L

\* More edges, more below.
LEMMA MoreBelow ==
    ASSUME NEW E, NEW F, \A e \in Tags \X Tags : E[e] => F[e], NEW t \in Tags
    PROVE  \A n \in Nat : Level(E, t)[n] \subseteq Level(F, t)[n]
<1> DEFINE T == {n \in Nat : Level(E, t)[n] \subseteq Level(F, t)[n]}
<1>1. 0 \in T
  BY Levels
<1>2. ASSUME NEW n \in Nat, n \in T PROVE n + 1 \in T
  <2>1. /\ Level(E, t)[n] \subseteq Tags
        /\ Level(E, t)[n + 1] = Children(E, Level(E, t)[n])
        /\ Level(F, t)[n + 1] = Children(F, Level(F, t)[n])
    BY Levels
  <2>2. Level(E, t)[n + 1] \subseteq Level(F, t)[n + 1]
    BY <1>2, <2>1 DEF Children
  <2> QED
    BY <2>2
<1> HIDE DEF T
<1>3. Nat \subseteq T
  BY <1>1, <1>2, AllNumbers
<1> QED
  BY <1>3 DEF T

\* Walks join.
LEMMA WalksJoin ==
    ASSUME NEW E, NEW t \in Tags, NEW m \in Nat, NEW x \in Level(E, t)[m]
    PROVE  \A k \in Nat : Level(E, x)[k] \subseteq Level(E, t)[m + k]
<1> DEFINE T == {k \in Nat : Level(E, x)[k] \subseteq Level(E, t)[m + k]}
<1>0. x \in Tags
  BY Levels
<1>1. 0 \in T
  BY <1>0, Levels
<1>2. ASSUME NEW k \in Nat, k \in T PROVE k + 1 \in T
  <2>1. m + k \in Nat /\ m + (k + 1) = m + k + 1
    OBVIOUS
  <2>2. /\ Level(E, x)[k + 1] = Children(E, Level(E, x)[k])
        /\ Level(E, t)[m + k + 1] = Children(E, Level(E, t)[m + k])
    BY <1>0, <2>1, Levels
  <2>3. Level(E, x)[k + 1] \subseteq Level(E, t)[m + k + 1]
    BY <1>2, <2>2 DEF Children
  <2> QED
    BY <2>1, <2>3
<1> HIDE DEF T
<1>3. Nat \subseteq T
  BY <1>1, <1>2, AllNumbers
<1> QED
  BY <1>3 DEF T

\* F is E with the edge from a to b.
OneMore(E, F, a, b) == \A e \in Tags \X Tags : F[e] => E[e] \/ e = <<a, b>>

\* The last time a walk takes the new edge.
LEMMA LastUse ==
    ASSUME NEW E, NEW F, NEW a \in Tags, NEW b \in Tags, OneMore(E, F, a, b),
           NEW t \in Tags
    PROVE  \A n \in Nat : \A x \in Level(F, t)[n] :
             \/ x \in Level(E, t)[n]
             \/ \E m, k \in Nat : /\ m + k + 1 = n
                                  /\ x \in Level(E, b)[m]
                                  /\ a \in Level(F, t)[k]
<1> DEFINE Via(n, x) == \E m, k \in Nat : /\ m + k + 1 = n
                                          /\ x \in Level(E, b)[m]
                                          /\ a \in Level(F, t)[k]
           T == {n \in Nat : \A x \in Level(F, t)[n] : x \in Level(E, t)[n] \/ Via(n, x)}
<1>1. 0 \in T
  BY Levels
<1>2. ASSUME NEW n \in Nat, n \in T PROVE n + 1 \in T
  <2> SUFFICES ASSUME NEW x \in Level(F, t)[n + 1]
               PROVE  x \in Level(E, t)[n + 1] \/ Via(n + 1, x)
    OBVIOUS
  <2>1. /\ x \in Children(F, Level(F, t)[n])
        /\ Level(F, t)[n] \subseteq Tags
        /\ Level(E, t)[n + 1] = Children(E, Level(E, t)[n])
    BY Levels
  <2>2. PICK y \in Level(F, t)[n] : F[<<y, x>>] /\ x \in Tags /\ y \in Tags
    BY <2>1 DEF Children
  <2>3. CASE <<y, x>> = <<a, b>>
    <3>1. x = b /\ y = a
      BY <2>3
    <3>2. 0 + n + 1 = n + 1 /\ b \in Level(E, b)[0]
      BY Levels
    <3> QED
      BY <2>2, <3>1, <3>2
  <2>4. CASE E[<<y, x>>] /\ y \in Level(E, t)[n]
    BY <2>1, <2>2, <2>4 DEF Children
  <2>5. CASE E[<<y, x>>] /\ Via(n, y)
    <3>1. PICK m, k \in Nat : m + k + 1 = n /\ y \in Level(E, b)[m] /\ a \in Level(F, t)[k]
      BY <2>5
    <3>2. x \in Level(E, b)[m + 1]
      <4>1. Level(E, b)[m + 1] = Children(E, Level(E, b)[m])
        BY Levels
      <4> QED
        BY <2>2, <2>5, <3>1, <4>1 DEF Children
    <3>3. m + 1 + k + 1 = n + 1 /\ m + 1 \in Nat
      BY <3>1
    <3> QED
      BY <3>1, <3>2, <3>3
  <2>6. E[<<y, x>>] \/ <<y, x>> = <<a, b>>
    BY <2>2 DEF OneMore
  <2>7. y \in Level(E, t)[n] \/ Via(n, y)
    BY <1>2
  <2> QED
    BY <2>3, <2>4, <2>5, <2>6, <2>7
<1> HIDE DEF T
<1>3. Nat \subseteq T
  BY <1>1, <1>2, AllNumbers
<1> QED
  BY <1>3 DEF T

\* No tag is back at itself within d edges.
NoCycleWithin(E, d) == \A t \in Tags : t \notin Below(E, t, d)

\* An edge from a to b closes no walk of at most d + 1 edges when the walk of
\* d edges down from b does not meet a.
LEMMA EdgeIsSafe ==
    ASSUME NEW E, NEW F, NEW a \in Tags, NEW b \in Tags, a # b, NEW d \in Nat,
           OneMore(E, F, a, b), \A e \in Tags \X Tags : E[e] => F[e],
           a \notin Below(E, b, d), NoCycleWithin(E, d + 1)
    PROVE  NoCycleWithin(F, d + 1)
<1> SUFFICES ASSUME NEW t \in Tags, NEW n \in 1 .. d + 1, t \in Level(F, t)[n]
             PROVE  FALSE
  BY DEF NoCycleWithin, Below
<1>1. \A m \in 1 .. d : a \notin Level(E, b)[m]
  BY DEF Below
<1>2. t \notin Level(E, t)[n]
  BY DEF NoCycleWithin, Below
<1>3. PICK m, k \in Nat : m + k + 1 = n /\ t \in Level(E, b)[m] /\ a \in Level(F, t)[k]
  BY <1>2, LastUse
<1>4. m + k \in Nat /\ m + k <= d
  BY <1>3
<1>5. t \in Level(F, b)[m]
  BY <1>3, MoreBelow
<1>6. a \in Level(F, b)[m + k]
  BY <1>3, <1>5, WalksJoin
<1>7. \A j \in Nat : j <= d => a \notin Level(E, b)[j]
  <2> SUFFICES ASSUME NEW j \in Nat, j <= d PROVE a \notin Level(E, b)[j]
    OBVIOUS
  <2>1. CASE j = 0
    BY <2>1, Levels
  <2>2. CASE j # 0
    <3>1. j \in 1 .. d
      BY <2>2
    <3> QED
      BY <1>1, <3>1
  <2> QED
    BY <2>1, <2>2
<1>8. a \notin Level(E, b)[m + k]
  BY <1>4, <1>7
<1>9. PICK i, j \in Nat : i + j + 1 = m + k /\ a \in Level(E, b)[i] /\ a \in Level(F, b)[j]
  BY <1>4, <1>6, <1>8, LastUse
<1>10. i <= d
  BY <1>4, <1>9
<1> QED
  BY <1>7, <1>9, <1>10

(***************************************************************************)
(* Cycles.                                                                 *)
(***************************************************************************)

\* One worker tags, as docker compose starts it.
OneWorker == \A p, g \in Taggers : p = g

\* The store begins without a short cycle.
StartsAcyclic ==
    \A s \in Starts : NoCycleWithin([e \in Tags \X Tags |-> e \in s.edges], MaxDepth + 1)

\* No merge is in the tables.
Unmerged == \A t \in Tags : tags[t].status # "merged"

\* An edge joins tags that exist.
EdgesExist ==
    \A a, b \in Tags : edges[<<a, b>>] => tags[a].status # "absent" /\ tags[b].status # "absent"

AllMerged(w) == \A t \in DOMAIN w.tags : w.tags[t].status = "merged"

\* Whoever rewrites edges retires tags.
Retiring(w) == DOMAIN w.edges # {} => DOMAIN w.tags # {}

\* The merge at hand has a tag to retire.
HasSource(p) == \E t \in Sources(p) : Exists(p, t)

FoldsOk(p) ==
    /\ AllMerged(tx[p])
    /\ merge[p].pc \in Statements =>
         AllMerged(merge[p].saved) /\ DOMAIN merge[p].saved.tags \subseteq DOMAIN tx[p].tags

EdgesAccounted(p) ==
    /\ merge[p].pc \in Statements => Retiring(merge[p].saved)
    /\ merge[p].pc \notin {"repoint", "unlink", "retire"} => Retiring(tx[p])
    /\ merge[p].pc = "repoint" => DOMAIN tx[p].tags # {} \/ HasSource(p)
    /\ merge[p].pc \in {"unlink", "retire"} => Retiring(tx[p]) \/ HasSource(p)

\* A worker coins tags that are not there, and what its walk found of the edge it
\* is about to add is still so when it adds it.
NewOk(p) == \A t \in DOMAIN tx[p].tags : tags[t].status = "absent"

GrowsOk(p) ==
    /\ \A e \in DOMAIN tx[p].edges : tx[p].edges[e] /\ Exists(p, e[1]) /\ Exists(p, e[2])
    /\ job[p].pc \in {"assign", "place", "walk", "link"} => Exists(p, Now(p).tag)
    /\ job[p].pc \in {"walk", "link"} => Exists(p, Now(p).parent)
    /\ job[p].pc = "link" => Now(p).parent \notin Below(SeenEdges(p), Now(p).tag, MaxDepth)
    /\ NoCycleWithin(SeenEdges(p), MaxDepth + 1)

TreeInv ==
    /\ TagsLocked
    /\ \A p \in Appliers : FoldsOk(p)
    /\ \A p \in Procs \ Appliers : NewOk(p)
    /\ Unmerged =>
         /\ EdgesExist
         /\ NoCycleWithin(edges, MaxDepth + 1)
         /\ \A p \in Appliers : EdgesAccounted(p)
         /\ \A p \in Taggers : GrowsOk(p)

\* What a commit of p makes of links and edges.
LEMMA CommittedGraph ==
    ASSUME Typed, NEW p \in Procs, CommitTx(p)
    PROVE  /\ links' = [k \in Items \X Tags |->
                IF k \in DOMAIN tx[p].links THEN tx[p].links[k] ELSE links[k]]
           /\ edges' = [e \in Tags \X Tags |->
                IF e \in DOMAIN tx[p].edges THEN tx[p].edges[e] ELSE edges[e]]
BY DEF CommitTx, SeenLinks, SeenEdges, Over, Typed, TablesTyped

LEMMA NothingInTree ==
    /\ DOMAIN NoWrites.tags = {} /\ DOMAIN NoWrites.edges = {}
    /\ AllMerged(NoWrites) /\ Retiring(NoWrites)
BY DEF NoWrites, AllMerged, Retiring

\* What p sees when it and the tables have not changed.
LEMMA SeenStays ==
    ASSUME NEW p, tx'[p] = tx[p], UNCHANGED <<tags, edges>>
    PROVE  /\ \A t : Exists(p, t)' = Exists(p, t)
           /\ SeenEdges(p)' = SeenEdges(p)
BY DEF Exists, SeenTags, SeenEdges, Over

LEMMA SameFolds ==
    ASSUME NEW p \in Appliers, FoldsOk(p), tx'[p] = tx[p], merge'[p] = merge[p]
    PROVE  FoldsOk(p)'
BY DEF FoldsOk

LEMMA SameEdges ==
    ASSUME NEW p \in Appliers, EdgesAccounted(p), tx'[p] = tx[p], merge'[p] = merge[p],
           \A t \in Tags : Exists(p, t) => Exists(p, t)', Sources(p) \in SUBSET Tags
    PROVE  EdgesAccounted(p)'
<1>1. Sources(p)' = Sources(p)
  BY DEF Sources, Target, This
<1>2. HasSource(p) => HasSource(p)'
  BY <1>1 DEF HasSource
<1> QED
  BY <1>2 DEF EdgesAccounted

\* A step of p that commits nothing.
LEMMA TreeOthers ==
    ASSUME IInv, Typed, TreeInv, NEW p \in Procs, Step(p), UNCHANGED <<tags, edges>>,
           \A g \in Taggers \ {p} : job'[g] = job[g],
           \A t \in DOMAIN tx'[p].tags :
             t \in DOMAIN tx[p].tags \/ \A g \in Procs \ {p} : t \notin DOMAIN tx[g].tags,
           p \in Appliers => FoldsOk(p)' /\ (Unmerged => EdgesAccounted(p)'),
           p \notin Appliers => NewOk(p)',
           p \in Taggers /\ Unmerged => GrowsOk(p)'
    PROVE  TreeInv'
<1>1. \A g \in Procs \ {p} : tx'[g] = tx[g]
  BY DEF Step, OthersKeep
<1>2. TagsLocked'
  BY <1>1 DEF TreeInv, TagsLocked
<1>3. ASSUME NEW g \in Appliers PROVE FoldsOk(g)'
  <2>1. g # p => tx'[g] = tx[g] /\ merge'[g] = merge[g]
    BY <1>1, MergingAssumption DEF Step
  <2> QED
    BY <2>1, SameFolds DEF TreeInv
<1>4. ASSUME NEW g \in Procs \ Appliers PROVE NewOk(g)'
  BY <1>1 DEF TreeInv, NewOk
<1>5. ASSUME Unmerged, NEW g \in Appliers PROVE EdgesAccounted(g)'
  <2>1. CASE g = p
    BY <1>5, <2>1
  <2>2. CASE g # p
    <3>1. tx'[g] = tx[g] /\ merge'[g] = merge[g] /\ EdgesAccounted(g)
      BY <1>1, <1>5, <2>2, MergingAssumption DEF Step, TreeInv
    <3>2. \A t : Exists(g, t)' = Exists(g, t)
      BY <3>1, SeenStays
    <3>3. CASE merge[g].todo # <<>>
      BY <3>1, <3>2, <3>3, AtHand, SameEdges
    <3>4. CASE merge[g].pc \notin Statements
      BY <3>1, <3>4 DEF EdgesAccounted, Statements
    <3> QED
      BY <3>3, <3>4, AtHand
  <2> QED
    BY <2>1, <2>2
<1>6. ASSUME Unmerged, NEW g \in Taggers PROVE GrowsOk(g)'
  <2>1. CASE g = p
    BY <1>6, <2>1
  <2>2. CASE g # p
    <3>1. tx'[g] = tx[g] /\ job'[g] = job[g] /\ GrowsOk(g)
      BY <1>1, <1>6, <2>2, TaggersAreApart DEF TreeInv
    <3>2. (\A t : Exists(g, t)' = Exists(g, t)) /\ SeenEdges(g)' = SeenEdges(g)
      BY <3>1, SeenStays
    <3>3. Now(g)' = Now(g)
      BY <3>1 DEF Now
    <3> QED
      BY <3>1, <3>2, <3>3 DEF GrowsOk
  <2> QED
    BY <2>1, <2>2
<1>7. Unmerged' = Unmerged /\ EdgesExist' = EdgesExist
  BY DEF Unmerged, EdgesExist
<1>8. Unmerged => EdgesExist' /\ NoCycleWithin(edges', MaxDepth + 1)
  BY <1>7 DEF TreeInv
<1> QED
  BY <1>2, <1>3, <1>4, <1>5, <1>6, <1>7, <1>8 DEF TreeInv

\* An edge at a source is there because p wrote it or because both its ends are.
LEMMA SourceThere ==
    ASSUME IInv, Typed, EdgesExist, NEW p \in Procs, NEW S \in SUBSET Tags,
           EdgesOf(p, S) # {}
    PROVE  DOMAIN tx[p].edges # {} \/ \E t \in S : Exists(p, t)
<1>1. PICK a \in Tags, b \in Tags : SeenEdges(p)[<<a, b>>] /\ (a \in S \/ b \in S)
  BY DEF EdgesOf
<1>2. CASE <<a, b>> \in DOMAIN tx[p].edges
  BY <1>2
<1>3. CASE <<a, b>> \notin DOMAIN tx[p].edges
  <2>1. edges[<<a, b>>]
    BY <1>1, <1>3 DEF SeenEdges, Over, Typed, TablesTyped
  <2>2. tags[a].status # "absent" /\ tags[b].status # "absent"
    BY <2>1 DEF EdgesExist
  <2>3. Exists(p, a) /\ Exists(p, b)
    BY <2>2 DEF Exists, SeenTags, Over, Typed, TablesTyped, WritesTyped
  <2> QED
    BY <1>1, <2>3
<1> QED
  BY <1>2, <1>3

LEMMA TreeApplying ==
    ASSUME IInv, Typed, TreeInv, NEW p \in Appliers, ApplierStep(p) \/ Victim(p),
           ~CommitMerges(p), UNCHANGED taggingVars
    PROVE  TreeInv'
<1> DEFINE m == merge[p]
<1>1. Step(p) /\ UNCHANGED tables /\ ApplierMoves(p)
  BY ApplierMovesSo
<1>2. /\ p \in Procs /\ p \notin Taggers /\ Shape /\ FoldsOk(p) /\ TagsLocked
      /\ Unmerged => EdgesAccounted(p) /\ EdgesExist
      /\ UNCHANGED <<tags, edges, job>>
      /\ m.pc \in Statements => m.todo # <<>>
      /\ m.todo # <<>> => Sources(p) \in SUBSET Tags
      /\ m.pc \in {"idle", "dead", "next"} \cup Statements
  BY <1>1, AtHand, TaxonomyAssumption DEF TreeInv, tables, taggingVars
<1>3. ASSUME \A t \in DOMAIN tx'[p].tags :
               t \in DOMAIN tx[p].tags \/ \A g \in Procs \ {p} : t \notin DOMAIN tx[g].tags,
             FoldsOk(p)', Unmerged => EdgesAccounted(p)'
      PROVE  TreeInv'
  BY <1>1, <1>2, <1>3, TreeOthers
<1>4. ASSUME tx'[p].tags = tx[p].tags, m.todo # <<>>, merge'[p].todo = m.todo
      PROVE  HasSource(p)' = HasSource(p)
  <2>1. Sources(p)' = Sources(p)
    BY <1>4 DEF Sources, Target, This
  <2>2. \A t : Exists(p, t)' = Exists(p, t)
    BY <1>2, <1>4 DEF Exists, SeenTags, Over
  <2> QED
    BY <2>1, <2>2 DEF HasSource
<1>5. ASSUME tx'[p].tags = tx[p].tags, NEW pc \in Statements, Goes(p, pc), m.pc \in Statements,
             Unmerged => EdgesAccounted(p)'
      PROVE  TreeInv'
  <2>1. FoldsOk(p)'
    BY <1>2, <1>5 DEF FoldsOk, Goes, AllMerged
  <2> QED
    BY <1>3, <1>5, <2>1
<1>6. CASE TurnsPage(p)
  <2>1. tx'[p].tags = tx[p].tags /\ tx'[p].edges = tx[p].edges /\ merge'[p].pc = "next"
    BY <1>6 DEF TurnsPage, Keeps
  <2>2. FoldsOk(p)'
    BY <1>2, <2>1 DEF FoldsOk, AllMerged, Statements
  <2>3. Unmerged => Retiring(tx[p])
    BY <1>2, <1>6 DEF EdgesAccounted, TurnsPage, Statements
  <2>4. Unmerged => EdgesAccounted(p)'
    BY <2>1, <2>3 DEF EdgesAccounted, Retiring, Statements
  <2> QED
    BY <1>3, <2>1, <2>2, <2>4
<1>7. CASE Begins(p)
  <2>1. /\ tx'[p] = tx[p] /\ merge'[p].pc \in {"edges", "move"} /\ merge'[p].saved = tx[p]
        /\ m.pc = "next"
    BY <1>7 DEF Begins
  <2>2. FoldsOk(p)'
    BY <1>2, <2>1 DEF FoldsOk, AllMerged, Statements
  <2>3. Unmerged => EdgesAccounted(p)'
    BY <1>2, <2>1 DEF EdgesAccounted, Statements
  <2> QED
    BY <1>3, <2>1, <2>2, <2>3
<1>8. ASSUME NEW r, Moves(p, r) PROVE TreeInv'
  <2>1. PICK pc \in {"drop", "move"} : Goes(p, pc)
    BY <1>8 DEF Moves
  <2>2. tx'[p].tags = tx[p].tags /\ tx'[p].edges = tx[p].edges /\ m.pc = "move"
    BY <1>8 DEF Moves, PutsLinks
  <2>3. Unmerged => EdgesAccounted(p)'
    BY <1>2, <2>1, <2>2 DEF EdgesAccounted, Statements, Retiring, Goes
  <2> QED
    BY <1>5, <2>1, <2>2, <2>3 DEF Statements
<1>9. CASE Drops(p)
  <2>1. Goes(p, "edges") /\ tx'[p].tags = tx[p].tags /\ tx'[p].edges = tx[p].edges /\ m.pc = "drop"
    BY <1>9 DEF Drops, PutsLinks
  <2>2. Unmerged => EdgesAccounted(p)'
    BY <1>2, <2>1 DEF EdgesAccounted, Statements, Retiring, Goes
  <2> QED
    BY <1>5, <2>1, <2>2 DEF Statements
<1>10. CASE Selects(p)
  <2>1. PICK pc \in {"unlink", "repoint"} :
          Goes(p, pc) /\ (pc = "repoint" => EdgesOf(p, Sources(p)) # {})
    BY <1>10 DEF Selects
  <2>2. tx'[p].tags = tx[p].tags /\ tx'[p].edges = tx[p].edges /\ m.pc = "edges"
    BY <1>10 DEF Selects, Keeps
  <2>3. m.todo # <<>> /\ merge'[p].todo = m.todo
    BY <1>2, <2>1, <2>2 DEF Statements, Goes
  <2>4. HasSource(p)' = HasSource(p)
    BY <1>4, <2>2, <2>3
  <2>5. ASSUME Unmerged PROVE EdgesAccounted(p)'
    <3>1. EdgesAccounted(p) /\ Retiring(tx[p])
      BY <1>2, <2>2, <2>5 DEF EdgesAccounted
    <3>2. CASE pc = "unlink"
      BY <2>1, <2>2, <3>1, <3>2 DEF EdgesAccounted, Statements, Retiring, Goes
    <3>3. CASE pc = "repoint"
      <4>1. DOMAIN tx[p].edges # {} \/ HasSource(p)
        BY <1>2, <2>1, <2>3, <2>5, <3>3, SourceThere DEF HasSource
      <4> QED
        BY <2>1, <2>2, <2>4, <3>1, <3>3, <4>1 DEF EdgesAccounted, Statements, Retiring, Goes
    <3> QED
      BY <3>2, <3>3
  <2> QED
    BY <1>5, <2>1, <2>2, <2>5 DEF Statements
<1>11. CASE Repoints(p)
  <2>1. PICK pc \in {"repoint", "unlink"} : Goes(p, pc)
    BY <1>11 DEF Repoints
  <2>2. tx'[p].tags = tx[p].tags /\ m.pc = "repoint"
    BY <1>11 DEF Repoints, Keeps, PutsEdges
  <2>3. m.todo # <<>> /\ merge'[p].todo = m.todo
    BY <1>2, <2>1, <2>2 DEF Statements, Goes
  <2>4. HasSource(p)' = HasSource(p)
    BY <1>4, <2>2, <2>3
  <2>5. Unmerged => EdgesAccounted(p)'
    BY <1>2, <2>1, <2>2, <2>4 DEF EdgesAccounted, Statements, Retiring, Goes
  <2> QED
    BY <1>5, <2>1, <2>2, <2>5 DEF Statements
<1>12. CASE Unlinks(p)
  <2> DEFINE K == EdgesOf(p, Sources(p))
  <2>1. /\ tx'[p].tags = tx[p].tags /\ tx'[p].edges = Put(tx[p].edges, K, FALSE)
        /\ m.pc = "unlink" /\ Goes(p, "retire")
    BY <1>12 DEF Unlinks, PutsEdges
  <2>2. m.todo # <<>> /\ merge'[p].todo = m.todo
    BY <1>2, <2>1 DEF Statements, Goes
  <2>3. HasSource(p)' = HasSource(p)
    BY <1>4, <2>1, <2>2
  <2>4. DOMAIN tx'[p].edges = DOMAIN tx[p].edges \cup K
    BY <2>1 DEF Put
  <2>5. ASSUME Unmerged PROVE EdgesAccounted(p)'
    <3>1. EdgesAccounted(p) /\ (Retiring(tx[p]) \/ HasSource(p))
      BY <1>2, <2>1, <2>5 DEF EdgesAccounted
    <3>2. K # {} => DOMAIN tx[p].edges # {} \/ HasSource(p)
      BY <1>2, <2>2, <2>5, SourceThere DEF HasSource
    <3>3. Retiring(tx'[p]) \/ HasSource(p)
      <4> HIDE DEF K
      <4> QED
        BY <2>1, <2>4, <3>1, <3>2 DEF Retiring
    <3> QED
      BY <2>1, <2>3, <3>1, <3>3 DEF EdgesAccounted, Statements, Goes
  <2> QED
    BY <1>5, <2>1, <2>5 DEF Statements
<1>13. CASE Retires(p)
  <2> DEFINE K == {t \in Sources(p) : Exists(p, t)}
             v == [status |-> "merged", into |-> Target(p)]
  <2>1. /\ m.pc = "retire" /\ Free(p, TagKeys(K)) /\ Goes(p, "mark")
        /\ tx'[p].tags = Put(tx[p].tags, K, v) /\ tx'[p].edges = tx[p].edges
    BY <1>13 DEF Retires, PutsTags
  <2>2. HasSource(p) => K # {}
    BY DEF HasSource
  <2>3. \A t \in K : \A g \in Procs \ {p} : t \notin DOMAIN tx[g].tags
    BY <2>1 DEF Free, Locks, TagKeys
  <2>4. v.status = "merged"
    OBVIOUS
  <2> HIDE DEF K, v
  <2>5. /\ DOMAIN tx'[p].tags = DOMAIN tx[p].tags \cup K
        /\ \A t \in K : tx'[p].tags[t] = v
        /\ \A t \in DOMAIN tx[p].tags : t \notin K => tx'[p].tags[t] = tx[p].tags[t]
    BY <2>1 DEF Put
  <2>6. AllMerged(tx'[p])
    BY <1>2, <2>4, <2>5 DEF AllMerged, FoldsOk
  <2>7. FoldsOk(p)'
    BY <1>2, <2>1, <2>5, <2>6 DEF FoldsOk, Goes, Statements
  <2>8. ASSUME Unmerged PROVE EdgesAccounted(p)'
    <3>1. EdgesAccounted(p) /\ (Retiring(tx[p]) \/ HasSource(p))
      BY <1>2, <2>1, <2>8 DEF EdgesAccounted
    <3>2. Retiring(tx'[p])
      BY <2>1, <2>2, <2>5, <3>1 DEF Retiring
    <3> QED
      BY <2>1, <3>1, <3>2 DEF EdgesAccounted, Statements, Goes
  <2> QED
    BY <1>3, <2>3, <2>5, <2>7, <2>8
<1>14. ASSUME m.pc \in Statements, tx'[p] = m.saved, merge'[p].pc = "next"
       PROVE  TreeInv'
  <2>1. AllMerged(m.saved) /\ DOMAIN m.saved.tags \subseteq DOMAIN tx[p].tags
    BY <1>2, <1>14 DEF FoldsOk
  <2>2. FoldsOk(p)'
    BY <1>14, <2>1 DEF FoldsOk, Statements
  <2>3. Unmerged => EdgesAccounted(p)'
    BY <1>2, <1>14 DEF EdgesAccounted, Statements
  <2> QED
    BY <1>3, <1>14, <2>1, <2>2, <2>3
<1>15. ASSUME tx'[p] = NoWrites, merge'[p].pc = "dead"
       PROVE  TreeInv'
  <2>1. FoldsOk(p)' /\ EdgesAccounted(p)'
    BY <1>15, NothingInTree DEF FoldsOk, EdgesAccounted, Statements
  <2> QED
    BY <1>3, <1>15, <2>1, NothingInTree
<1> QED
  BY <1>1, <1>6, <1>7, <1>8, <1>9, <1>10, <1>11, <1>12, <1>13, <1>14, <1>15
     DEF ApplierMoves, Undoes

LEMMA TreeTagging ==
    ASSUME IInv, Typed, TreeInv, NEW p \in Taggers, TaggingStep(p), UNCHANGED merge,
           ~CommitTagging(p)
    PROVE  TreeInv'
<1>1. Step(p) /\ UNCHANGED tables /\ TaggerMoves(p)
  BY TaggerMovesSo
<1>2. /\ p \in Procs /\ p \notin Appliers /\ NewOk(p) /\ WritesTyped(tx[p])
      /\ Unmerged => GrowsOk(p)
      /\ UNCHANGED <<tags, edges>> /\ \A g \in Taggers \ {p} : job'[g] = job[g]
  BY <1>1, TaggersAreApart, TaggingIsLocal DEF TreeInv, Typed, tables
<1>3. ASSUME \A t \in DOMAIN tx'[p].tags :
               t \in DOMAIN tx[p].tags \/ \A g \in Procs \ {p} : t \notin DOMAIN tx[g].tags,
             NewOk(p)', Unmerged => GrowsOk(p)'
      PROVE  TreeInv'
  BY <1>1, <1>2, <1>3, TreeOthers
<1>4. ASSUME tx'[p].tags = tx[p].tags, Unmerged => GrowsOk(p)' PROVE TreeInv'
  <2>1. NewOk(p)'
    BY <1>2, <1>4 DEF NewOk
  <2> QED
    BY <1>3, <1>4, <2>1
<1>5. tx'[p].edges = tx[p].edges => SeenEdges(p)' = SeenEdges(p)
  BY <1>2 DEF SeenEdges, Over
<1>6. tx'[p].tags = tx[p].tags => \A t : Exists(p, t)' = Exists(p, t)
  BY <1>2 DEF Exists, SeenTags, Over
<1>7. CASE Asks(p)
  <2>1. tx'[p] = tx[p] /\ job'[p].pc \notin {"assign", "place", "walk", "link"}
    BY <1>7 DEF Asks
  <2>2. Unmerged => GrowsOk(p)'
    BY <1>2, <1>5, <1>6, <2>1 DEF GrowsOk
  <2> QED
    BY <1>4, <2>1, <2>2
<1>8. CASE Coins(p)
  <2> DEFINE t == Now(p).tag
  <2>1. t \in Tags /\ job'[p].todo = job[p].todo /\ job'[p].pc = "assign"
    BY <1>8 DEF Coins
  <2>2. Now(p)' = Now(p)
    BY <2>1 DEF Now
  <2>3. CASE Exists(p, t) /\ tx'[p] = tx[p]
    <3>1. Unmerged => GrowsOk(p)'
      BY <1>2, <1>5, <1>6, <2>1, <2>2, <2>3 DEF GrowsOk
    <3> QED
      BY <1>4, <2>3, <3>1
  <2>4. CASE ~Exists(p, t) /\ Free(p, TagKeys({t})) /\ PutsTags(p, {t}, Active)
    <3>1. /\ tx'[p].tags = Put(tx[p].tags, {t}, Active) /\ tx'[p].edges = tx[p].edges
      BY <2>4 DEF PutsTags
    <3>2. t \notin DOMAIN tx[p].tags /\ tags[t].status = "absent"
      BY <1>2, <2>1, <2>4 DEF Exists, SeenTags, Over, WritesTyped, Typed, TablesTyped
    <3>3. \A g \in Procs \ {p} : t \notin DOMAIN tx[g].tags
      BY <2>4 DEF Free, Locks, TagKeys
    <3> HIDE DEF t
    <3>4. /\ DOMAIN tx'[p].tags = DOMAIN tx[p].tags \cup {t} /\ tx'[p].tags[t] = Active
          /\ \A u \in DOMAIN tx[p].tags : u # t => tx'[p].tags[u] = tx[p].tags[u]
      BY <3>1 DEF Put
    <3>5. NewOk(p)'
      BY <1>2, <3>2, <3>4 DEF NewOk
    <3>6. \A u \in Tags : u = t \/ Exists(p, u) => Exists(p, u)'
      <4>1. \A u \in Tags :
              SeenTags(p)'[u] = IF u \in DOMAIN tx'[p].tags THEN tx'[p].tags[u] ELSE tags[u]
        BY <1>2 DEF SeenTags, Over, Typed, TablesTyped
      <4>2. \A u \in Tags :
              SeenTags(p)[u] = IF u \in DOMAIN tx[p].tags THEN tx[p].tags[u] ELSE tags[u]
        BY DEF SeenTags, Over, Typed, TablesTyped
      <4>3. SeenTags(p)'[t] = Active /\ \A u \in Tags : u # t => SeenTags(p)'[u] = SeenTags(p)[u]
        BY <2>1, <3>4, <4>1, <4>2 DEF t
      <4> QED
        BY <4>3 DEF Exists, Active
    <3>7. \A e \in DOMAIN tx[p].edges : e[1] \in Tags /\ e[2] \in Tags
      BY <1>2 DEF WritesTyped
    <3>8. Unmerged => GrowsOk(p)'
      BY <1>2, <1>5, <2>1, <2>2, <3>1, <3>6, <3>7 DEF GrowsOk, t
    <3> QED
      BY <1>3, <3>3, <3>4, <3>5, <3>8
  <2> QED
    BY <1>8, <2>3, <2>4 DEF Coins
<1>9. CASE Assigns(p)
  <2>1. /\ tx'[p].tags = tx[p].tags /\ tx'[p].edges = tx[p].edges
        /\ job[p].pc = "assign" /\ job'[p].pc = "place" /\ job'[p].todo = job[p].todo
    BY <1>9 DEF Assigns, PutsLinks
  <2>2. Now(p)' = Now(p)
    BY <2>1 DEF Now
  <2>3. Unmerged => GrowsOk(p)'
    BY <1>2, <1>5, <1>6, <2>1, <2>2 DEF GrowsOk
  <2> QED
    BY <1>4, <2>1, <2>3
<1>10. CASE FindsParent(p) \/ Clears(p)
  <2>1. /\ tx'[p] = tx[p] /\ job'[p].todo = job[p].todo
        /\ \/ /\ job[p].pc = "place" /\ job'[p].pc = "walk"
              /\ HasParent(p, Now(p))
           \/ /\ job[p].pc = "walk" /\ job'[p].pc = "link"
              /\ Now(p).parent \notin Below(SeenEdges(p), Now(p).tag, MaxDepth)
    BY <1>10 DEF FindsParent, Clears
  <2>2. Now(p)' = Now(p)
    BY <2>1 DEF Now
  <2>3. HasParent(p, Now(p)) => Exists(p, Now(p).parent)
    BY DEF HasParent, IsActive, Exists
  <2>4. Unmerged => GrowsOk(p)'
    BY <1>2, <1>5, <1>6, <2>1, <2>2, <2>3 DEF GrowsOk
  <2> QED
    BY <1>4, <2>1, <2>4
<1>b. CASE Hangs(p)
  <2> DEFINE s == Now(p)
             e == <<s.parent, s.tag>>
  <2>1. tx'[p].tags = tx[p].tags /\ tx'[p].edges = Put(tx[p].edges, {e}, TRUE)
    BY <1>b DEF Hangs, PutsEdges
  <2>2. /\ s.parent \in Tags /\ s.tag \in Tags /\ s.parent # s.tag
        /\ job[p].pc = "link" /\ job'[p].pc = "coin"
    BY <1>b DEF Hangs, Suggestion
  <2>3. Unmerged => /\ Exists(p, s.parent)
                    /\ s.parent \notin Below(SeenEdges(p), s.tag, MaxDepth)
    BY <1>2, <2>2 DEF GrowsOk
  <2> HIDE DEF s
  <2>4. ASSUME Unmerged PROVE GrowsOk(p)'
    <3>1. GrowsOk(p) /\ Exists(p, s.tag)
      BY <1>2, <2>2, <2>4 DEF GrowsOk, s
    <3>2. /\ DOMAIN tx'[p].edges = DOMAIN tx[p].edges \cup {e} /\ tx'[p].edges[e] = TRUE
          /\ \A f \in DOMAIN tx[p].edges : f # e => tx'[p].edges[f] = tx[p].edges[f]
      <4> HIDE DEF e
      <4> QED
        BY <2>1 DEF Put
    <3>3. \A f \in DOMAIN tx'[p].edges :
            tx'[p].edges[f] /\ Exists(p, f[1])' /\ Exists(p, f[2])'
      <4>1. e[1] = s.parent /\ e[2] = s.tag
        OBVIOUS
      <4> HIDE DEF e
      <4>2. \A u : Exists(p, u)' = Exists(p, u)
        BY <1>6, <2>1
      <4>3. ASSUME NEW f \in DOMAIN tx'[p].edges
            PROVE  tx'[p].edges[f] /\ Exists(p, f[1]) /\ Exists(p, f[2])
        <5>1. CASE f = e
          BY <2>3, <2>4, <3>1, <3>2, <4>1, <5>1
        <5>2. CASE f # e
          BY <3>1, <3>2, <5>2 DEF GrowsOk
        <5> QED
          BY <5>1, <5>2
      <4> QED
        BY <4>2, <4>3
    <3>4. \A f \in Tags \X Tags : SeenEdges(p)'[f] = (f = e \/ SeenEdges(p)[f])
      <4>1. ASSUME NEW f \in Tags \X Tags
            PROVE SeenEdges(p)'[f] = (f = e \/ SeenEdges(p)[f])
        <5> HIDE DEF e
        <5>1. SeenEdges(p)'[f] = IF f \in DOMAIN tx'[p].edges THEN tx'[p].edges[f] ELSE edges[f]
          BY <1>2 DEF SeenEdges, Over, Typed, TablesTyped
        <5>2. SeenEdges(p)[f] = IF f \in DOMAIN tx[p].edges THEN tx[p].edges[f] ELSE edges[f]
          BY <1>2 DEF SeenEdges, Over, Typed, TablesTyped
        <5>3. SeenEdges(p)[f] \in BOOLEAN
          BY <1>2, SeenTyped
        <5> QED
          BY <3>2, <5>1, <5>2, <5>3
      <4> QED
        BY <4>1
    <3>5. NoCycleWithin(SeenEdges(p), MaxDepth + 1) /\ MaxDepth \in Nat
      BY <3>1, TaggingAssumption DEF GrowsOk
    <3>6. /\ OneMore(SeenEdges(p), SeenEdges(p)', s.parent, s.tag)
          /\ \A f \in Tags \X Tags : SeenEdges(p)[f] => SeenEdges(p)'[f]
      BY <3>4 DEF OneMore
    <3>7. NoCycleWithin(SeenEdges(p)', MaxDepth + 1)
      BY <2>2, <2>3, <2>4, <3>5, <3>6, EdgeIsSafe
    <3> QED
      BY <2>2, <3>3, <3>7 DEF GrowsOk
  <2> QED
    BY <1>4, <2>1, <2>4
<1>11. CASE Fails(p)
  <2>1. tx'[p] = NoWrites /\ job'[p].pc = "idle"
    BY <1>11 DEF Fails
  <2>2. NewOk(p)'
    BY <2>1, NothingInTree DEF NewOk
  <2>3. SeenEdges(p)' = edges
    BY <1>2, <2>1, NothingInTree DEF SeenEdges, Over, Typed, TablesTyped
  <2>4. Unmerged => GrowsOk(p)'
    BY <2>1, <2>3, NothingInTree DEF GrowsOk, TreeInv
  <2> QED
    BY <1>3, <2>1, <2>2, <2>4, NothingInTree
<1> QED
  BY <1>1, <1>7, <1>8, <1>9, <1>10, <1>b, <1>11 DEF TaggerMoves

\* What a commit of p does to those who have not committed.
LEMMA CommitLeaves ==
    ASSUME IInv, Typed, TreeInv, NEW p \in Procs, CommitTx(p),
           \A g \in Appliers \ {p} : merge'[g] = merge[g],
           p \in Appliers => merge'[p].pc = "idle"
    PROVE  /\ TagsLocked'
           /\ \A g \in Appliers : FoldsOk(g)'
           /\ \A g \in Procs \ Appliers : NewOk(g)'
           /\ \A g \in Appliers : Unmerged => EdgesAccounted(g)'
<1>1. /\ tags' = [t \in Tags |-> IF t \in DOMAIN tx[p].tags THEN tx[p].tags[t] ELSE tags[t]]
      /\ tx'[p] = NoWrites /\ \A g \in Procs \ {p} : tx'[g] = tx[g]
  BY Committed
<1>2. TagsLocked'
  BY <1>1, NothingInTree DEF TreeInv, TagsLocked
<1>3. ASSUME NEW g \in Appliers PROVE FoldsOk(g)' /\ (Unmerged => EdgesAccounted(g)')
  <2>1. CASE g = p
    BY <1>1, <2>1, NothingInTree DEF FoldsOk, EdgesAccounted, Statements
  <2>2. CASE g # p
    <3>1. tx'[g] = tx[g] /\ merge'[g] = merge[g] /\ g \in Procs
      BY <1>1, <2>2, MergingAssumption
    <3>2. FoldsOk(g)'
      BY <3>1, SameFolds DEF TreeInv
    <3>3. ASSUME Unmerged PROVE EdgesAccounted(g)'
      <4>1. EdgesAccounted(g)
        BY <3>3 DEF TreeInv
      <4>2. \A t \in Tags : Exists(g, t) => Exists(g, t)'
        BY <1>1, <3>1 DEF Exists, SeenTags, Over, Typed, TablesTyped, WritesTyped
      <4>3. CASE merge[g].todo # <<>>
        BY <3>1, <4>1, <4>2, <4>3, AtHand, SameEdges
      <4>4. CASE merge[g].pc \notin Statements
        BY <3>1, <4>1, <4>4 DEF EdgesAccounted, Statements
      <4> QED
        BY <4>3, <4>4, AtHand
    <3> QED
      BY <3>2, <3>3
  <2> QED
    BY <2>1, <2>2
<1>4. ASSUME NEW g \in Procs \ Appliers PROVE NewOk(g)'
  <2>1. CASE g = p
    BY <1>1, <2>1, NothingInTree DEF NewOk
  <2>2. CASE g # p
    <3>1. \A t \in DOMAIN tx[g].tags : t \in Tags /\ t \notin DOMAIN tx[p].tags
      BY <2>2 DEF TreeInv, TagsLocked, Typed, WritesTyped
    <3> QED
      BY <1>1, <2>2, <3>1 DEF TreeInv, NewOk
  <2> QED
    BY <2>1, <2>2
<1> QED
  BY <1>2, <1>3, <1>4

LEMMA TreeGrows ==
    ASSUME IInv, Typed, TreeInv, OneWorker, NEW p \in Taggers, CommitTagging(p), UNCHANGED merge
    PROVE  TreeInv'
<1>1. /\ p \in Procs /\ p \notin Appliers /\ CommitTx(p) /\ job' = [job EXCEPT ![p] = IdleJob]
      /\ NewOk(p) /\ WritesTyped(tx[p])
  BY TaggersAreApart DEF CommitTagging, TreeInv, Typed
<1>2. /\ tags' = [t \in Tags |-> IF t \in DOMAIN tx[p].tags THEN tx[p].tags[t] ELSE tags[t]]
      /\ tx'[p] = NoWrites
  BY <1>1, Committed
<1>3. edges' = [e \in Tags \X Tags |->
                IF e \in DOMAIN tx[p].edges THEN tx[p].edges[e] ELSE edges[e]]
  BY <1>1, CommittedGraph
<1>4. /\ TagsLocked'
      /\ \A g \in Appliers : FoldsOk(g)'
      /\ \A g \in Procs \ Appliers : NewOk(g)'
      /\ \A g \in Appliers : Unmerged => EdgesAccounted(g)'
  <2>1. \A g \in Appliers \ {p} : merge'[g] = merge[g]
    OBVIOUS
  <2> QED
    BY <1>1, <2>1, CommitLeaves
<1>5. ASSUME Unmerged' PROVE Unmerged
  BY <1>1, <1>2, <1>5 DEF Unmerged, NewOk
<1>6. ASSUME Unmerged PROVE EdgesExist' /\ NoCycleWithin(edges', MaxDepth + 1) /\ GrowsOk(p)'
  <2>1. GrowsOk(p) /\ EdgesExist
    BY <1>6 DEF TreeInv
  <2>2. edges' = SeenEdges(p) /\ tags' = SeenTags(p)
    BY <1>1 DEF CommitTx
  <2>3. \A t \in Tags : tags[t].status # "absent" => tags'[t].status # "absent"
    BY <1>1, <1>2 DEF WritesTyped
  <2>4. EdgesExist'
    <3> SUFFICES ASSUME NEW a \in Tags, NEW b \in Tags, edges'[<<a, b>>]
                 PROVE  tags'[a].status # "absent" /\ tags'[b].status # "absent"
      BY DEF EdgesExist
    <3>1. CASE <<a, b>> \in DOMAIN tx[p].edges
      BY <2>1, <2>2, <3>1 DEF GrowsOk, Exists
    <3>2. CASE <<a, b>> \notin DOMAIN tx[p].edges
      <4>1. edges[<<a, b>>]
        BY <1>3, <3>2
      <4> QED
        BY <2>1, <2>3, <4>1 DEF EdgesExist
    <3> QED
      BY <3>1, <3>2
  <2>5. NoCycleWithin(edges', MaxDepth + 1)
    BY <2>1, <2>2 DEF GrowsOk
  <2>6. SeenEdges(p)' = edges'
    BY <1>2, <1>3, NothingInTree DEF SeenEdges, Over
  <2>7. job'[p].pc = "idle"
    BY <1>1 DEF IdleJob, Typed
  <2>8. GrowsOk(p)'
    BY <1>2, <2>5, <2>6, <2>7, NothingInTree DEF GrowsOk
  <2> QED
    BY <2>4, <2>5, <2>8
<1>7. \A g \in Taggers : g = p
  BY DEF OneWorker
<1>8. Unmerged' => /\ EdgesExist' /\ NoCycleWithin(edges', MaxDepth + 1)
                   /\ \A g \in Appliers : EdgesAccounted(g)'
                   /\ \A g \in Taggers : GrowsOk(g)'
  BY <1>4, <1>5, <1>6, <1>7
<1> QED
  BY <1>4, <1>8 DEF TreeInv

LEMMA TreeFolds ==
    ASSUME IInv, Typed, TreeInv, NEW p \in Appliers, CommitMerges(p), UNCHANGED taggingVars
    PROVE  TreeInv'
<1>1. /\ p \in Procs /\ p \notin Taggers /\ CommitTx(p) /\ merge[p].pc = "next"
      /\ merge' = [merge EXCEPT ![p] = IdleMerge] /\ UNCHANGED job /\ FoldsOk(p)
      /\ WritesTyped(tx[p]) /\ Shape
  BY MergingAssumption, TaxonomyAssumption DEF CommitMerges, taggingVars, TreeInv, Typed, IInv
<1>2. /\ tags' = [t \in Tags |-> IF t \in DOMAIN tx[p].tags THEN tx[p].tags[t] ELSE tags[t]]
      /\ tx'[p] = NoWrites /\ \A g \in Procs \ {p} : tx'[g] = tx[g]
  BY <1>1, Committed
<1>3. edges' = [e \in Tags \X Tags |->
                IF e \in DOMAIN tx[p].edges THEN tx[p].edges[e] ELSE edges[e]]
  BY <1>1, CommittedGraph
<1>4. merge'[p].pc = "idle" /\ \A g \in Appliers \ {p} : merge'[g] = merge[g]
  BY <1>1 DEF Shape, IdleMerge
<1>5. /\ TagsLocked'
      /\ \A g \in Appliers : FoldsOk(g)'
      /\ \A g \in Procs \ Appliers : NewOk(g)'
      /\ \A g \in Appliers : Unmerged => EdgesAccounted(g)'
  BY <1>1, <1>4, CommitLeaves
<1>6. ASSUME Unmerged'
      PROVE  Unmerged /\ UNCHANGED <<tags, edges>>
  <2>1. DOMAIN tx[p].tags = {}
    BY <1>1, <1>2, <1>6 DEF FoldsOk, AllMerged, Unmerged, WritesTyped
  <2>2. UNCHANGED tags
    BY <1>2, <2>1 DEF Typed, TablesTyped
  <2>3. Unmerged
    BY <1>6, <2>2 DEF Unmerged
  <2>4. DOMAIN tx[p].edges = {}
    BY <1>1, <2>1, <2>3 DEF TreeInv, EdgesAccounted, Retiring
  <2>5. UNCHANGED edges
    BY <1>3, <2>4 DEF Typed, TablesTyped
  <2> QED
    BY <2>2, <2>3, <2>5
<1>7. ASSUME Unmerged', NEW g \in Taggers PROVE GrowsOk(g)'
  <2>1. tx'[g] = tx[g] /\ job'[g] = job[g] /\ GrowsOk(g)
    BY <1>1, <1>2, <1>6, <1>7, TaggersAreApart DEF TreeInv
  <2>2. (\A t : Exists(g, t)' = Exists(g, t)) /\ SeenEdges(g)' = SeenEdges(g)
    BY <1>6, <1>7, <2>1, SeenStays
  <2>3. Now(g)' = Now(g)
    BY <2>1 DEF Now
  <2> QED
    BY <2>1, <2>2, <2>3 DEF GrowsOk
<1>8. Unmerged' => EdgesExist' /\ NoCycleWithin(edges', MaxDepth + 1)
  BY <1>6 DEF TreeInv, EdgesExist
<1> QED
  BY <1>5, <1>6, <1>7, <1>8 DEF TreeInv

LEMMA TreeStill ==
    ASSUME TreeInv, UNCHANGED <<tags, edges, tx, job, merge>>
    PROVE  TreeInv'
<1>1. TagsLocked' /\ Unmerged' = Unmerged /\ EdgesExist' = EdgesExist
  BY DEF TreeInv, TagsLocked, Unmerged, EdgesExist
<1>2. \A p \in Appliers : FoldsOk(p)'
  BY SameFolds DEF TreeInv
<1>3. \A p \in Procs \ Appliers : NewOk(p)'
  BY DEF TreeInv, NewOk
<1>4. ASSUME Unmerged, NEW p \in Appliers PROVE EdgesAccounted(p)'
  <2>1. \A t : Exists(p, t)' = Exists(p, t)
    BY SeenStays
  <2>2. Sources(p)' = Sources(p)
    BY DEF Sources, Target, This
  <2>3. HasSource(p)' = HasSource(p)
    BY <2>1, <2>2 DEF HasSource
  <2> QED
    BY <1>4, <2>3 DEF EdgesAccounted, TreeInv
<1>5. ASSUME Unmerged, NEW p \in Taggers PROVE GrowsOk(p)'
  <2>1. (\A t : Exists(p, t)' = Exists(p, t)) /\ SeenEdges(p)' = SeenEdges(p)
    BY SeenStays
  <2>2. Now(p)' = Now(p)
    BY DEF Now
  <2> QED
    BY <1>5, <2>1, <2>2 DEF GrowsOk, TreeInv
<1> QED
  BY <1>1, <1>2, <1>3, <1>4, <1>5 DEF TreeInv

LEMMA TreeStep == IInv /\ Typed /\ TreeInv /\ OneWorker /\ [Next]_vars => TreeInv'
<1> SUFFICES ASSUME IInv, Typed, TreeInv, OneWorker, [Next]_vars PROVE TreeInv'
  OBVIOUS
<1>1. ASSUME NEW p \in Taggers, TaggingStep(p), UNCHANGED merge PROVE TreeInv'
  BY <1>1, TreeTagging, TreeGrows
<1>2. ASSUME NEW p \in Appliers, ApplierStep(p) \/ Victim(p), UNCHANGED taggingVars PROVE TreeInv'
  BY <1>2, TreeApplying, TreeFolds
<1>3. ASSUME NEW q \in Proposals, AdminApproves(q), UNCHANGED taggingVars PROVE TreeInv'
  BY <1>3, TreeStill DEF AdminApproves, taggingVars
<1>4. CASE UNCHANGED vars
  BY <1>4, TreeStill DEF vars, tagVars, tables, taggingVars
<1> QED
  BY <1>1, <1>2, <1>3, <1>4 DEF Next, Settled

LEMMA TreeInit == Init /\ StartsAcyclic => TreeInv
<1> SUFFICES ASSUME StartsAcyclic, NEW s \in Starts, TagStoreInit(s), TaggingInit(s), MergingInit
             PROVE  TreeInv
  BY DEF Init
<1>1. /\ tags = [t \in Tags |-> IF t \in s.tags THEN Active ELSE Absent]
      /\ edges = [e \in Tags \X Tags |-> e \in s.edges]
      /\ tx = [p \in Procs |-> NoWrites]
      /\ merge = [p \in Appliers |-> IdleMerge]
      /\ job = [p \in Taggers |-> IdleJob]
      /\ s.tags \subseteq Tags /\ s.edges \subseteq s.tags \X s.tags
      /\ Appliers \subseteq Procs /\ Taggers \subseteq Procs
  BY TagStoreAssumption, MergingAssumption, TaggingAssumption
     DEF TagStoreInit, MergingInit, TaggingInit
<1>2. TagsLocked
  BY <1>1, NothingInTree DEF TagsLocked
<1>3. \A p \in Appliers : FoldsOk(p) /\ EdgesAccounted(p)
  <2>1. IdleMerge.pc = "idle"
    BY DEF IdleMerge
  <2> QED
    BY <1>1, <2>1, NothingInTree DEF FoldsOk, EdgesAccounted, Statements
<1>4. \A p \in Procs \ Appliers : NewOk(p)
  BY <1>1, NothingInTree DEF NewOk
<1>5. EdgesExist
  BY <1>1 DEF EdgesExist, Active
<1>6. NoCycleWithin(edges, MaxDepth + 1)
  BY <1>1 DEF StartsAcyclic
<1>7. ASSUME NEW p \in Taggers PROVE GrowsOk(p)
  <2>1. tx[p] = NoWrites /\ job[p].pc = "idle"
    BY <1>1 DEF IdleJob
  <2>2. SeenEdges(p) = edges
    BY <1>1, <2>1, NothingInTree DEF SeenEdges, Over
  <2> QED
    BY <1>6, <2>1, <2>2, NothingInTree DEF GrowsOk
<1> QED
  BY <1>2, <1>3, <1>4, <1>5, <1>6, <1>7 DEF TreeInv

\* With one worker, link_broader closes no cycle of at most MaxDepth + 1 edges,
\* which is as far as the walk of build_descendants_stmt sees plus the edge it is
\* about to add, until a merge repoints edges: whatever the model answers, and
\* although tags and edges are written one statement after the other while
\* appliers work on merges they have not committed.  One worker, and a store
\* that begins so.
THEOREM CyclesAreLong ==
    ASSUME OneWorker, StartsAcyclic
    PROVE  Spec => []NoShortCycle
<1>1. Init => TreeInv
  BY TreeInit
<1>2. IInv /\ Typed /\ TreeInv /\ [Next]_vars => TreeInv'
  BY TreeStep
<1>3. TreeInv => NoShortCycle
  BY DEF TreeInv, Unmerged, NoCycleWithin, NoShortCycle
<1> QED
  BY <1>1, <1>2, <1>3, TaxonomyInvariant, TaxonomyTyped, PTL DEF Spec

\* What is below a tag, walk by walk.
LEMMA BelowGrows ==
    ASSUME NEW E, NEW t \in Tags
    PROVE  /\ \A m \in Nat : \A x : x \in Below(E, t, m) <=> \E n \in 1 .. m : x \in Level(E, t)[n]
           /\ \A m \in Nat : Below(E, t, m) \subseteq Tags
           /\ \A k, m \in Nat : k <= m => Below(E, t, k) \subseteq Below(E, t, m)
           /\ \A m \in Nat : Below(E, t, m + 1) = Children(E, {t} \cup Below(E, t, m))
<1> DEFINE L == Level(E, t)
<1>1. L[0] = {t} /\ \A n \in Nat : L[n] \subseteq Tags /\ L[n + 1] = Children(E, L[n])
  BY Levels
<1>2. \A m : Below(E, t, m) = UNION {L[n] : n \in 1 .. m}
  BY DEF Below
<1> HIDE DEF L
<1>3. \A m \in Nat : \A x : x \in Below(E, t, m) <=> \E n \in 1 .. m : x \in L[n]
  BY <1>2
<1>4. \A m \in Nat : Below(E, t, m) \subseteq Tags
  BY <1>1, <1>3
<1>5. \A k, m \in Nat : k <= m => Below(E, t, k) \subseteq Below(E, t, m)
  BY <1>3
<1>6. ASSUME NEW m \in Nat PROVE Below(E, t, m + 1) = Children(E, {t} \cup Below(E, t, m))
  <2>1. ASSUME NEW x \in Below(E, t, m + 1) PROVE x \in Children(E, {t} \cup Below(E, t, m))
    <3>1. PICK n \in 1 .. m + 1 : x \in L[n]
      BY <1>3
    <3>2. n - 1 \in Nat /\ n - 1 + 1 = n /\ (n - 1 = 0 \/ n - 1 \in 1 .. m)
      OBVIOUS
    <3>3. x \in Children(E, L[n - 1])
      BY <1>1, <3>1, <3>2
    <3>4. L[n - 1] \subseteq {t} \cup Below(E, t, m)
      BY <1>1, <1>3, <3>2
    <3> QED
      BY <3>3, <3>4 DEF Children
  <2>2. ASSUME NEW x \in Children(E, {t} \cup Below(E, t, m)) PROVE x \in Below(E, t, m + 1)
    <3>1. PICK b \in {t} \cup Below(E, t, m) : E[<<b, x>>] /\ x \in Tags
      BY DEF Children
    <3>2. PICK n \in 0 .. m : b \in L[n]
      <4>1. CASE b = t
        BY <1>1, <4>1
      <4>2. CASE b \in Below(E, t, m)
        BY <1>3, <4>2
      <4> QED
        BY <3>1, <4>1, <4>2
    <3>3. x \in L[n + 1]
      BY <1>1, <3>1, <3>2 DEF Children
    <3> QED
      BY <1>3, <3>2, <3>3
  <2> QED
    BY <2>1, <2>2
<1> QED
  BY <1>3, <1>4, <1>5, <1>6 DEF L

\* Among finitely many tags, whatever is below another is so within as many
\* edges as there are tags.
LEMMA AllBelow ==
    ASSUME NEW E, NEW t \in Tags, IsFiniteSet(Tags)
    PROVE  \A n \in Nat : n > 0 => Level(E, t)[n] \subseteq Below(E, t, Cardinality(Tags))
<1> DEFINE B == [m \in Nat |-> Below(E, t, m)]
           C == Cardinality(Tags)
           Stable(j) == B[j + 1] \subseteq B[j]
<1>0. \A m \in Nat : B[m] = Below(E, t, m)
  OBVIOUS
<1> HIDE DEF B
<1>1. /\ \A m \in Nat : \A x : x \in B[m] <=> \E n \in 1 .. m : x \in Level(E, t)[n]
      /\ \A m \in Nat : B[m] \subseteq Tags
      /\ \A k, m \in Nat : k <= m => B[k] \subseteq B[m]
      /\ \A m \in Nat : B[m + 1] = Children(E, {t} \cup B[m])
  <2>1. /\ \A m \in Nat : \A x : x \in Below(E, t, m) <=> \E n \in 1 .. m : x \in Level(E, t)[n]
        /\ \A m \in Nat : Below(E, t, m) \subseteq Tags
        /\ \A k, m \in Nat : k <= m => Below(E, t, k) \subseteq Below(E, t, m)
        /\ \A m \in Nat : Below(E, t, m + 1) = Children(E, {t} \cup Below(E, t, m))
    BY BelowGrows, Zenon
  <2>2. ASSUME NEW m \in Nat PROVE \A x : x \in B[m] <=> \E n \in 1 .. m : x \in Level(E, t)[n]
    BY <1>0, <2>1
  <2>3. \A m \in Nat : B[m] \subseteq Tags
    BY <1>0, <2>1
  <2>4. \A k, m \in Nat : k <= m => B[k] \subseteq B[m]
    BY <1>0, <2>1
  <2>5. ASSUME NEW m \in Nat PROVE B[m + 1] = Children(E, {t} \cup B[m])
    <3>1. B[m + 1] = Below(E, t, m + 1) /\ B[m] = Below(E, t, m)
      BY <1>0
    <3> QED
      BY <2>1, <3>1
  <2> QED
    BY <2>2, <2>3, <2>4, <2>5
<1>2. C \in Nat /\ Below(E, t, C) = B[C]
  BY <1>0, FS_CardinalityType
<1> HIDE DEF C
<1>3. ASSUME NEW j \in Nat, Stable(j) PROVE \A k \in Nat : B[j + k] \subseteq B[j]
  <2> DEFINE T == {k \in Nat : B[j + k] \subseteq B[j]}
  <2>1. 0 \in T
    OBVIOUS
  <2>2. ASSUME NEW k \in Nat, k \in T PROVE k + 1 \in T
    <3>1. /\ j + k \in Nat /\ j + (k + 1) = j + k + 1
          /\ B[j + k + 1] = Children(E, {t} \cup B[j + k])
          /\ B[j + 1] = Children(E, {t} \cup B[j])
      BY <1>1
    <3>2. B[j + k + 1] \subseteq B[j + 1]
      BY <2>2, <3>1 DEF Children
    <3>3. B[j + (k + 1)] \subseteq B[j]
      BY <1>3, <3>1, <3>2
    <3> QED
      BY <3>3
  <2> HIDE DEF T
  <2>3. Nat \subseteq T
    BY <2>1, <2>2, AllNumbers
  <2> QED
    BY <2>3 DEF T
<1>4. \A m \in Nat : IsFiniteSet(B[m]) /\ Cardinality(B[m]) \in Nat /\ Cardinality(B[m]) <= C
  BY <1>1, FS_Subset, FS_CardinalityType DEF C
<1>5. \A m \in Nat : Cardinality(B[m]) >= m \/ \E j \in Nat : j < m /\ Stable(j)
  <2> DEFINE T == {m \in Nat : Cardinality(B[m]) >= m \/ \E j \in Nat : j < m /\ Stable(j)}
  <2> HIDE DEF Stable
  <2>1. 0 \in T
    BY <1>4
  <2>2. ASSUME NEW m \in Nat, m \in T PROVE m + 1 \in T
    <3>1. CASE \E j \in Nat : j < m /\ Stable(j)
      BY <3>1
    <3>2. CASE Stable(m)
      BY <3>2
    <3>3. CASE ~Stable(m) /\ Cardinality(B[m]) >= m
      <4>1. B[m] \subseteq B[m + 1] /\ B[m] # B[m + 1]
        BY <1>1, <3>3 DEF Stable
      <4>2. Cardinality(B[m]) < Cardinality(B[m + 1])
        BY <1>4, <4>1, FS_Subset
      <4> QED
        BY <1>4, <3>3, <4>2
    <3> QED
      BY <2>2, <3>1, <3>2, <3>3
  <2> HIDE DEF T
  <2>3. Nat \subseteq T
    BY <2>1, <2>2, AllNumbers
  <2> QED
    BY <2>3 DEF T
<1>6. \A n \in Nat : B[n] \subseteq B[C]
  <2> TAKE n \in Nat
  <2>1. CASE Cardinality(B[C]) >= C
    <3>1. Cardinality(Tags) = Cardinality(B[C])
      BY <1>2, <1>4, <2>1 DEF C
    <3>2. B[C] = Tags
      BY <1>1, <1>2, <3>1, FS_Subset
    <3> QED
      BY <1>1, <3>2
  <2>2. ASSUME NEW j \in Nat, j < C, Stable(j) PROVE B[n] \subseteq B[C]
    <3>1. CASE n <= j
      BY <1>1, <1>2, <2>2, <3>1
    <3>2. CASE n > j
      <4>1. n - j \in Nat /\ j + (n - j) = n
        BY <3>2
      <4>2. B[n] \subseteq B[j]
        BY <1>3, <2>2, <4>1
      <4> QED
        BY <1>1, <1>2, <2>2, <4>2
    <3> QED
      BY <3>1, <3>2
  <2> QED
    BY <1>2, <1>5, <2>1, <2>2
<1>7. \A n \in Nat : n > 0 => Level(E, t)[n] \subseteq B[n]
  BY <1>1
<1> QED
  BY <1>2, <1>6, <1>7 DEF C

\* No tag is back at itself, however long the walk.
NoCycle(E) == \A t \in Tags : \A n \in Nat \ {0} : t \notin Level(E, t)[n]

\* With no more tags than MaxDepth + 1, and as long as no merge repoints edges,
\* link_broader keeps the hierarchy acyclic: descendants then sees everything below
\* the child.  One worker, and a store that begins without a short cycle.
THEOREM SmallHierarchiesAreAcyclic ==
    ASSUME OneWorker, StartsAcyclic, IsFiniteSet(Tags), Cardinality(Tags) <= MaxDepth + 1
    PROVE  Spec => [](Unmerged => NoCycle(edges))
<1>1. Cardinality(Tags) \in Nat /\ MaxDepth \in Nat
  BY FS_CardinalityType, TaggingAssumption
<1>2. NoShortCycle => (Unmerged => NoCycle(edges))
  <2> SUFFICES ASSUME NoShortCycle, Unmerged, NEW t \in Tags, NEW n \in Nat \ {0},
                      t \in Level(edges, t)[n]
               PROVE  FALSE
    BY DEF NoCycle
  <2>1. t \in Below(edges, t, Cardinality(Tags))
    BY AllBelow
  <2>2. t \in Below(edges, t, MaxDepth + 1)
    BY <1>1, <2>1, BelowGrows
  <2> QED
    BY <2>2 DEF NoShortCycle, Unmerged
<1> QED
  BY <1>2, CyclesAreLong, PTL

(***************************************************************************)
(* Assignments.                                                            *)
(***************************************************************************)

\* No two proposals that can be applied overlap, but for their targets: what one
\* folds, no other folds or folds into.
ProposalsApart ==
    \A q, r \in Proposals : q # r /\ Applicable(q) /\ Applicable(r) =>
        (SourcesOf[q] \ {TargetOf[q]}) \cap (SourcesOf[r] \cup {TargetOf[r]}) = {}

\* A store that begins with proposals to decide or apply has no classification
\* to come.
ReviewsAlone ==
    \A s \in Starts :
        s.runs = MaxRuns \/ \A q \in Proposals : s.status[q] = "rejected"

\* The tags proposal r folds, if it can be applied.
Folding(r) == IF Applicable(r) THEN SourcesOf[r] \ {TargetOf[r]} ELSE {}

\* An assignment deleted by w is carried over in w, to the target of a proposal
\* that w records as having folded the tag, or of one in Q.
Carried(w, Q) ==
    \A i \in Items, t \in Tags :
        <<i, t>> \in DOMAIN w.links /\ w.links[<<i, t>>] = 0 /\ links[<<i, t>>] > 0 =>
            \E r \in Proposals :
                /\ t \in Folding(r)
                /\ <<i, TargetOf[r]>> \in DOMAIN w.links
                /\ w.links[<<i, TargetOf[r]>>] >= links[<<i, t>>]
                /\ r \in Q \/ (t \in DOMAIN w.tags /\ w.tags[t].into = TargetOf[r])

\* What w assigns, it assigns to targets.
ToTargets(w) ==
    \A i \in Items, t \in Tags :
        <<i, t>> \in DOMAIN w.links /\ w.links[<<i, t>>] > 0 =>
            \E r \in Proposals : Applicable(r) /\ t = TargetOf[r]

\* While links are on the move, every one left to be deleted is either still to
\* be moved or there already.
UnderWay(p) ==
    \A i \in Items, t \in Sources(p) :
        <<i, t>> \notin DOMAIN tx[p].links /\ links[<<i, t>>] > 0 =>
            \/ <<<<i, t>>, links[<<i, t>>]>> \in merge[p].rows
            \/ /\ <<i, Target(p)>> \in DOMAIN tx[p].links
               /\ tx[p].links[<<i, Target(p)>>] >= links[<<i, t>>]

\* The proposal whose links are gone and whose tags are not retired yet.
InHand(p) == IF merge[p].pc \in {"edges", "repoint", "unlink", "retire"} THEN {This(p)} ELSE {}

CarriesOk(p) ==
    /\ ToTargets(tx[p]) /\ Carried(tx[p], InHand(p))
    /\ merge[p].pc \in Statements =>
         /\ Applicable(This(p))
         /\ ToTargets(merge[p].saved) /\ Carried(merge[p].saved, {})
         /\ DOMAIN merge[p].saved.links \subseteq DOMAIN tx[p].links
    /\ merge[p].pc \in {"move", "drop"} => UnderWay(p)
    /\ merge[p].pc = "drop" => merge[p].rows = {}

LinksLocked ==
    \A p, g \in Appliers : p # g => DOMAIN tx[p].links \cap DOMAIN tx[g].links = {}

\* An assignment of a tag that may be folded is one of a tag there is.
FoldedExist ==
    \A i \in Items, t \in Tags, r \in Proposals :
        links[<<i, t>>] > 0 /\ t \in Folding(r) => tags[t].status # "absent"

\* Nothing is left to be reviewed.
NoReview ==
    /\ \A q \in Proposals : proposals[q].status = "rejected"
    /\ \A p \in Appliers : AtRest(p) /\ DOMAIN tx[p].proposals = {}

\* No worker runs any more.
NoWorker ==
    /\ \A p \in Taggers : job[p].pc = "idle"
    /\ runs = MaxRuns

\* Workers only add assignments.
AddsOnly(p) == \A k \in DOMAIN tx[p].links : tx[p].links[k] > 0

\* Proposals are reviewed and no worker runs.
OnlyReview ==
    /\ NoWorker
    /\ LinksLocked
    /\ FoldedExist
    /\ \A p \in Appliers : CarriesOk(p)

LinksInv ==
    /\ \A p \in Taggers : AddsOnly(p)
    /\ NoReview \/ OnlyReview

\* A tag is folded by one proposal, and into none that is folded itself.
LEMMA FoldedOnce ==
    ASSUME ProposalsApart, NEW q \in Proposals, NEW r \in Proposals, NEW t \in Folding(r)
    PROVE  /\ Applicable(q) => t # TargetOf[q]
           /\ t \in Folding(q) => q = r
BY DEF ProposalsApart, Folding

LEMMA NoLinks ==
    ASSUME NEW Q
    PROVE  ToTargets(NoWrites) /\ Carried(NoWrites, Q) /\ DOMAIN NoWrites.links = {}
BY DEF NoWrites, ToTargets, Carried

\* What p sees of an assignment.
LEMMA LinkSeen ==
    ASSUME Typed, NEW p \in Procs, NEW i \in Items, NEW t \in Tags
    PROVE  /\ SeenLinks(p)[<<i, t>>] =
                IF <<i, t>> \in DOMAIN tx[p].links THEN tx[p].links[<<i, t>>] ELSE links[<<i, t>>]
           /\ SeenLinks(p)[<<i, t>>] \in Nat /\ links[<<i, t>>] \in Nat
           /\ <<i, t>> \in DOMAIN tx[p].links => tx[p].links[<<i, t>>] \in Nat
<1>1. MaxConf \in Nat
  BY TagStoreAssumption
<1>2. SeenLinks(p)[<<i, t>>] =
        IF <<i, t>> \in DOMAIN tx[p].links THEN tx[p].links[<<i, t>>] ELSE links[<<i, t>>]
  BY DEF SeenLinks, Over, Typed, TablesTyped
<1>3. links[<<i, t>>] \in Nat
  BY <1>1 DEF Typed, TablesTyped
<1>4. <<i, t>> \in DOMAIN tx[p].links => tx[p].links[<<i, t>>] \in Nat
  BY <1>1 DEF Typed, WritesTyped
<1> QED
  BY <1>2, <1>3, <1>4

\* A step of p that commits nothing, while proposals are reviewed.
LEMMA LinksOthers ==
    ASSUME IInv, Typed, LinksInv, OnlyReview, NEW p \in Appliers, Step(p),
           UNCHANGED <<tags, links, job, runs>>,
           \A k \in DOMAIN tx'[p].links :
             k \in DOMAIN tx[p].links \/ \A g \in Procs \ {p} : k \notin DOMAIN tx[g].links,
           CarriesOk(p)'
    PROVE  LinksInv'
<1>1. p \in Procs /\ p \notin Taggers /\ \A g \in Procs \ {p} : tx'[g] = tx[g]
  BY MergingAssumption, TaxonomyAssumption DEF Step, OthersKeep
<1>2. \A g \in Taggers : AddsOnly(g)'
  BY <1>1, TaggersAreApart DEF LinksInv, AddsOnly
<1>3. NoWorker' /\ FoldedExist'
  BY DEF OnlyReview, NoWorker, FoldedExist
<1>4. LinksLocked'
  BY <1>1, MergingAssumption DEF OnlyReview, LinksLocked
<1>5. ASSUME NEW g \in Appliers PROVE CarriesOk(g)'
  <2>1. CASE g = p
    BY <2>1
  <2>2. CASE g # p
    <3>1. tx'[g] = tx[g] /\ merge'[g] = merge[g] /\ CarriesOk(g)
      BY <1>1, <2>2, MergingAssumption DEF Step, OnlyReview
    <3>2. This(g)' = This(g) /\ Sources(g)' = Sources(g) /\ Target(g)' = Target(g)
          /\ InHand(g)' = InHand(g)
      BY <3>1 DEF This, Sources, Target, InHand
    <3>3. /\ ToTargets(tx[g])' /\ Carried(tx[g], InHand(g))'
      BY <3>1, <3>2 DEF CarriesOk, ToTargets, Carried
    <3>4. ToTargets(merge[g].saved) /\ Carried(merge[g].saved, {}) =>
            ToTargets(merge[g].saved)' /\ Carried(merge[g].saved, {})'
      BY <3>1 DEF ToTargets, Carried
    <3>5. UnderWay(g) => UnderWay(g)'
      BY <3>1, <3>2 DEF UnderWay
    <3> QED
      BY <3>1, <3>2, <3>3, <3>4, <3>5 DEF CarriesOk
  <2> QED
    BY <2>1, <2>2
<1> QED
  BY <1>2, <1>3, <1>4, <1>5 DEF LinksInv, OnlyReview

LEMMA LinksApplying ==
    ASSUME IInv, Typed, LinksInv, ProposalsApart, OnlyReview, NEW p \in Appliers,
           ApplierStep(p) \/ Victim(p), ~CommitMerges(p), UNCHANGED taggingVars
    PROVE  LinksInv'
<1> DEFINE m == merge[p]
           w == tx[p]
           u == tx'[p]
           q == This(p)
<1>1. Step(p) /\ UNCHANGED tables /\ ApplierMoves(p)
  BY ApplierMovesSo
<1>2. /\ p \in Procs /\ Shape /\ CarriesOk(p) /\ FoldedExist /\ WritesTyped(w)
      /\ ToTargets(w) /\ Carried(w, InHand(p))
      /\ UNCHANGED <<tags, links, job, runs>>
      /\ m.pc \in Statements => m.todo # <<>> /\ Applicable(q)
      /\ m.todo # <<>> => q \in Proposals /\ Target(p) \in Tags /\ Sources(p) \in SUBSET Tags
      /\ m.pc \in {"idle", "dead", "next"} \cup Statements
      /\ m.rows \subseteq (Items \X Tags) \X (1 .. MaxConf)
  BY <1>1, AtHand DEF OnlyReview, CarriesOk, tables, taggingVars
<1>3. ASSUME \A k \in DOMAIN u.links :
               k \in DOMAIN w.links \/ \A g \in Procs \ {p} : k \notin DOMAIN tx[g].links,
             CarriesOk(p)'
      PROVE  LinksInv'
  BY <1>1, <1>2, <1>3, LinksOthers
<1>4. m.todo # <<>> /\ Applicable(q) => Sources(p) = Folding(q) /\ Target(p) = TargetOf[q]
  BY DEF Sources, Target, Folding
\* The statements of a merge: the proposal and the savepoint stay.
<1>5. ASSUME m.pc \in Statements, NEW pc \in Statements, Goes(p, pc),
             \A k \in DOMAIN w.links : k \in DOMAIN u.links,
             \A k \in DOMAIN u.links :
               k \in DOMAIN w.links \/ \A g \in Procs \ {p} : k \notin DOMAIN tx[g].links,
             ToTargets(u),
             Carried(u, IF pc \in {"edges", "repoint", "unlink", "retire"} THEN {q} ELSE {}),
             pc \in {"move", "drop"} => UnderWay(p)', pc = "drop" => merge'[p].rows = {}
      PROVE  LinksInv'
  <2>1. /\ merge'[p].pc = pc /\ merge'[p].todo = m.todo /\ merge'[p].saved = m.saved
        /\ This(p)' = q
    BY <1>5 DEF Goes, This
  <2>2. InHand(p)' = IF pc \in {"edges", "repoint", "unlink", "retire"} THEN {q} ELSE {}
    BY <2>1 DEF InHand
  <2>3. ToTargets(tx[p])' /\ Carried(tx[p], InHand(p))'
    BY <1>2, <1>5, <2>2 DEF ToTargets, Carried
  <2>4. ToTargets(merge[p].saved)' /\ Carried(merge[p].saved, {})'
    BY <1>2, <1>5, <2>1 DEF CarriesOk, ToTargets, Carried
  <2>5. DOMAIN m.saved.links \subseteq DOMAIN u.links /\ Applicable(q)
    BY <1>2, <1>5 DEF CarriesOk
  <2>6. CarriesOk(p)'
    BY <1>5, <2>1, <2>3, <2>4, <2>5 DEF CarriesOk
  <2> QED
    BY <1>3, <1>5, <2>6
\* ... and if they leave assignments alone, only how far it is.
<1>6. ASSUME m.pc \in {"edges", "repoint", "unlink"}, NEW pc \in {"repoint", "unlink", "retire"},
             Goes(p, pc), u.tags = w.tags, u.links = w.links
      PROVE  LinksInv'
  <2>1. Carried(w, {q})
    BY <1>2, <1>6 DEF InHand
  <2>2. ToTargets(u) /\ Carried(u, {q})
    BY <1>2, <1>6, <2>1 DEF ToTargets, Carried
  <2> QED
    BY <1>5, <1>6, <2>2 DEF Statements
<1>7. CASE TurnsPage(p)
  <2>1. /\ u.tags = w.tags /\ u.links = w.links /\ merge'[p].pc = "next"
        /\ m.pc \notin {"edges", "repoint", "unlink", "retire"}
    BY <1>7 DEF TurnsPage, Keeps, Statements
  <2>2. InHand(p) = {} /\ InHand(p)' = {}
    BY <2>1 DEF InHand
  <2>3. ToTargets(tx[p])' /\ Carried(tx[p], InHand(p))'
    BY <1>2, <2>1, <2>2 DEF ToTargets, Carried
  <2>4. CarriesOk(p)'
    BY <2>1, <2>3 DEF CarriesOk, Statements
  <2> QED
    BY <1>3, <2>1, <2>4
<1>8. CASE Begins(p)
  <2>1. /\ u = w /\ m.pc = "next" /\ m.todo # <<>> /\ Applicable(q)
        /\ merge'[p].todo = m.todo /\ merge'[p].saved = w /\ merge'[p].rows = Selected(p)
        /\ merge'[p].pc = IF Selected(p) = {} THEN "edges" ELSE "move"
    BY <1>8 DEF Begins
  <2>2. This(p)' = q /\ Sources(p)' = Sources(p) /\ Target(p)' = Target(p)
    BY <2>1 DEF This, Sources, Target
  <2>3. InHand(p) = {} /\ InHand(p)' \in {{}, {q}}
    BY <2>1, <2>2 DEF InHand
  <2>4. ToTargets(tx[p])' /\ Carried(tx[p], {})' /\ Carried(tx[p], InHand(p))'
    BY <1>2, <2>1, <2>3 DEF ToTargets, Carried
  <2>5. ToTargets(merge[p].saved)' /\ Carried(merge[p].saved, {})'
    BY <1>2, <2>1, <2>3 DEF ToTargets, Carried
  <2>6. UnderWay(p)'
    <3> SUFFICES ASSUME NEW i \in Items, NEW t \in Sources(p),
                        <<i, t>> \notin DOMAIN w.links, links[<<i, t>>] > 0
                 PROVE  <<<<i, t>>, links[<<i, t>>]>> \in Selected(p)
      BY <1>2, <2>1, <2>2 DEF UnderWay
    <3>1. t \in Tags
      BY <1>2, <2>1
    <3>2. SeenLinks(p)[<<i, t>>] = links[<<i, t>>]
      BY <1>2, <3>1, LinkSeen
    <3>3. <<i, t>> \in LinksOf(p, Sources(p))
      BY <3>2 DEF LinksOf
    <3> QED
      BY <3>2, <3>3 DEF Selected
  <2>7. CarriesOk(p)'
    BY <2>1, <2>2, <2>4, <2>5, <2>6 DEF CarriesOk
  <2> QED
    BY <1>3, <2>1, <2>7
<1>9. ASSUME NEW r, Moves(p, r) PROVE LinksInv'
  <2> DEFINE i == r[1][1]
             k == Moved(p, r)
             v == IF SeenLinks(p)[k] > r[2] THEN SeenLinks(p)[k] ELSE r[2]
  <2>1. /\ m.pc = "move" /\ r \in m.rows /\ Free(p, LinkKeys({k}))
        /\ u.links = Put(w.links, {k}, v) /\ u.tags = w.tags
        /\ Goes(p, IF m.rows = {r} THEN "drop" ELSE "move") /\ merge'[p].rows = m.rows \ {r}
    BY <1>9 DEF Moves, PutsLinks
  <2>2. /\ m.todo # <<>> /\ Applicable(q) /\ q \in Proposals /\ Target(p) \in Tags
        /\ Sources(p) \in SUBSET Tags /\ UnderWay(p) /\ InHand(p) = {}
    BY <1>2, <2>1 DEF Statements, CarriesOk, InHand
  <2>3. /\ i \in Items /\ r[1] \in Items \X Tags /\ r[2] \in Nat /\ r[2] > 0
        /\ r = <<r[1], r[2]>> /\ k = <<i, Target(p)>>
    BY <1>2, <2>1, TagStoreAssumption DEF Moved
  <2>4. /\ v \in Nat /\ v >= r[2] /\ v > 0
        /\ k \in DOMAIN w.links => v >= w.links[k]
    <3>1. /\ SeenLinks(p)[k] \in Nat
          /\ k \in DOMAIN w.links => SeenLinks(p)[k] = w.links[k]
      BY <1>2, <2>2, <2>3, LinkSeen
    <3> QED
      BY <2>3, <3>1
  <2>5. \A g \in Procs \ {p} : k \notin DOMAIN tx[g].links
    BY <2>1 DEF Free, Locks, LinkKeys
  <2> HIDE DEF v, k, i
  <2>6. /\ DOMAIN u.links = DOMAIN w.links \cup {k} /\ u.links[k] = v
        /\ \A l \in DOMAIN w.links : l # k => u.links[l] = w.links[l]
    BY <2>1 DEF Put
  <2>7. ToTargets(u)
    <3> SUFFICES ASSUME NEW j \in Items, NEW t \in Tags, <<j, t>> \in DOMAIN u.links,
                        u.links[<<j, t>>] > 0
                 PROVE  \E x \in Proposals : Applicable(x) /\ t = TargetOf[x]
      BY DEF ToTargets
    <3>1. CASE <<j, t>> = k
      BY <2>2, <2>3, <3>1 DEF Target
    <3>2. CASE <<j, t>> # k
      BY <1>2, <2>6, <3>2 DEF ToTargets
    <3> QED
      BY <3>1, <3>2
  <2>8. \A l \in Items \X Tags : l \in DOMAIN w.links /\ w.links[l] > 0 =>
          l \in DOMAIN u.links /\ u.links[l] >= w.links[l]
    BY <1>2, <2>4, <2>6, TagStoreAssumption DEF WritesTyped
  <2>9. Carried(u, {})
    <3> SUFFICES ASSUME NEW j \in Items, NEW t \in Tags, <<j, t>> \in DOMAIN u.links,
                        u.links[<<j, t>>] = 0, links[<<j, t>>] > 0
                 PROVE  \E x \in Proposals :
                          /\ t \in Folding(x) /\ <<j, TargetOf[x]>> \in DOMAIN u.links
                          /\ u.links[<<j, TargetOf[x]>>] >= links[<<j, t>>]
                          /\ t \in DOMAIN u.tags /\ u.tags[t].into = TargetOf[x]
      BY DEF Carried
    <3>1. <<j, t>> # k
      BY <2>4, <2>6
    <3>2. <<j, t>> \in DOMAIN w.links /\ w.links[<<j, t>>] = 0
      BY <2>6, <3>1
    <3>3. PICK x \in Proposals :
            /\ t \in Folding(x) /\ <<j, TargetOf[x]>> \in DOMAIN w.links
            /\ w.links[<<j, TargetOf[x]>>] >= links[<<j, t>>]
            /\ t \in DOMAIN w.tags /\ w.tags[t].into = TargetOf[x]
      BY <1>2, <2>2, <3>2 DEF Carried
    <3>4. TargetOf[x] \in Tags /\ links[<<j, t>>] \in Nat /\ w.links[<<j, TargetOf[x]>>] \in Nat
      BY <1>2, <3>3, LinkSeen, TagStoreAssumption
    <3>5. u.links[<<j, TargetOf[x]>>] \in Nat
      BY <2>4, <2>6, <3>3, <3>4
    <3>6. w.links[<<j, TargetOf[x]>>] > 0
      BY <3>3, <3>4
    <3>7. /\ <<j, TargetOf[x]>> \in DOMAIN u.links
          /\ u.links[<<j, TargetOf[x]>>] >= w.links[<<j, TargetOf[x]>>]
      BY <2>8, <3>3, <3>4, <3>6
    <3>8. u.links[<<j, TargetOf[x]>>] >= links[<<j, t>>]
      BY <3>3, <3>4, <3>5, <3>7
    <3> QED
      BY <2>1, <3>3, <3>7, <3>8
  <2>10. UnderWay(p)'
    <3>1. Sources(p)' = Sources(p) /\ Target(p)' = Target(p)
      BY <2>1 DEF Goes, Sources, Target, This
    <3> SUFFICES ASSUME NEW j \in Items, NEW t \in Sources(p),
                        <<j, t>> \notin DOMAIN u.links, links[<<j, t>>] > 0
                 PROVE  \/ <<<<j, t>>, links[<<j, t>>]>> \in m.rows \ {r}
                        \/ /\ <<j, Target(p)>> \in DOMAIN u.links
                           /\ u.links[<<j, Target(p)>>] >= links[<<j, t>>]
      BY <1>2, <2>1, <3>1 DEF UnderWay
    <3>2. \/ <<<<j, t>>, links[<<j, t>>]>> \in m.rows
          \/ /\ <<j, Target(p)>> \in DOMAIN w.links
             /\ w.links[<<j, Target(p)>>] >= links[<<j, t>>]
      BY <2>2, <2>6 DEF UnderWay
    <3>3. CASE <<<<j, t>>, links[<<j, t>>]>> = r
      <4>1. j = i /\ links[<<j, t>>] = r[2]
        BY <3>3 DEF i
      <4> QED
        BY <2>3, <2>4, <2>6, <4>1
    <3>4. CASE <<j, Target(p)>> \in DOMAIN w.links /\ w.links[<<j, Target(p)>>] >= links[<<j, t>>]
      <4>1. /\ links[<<j, t>>] \in Nat /\ w.links[<<j, Target(p)>>] \in Nat
        BY <1>2, <2>2, <3>4, LinkSeen
      <4>2. u.links[<<j, Target(p)>>] \in Nat
        BY <2>4, <2>6, <3>4, <4>1
      <4> QED
        BY <2>2, <2>8, <3>4, <4>1, <4>2
    <3> QED
      BY <3>2, <3>3, <3>4
  <2> DEFINE pc == IF m.rows = {r} THEN "drop" ELSE "move"
  <2>11. pc \in Statements /\ m.pc \in Statements
         /\ pc \notin {"edges", "repoint", "unlink", "retire"}
    BY <2>1 DEF Statements
  <2>12. pc = "drop" => merge'[p].rows = {}
    BY <2>1
  <2>13. Goes(p, pc)
    BY <2>1
  <2> HIDE DEF pc
  <2> QED
    BY <1>5, <2>5, <2>6, <2>7, <2>9, <2>10, <2>11, <2>12, <2>13
<1>10. CASE Drops(p)
  <2> DEFINE K == LinksOf(p, Sources(p))
  <2>1. /\ m.pc = "drop" /\ Free(p, LinkKeys(K)) /\ u.links = Put(w.links, K, 0)
        /\ u.tags = w.tags /\ Goes(p, "edges")
    BY <1>10 DEF Drops, PutsLinks
  <2>2. /\ m.todo # <<>> /\ Applicable(q) /\ q \in Proposals /\ Target(p) \in Tags
        /\ Sources(p) \in SUBSET Tags /\ UnderWay(p) /\ InHand(p) = {} /\ m.rows = {}
        /\ Sources(p) = Folding(q) /\ Target(p) = TargetOf[q]
    BY <1>2, <1>4, <2>1 DEF Statements, CarriesOk, InHand
  <2>3. \A g \in Procs \ {p} : \A k \in K : k \notin DOMAIN tx[g].links
    BY <2>1 DEF Free, Locks, LinkKeys
  <2>4. \A j \in Items, t \in Tags :
          <<j, t>> \in K <=> t \in Sources(p) /\ SeenLinks(p)[<<j, t>>] > 0
    BY DEF LinksOf
  <2> HIDE DEF K
  <2>5. /\ DOMAIN u.links = DOMAIN w.links \cup K /\ \A k \in K : u.links[k] = 0
        /\ \A k \in DOMAIN w.links : k \notin K => u.links[k] = w.links[k]
    BY <2>1 DEF Put
  <2>6. ToTargets(u)
    <3> SUFFICES ASSUME NEW j \in Items, NEW t \in Tags, <<j, t>> \in DOMAIN u.links,
                        u.links[<<j, t>>] > 0
                 PROVE  \E x \in Proposals : Applicable(x) /\ t = TargetOf[x]
      BY DEF ToTargets
    <3>1. <<j, t>> \notin K
      BY <2>5
    <3> QED
      BY <1>2, <2>5, <3>1 DEF ToTargets
  <2>7. \A j \in Items, x \in Proposals : Applicable(x) => <<j, TargetOf[x]>> \notin K
    BY <2>2, <2>4, FoldedOnce, TagStoreAssumption
  <2>8. Carried(u, {q})
    <3> SUFFICES ASSUME NEW j \in Items, NEW t \in Tags, <<j, t>> \in DOMAIN u.links,
                        u.links[<<j, t>>] = 0, links[<<j, t>>] > 0
                 PROVE  \E x \in Proposals :
                          /\ t \in Folding(x) /\ <<j, TargetOf[x]>> \in DOMAIN u.links
                          /\ u.links[<<j, TargetOf[x]>>] >= links[<<j, t>>]
                          /\ x = q \/ (t \in DOMAIN u.tags /\ u.tags[t].into = TargetOf[x])
      BY DEF Carried
    <3>1. CASE <<j, t>> \in K
      <4>1. t \in Sources(p) /\ SeenLinks(p)[<<j, t>>] > 0
        BY <2>4, <3>1
      <4>2. <<j, t>> \notin DOMAIN w.links
        <5> SUFFICES ASSUME <<j, t>> \in DOMAIN w.links PROVE FALSE
          OBVIOUS
        <5>1. w.links[<<j, t>>] > 0
          BY <1>2, <4>1, LinkSeen
        <5>2. PICK x \in Proposals : Applicable(x) /\ t = TargetOf[x]
          BY <1>2, <5>1 DEF ToTargets
        <5> QED
          BY <2>2, <4>1, <5>2, FoldedOnce
      <4>3. <<j, Target(p)>> \in DOMAIN w.links /\ w.links[<<j, Target(p)>>] >= links[<<j, t>>]
        BY <2>2, <4>1, <4>2 DEF UnderWay
      <4> QED
        BY <2>2, <2>5, <2>7, <4>1, <4>3
    <3>2. CASE <<j, t>> \notin K
      <4>1. PICK x \in Proposals :
              /\ t \in Folding(x) /\ <<j, TargetOf[x]>> \in DOMAIN w.links
              /\ w.links[<<j, TargetOf[x]>>] >= links[<<j, t>>]
              /\ t \in DOMAIN w.tags /\ w.tags[t].into = TargetOf[x]
        BY <1>2, <2>2, <2>5, <3>2 DEF Carried
      <4>2. Applicable(x)
        BY <4>1 DEF Folding
      <4> QED
        BY <2>1, <2>5, <2>7, <4>1, <4>2
    <3> QED
      BY <3>1, <3>2
  <2> QED
    BY <1>5, <2>1, <2>3, <2>5, <2>6, <2>8 DEF Statements
<1>11. CASE Selects(p)
  <2>1. u.tags = w.tags /\ u.links = w.links /\ m.pc = "edges"
    BY <1>11 DEF Selects, Keeps
  <2>2. PICK pc \in {"unlink", "repoint"} : Goes(p, pc)
    BY <1>11 DEF Selects
  <2> QED
    BY <1>6, <2>1, <2>2
<1>12. CASE Repoints(p)
  <2>1. u.tags = w.tags /\ u.links = w.links /\ m.pc = "repoint"
    BY <1>12 DEF Repoints, Keeps, PutsEdges
  <2>2. PICK pc \in {"repoint", "unlink"} : Goes(p, pc)
    BY <1>12 DEF Repoints
  <2> QED
    BY <1>6, <2>1, <2>2
<1>13. CASE Unlinks(p)
  <2>1. u.tags = w.tags /\ u.links = w.links /\ m.pc = "unlink" /\ Goes(p, "retire")
    BY <1>13 DEF Unlinks, PutsEdges
  <2> QED
    BY <1>6, <2>1
<1>14. CASE Retires(p)
  <2> DEFINE K == {t \in Sources(p) : Exists(p, t)}
             v == [status |-> "merged", into |-> Target(p)]
  <2>1. /\ m.pc = "retire" /\ u.tags = Put(w.tags, K, v) /\ u.links = w.links /\ Goes(p, "mark")
    BY <1>14 DEF Retires, PutsTags
  <2>2. /\ m.todo # <<>> /\ Applicable(q) /\ q \in Proposals
        /\ Sources(p) \in SUBSET Tags /\ Carried(w, {q})
        /\ Sources(p) = Folding(q) /\ Target(p) = TargetOf[q]
    BY <1>2, <1>4, <2>1 DEF Statements, InHand
  <2>3. v.into = Target(p) /\ \A t : t \in K <=> t \in Sources(p) /\ Exists(p, t)
    OBVIOUS
  <2> HIDE DEF K, v
  <2>4. /\ DOMAIN u.tags = DOMAIN w.tags \cup K /\ \A t \in K : u.tags[t] = v
        /\ \A t \in DOMAIN w.tags : t \notin K => u.tags[t] = w.tags[t]
    BY <2>1 DEF Put
  <2>5. ToTargets(u)
    BY <1>2, <2>1 DEF ToTargets
  <2>6. Carried(u, {})
    <3> SUFFICES ASSUME NEW j \in Items, NEW t \in Tags, <<j, t>> \in DOMAIN w.links,
                        w.links[<<j, t>>] = 0, links[<<j, t>>] > 0
                 PROVE  \E x \in Proposals :
                          /\ t \in Folding(x) /\ <<j, TargetOf[x]>> \in DOMAIN w.links
                          /\ w.links[<<j, TargetOf[x]>>] >= links[<<j, t>>]
                          /\ t \in DOMAIN u.tags /\ u.tags[t].into = TargetOf[x]
      BY <2>1 DEF Carried
    <3>1. PICK x \in Proposals :
            /\ t \in Folding(x) /\ <<j, TargetOf[x]>> \in DOMAIN w.links
            /\ w.links[<<j, TargetOf[x]>>] >= links[<<j, t>>]
            /\ x = q \/ (t \in DOMAIN w.tags /\ w.tags[t].into = TargetOf[x])
      BY <2>2 DEF Carried
    <3>2. CASE t \in K
      <4>1. x = q
        BY <2>2, <2>3, <3>1, <3>2, FoldedOnce
      <4> QED
        BY <2>2, <2>3, <2>4, <3>1, <3>2, <4>1
    <3>3. CASE t \notin K
      <4>1. Exists(p, t)
        <5>1. tags[t].status # "absent"
          BY <1>2, <3>1 DEF FoldedExist
        <5> QED
          BY <1>2, <5>1 DEF Exists, SeenTags, Over, Typed, TablesTyped, WritesTyped
      <4>2. x # q
        BY <2>2, <2>3, <3>1, <3>3, <4>1
      <4> QED
        BY <2>4, <3>1, <3>3, <4>2
    <3> QED
      BY <3>2, <3>3
  <2> QED
    BY <1>5, <2>1, <2>5, <2>6 DEF Statements
<1>15. ASSUME m.pc \in Statements, u = m.saved, merge'[p].pc = "next"
       PROVE  LinksInv'
  <2>1. /\ ToTargets(m.saved) /\ Carried(m.saved, {})
        /\ DOMAIN m.saved.links \subseteq DOMAIN w.links
    BY <1>2, <1>15 DEF CarriesOk
  <2>2. InHand(p)' = {}
    BY <1>15 DEF InHand
  <2>3. ToTargets(tx[p])' /\ Carried(tx[p], InHand(p))'
    BY <1>2, <1>15, <2>1, <2>2 DEF ToTargets, Carried
  <2>4. CarriesOk(p)'
    BY <1>15, <2>3 DEF CarriesOk, Statements
  <2> QED
    BY <1>3, <1>15, <2>1, <2>4
<1>16. ASSUME u = NoWrites, merge'[p].pc = "dead"
       PROVE  LinksInv'
  <2>1. ToTargets(tx[p])' /\ Carried(tx[p], InHand(p))'
    BY <1>16 DEF ToTargets, Carried, NoWrites
  <2>2. CarriesOk(p)'
    BY <1>16, <2>1 DEF CarriesOk, Statements
  <2> QED
    BY <1>3, <1>16, <2>2, NoLinks
<1> QED
  BY <1>1, <1>7, <1>8, <1>9, <1>10, <1>11, <1>12, <1>13, <1>14, <1>15, <1>16
     DEF ApplierMoves, Undoes

\* Nobody applies or decides anything when there is nothing left to be reviewed.
LEMMA NothingToDo ==
    ASSUME IInv, NEW p \in Appliers, ApplierStep(p) \/ Victim(p)
    PROVE  ~NoReview
<1> SUFFICES ASSUME NoReview PROVE FALSE
  OBVIOUS
<1>1. /\ AtRest(p) /\ p \in Procs /\ Shape /\ Limit \in Nat
      /\ \A q \in Proposals : SeenProposals(p)[q].status = "rejected"
  BY MergingAssumption DEF NoReview, SeenProposals, Over, IInv, Shape
<1>2. ASSUME NEW q \in Proposals, NEW verdict, Decide(p, q, verdict) PROVE FALSE
  BY <1>1, <1>2 DEF Decide
<1>3. CASE ListApproved(p)
  <2> DEFINE approved == {q \in Proposals : SeenProposals(p)[q].status = "approved"}
             size == IF Cardinality(approved) < Limit THEN Cardinality(approved) ELSE Limit
  <2>1. approved = {} /\ size > 0
    BY <1>1, <1>3 DEF ListApproved
  <2> HIDE DEF approved
  <2>2. Cardinality(approved) = 0
    BY <2>1, FS_EmptySet
  <2> QED
    BY <1>1, <2>1, <2>2
<1> QED
  BY <1>1, <1>2, <1>3 DEF ApplierStep, Victim, ApplierProgress, MergeStatement, AtRest,
     StartMerge, SkipInapplicable, MoveLink, DropLinks, SelectEdges, RepointEdge,
     UnlinkSources, RetireSources, MarkApplied, CommitMerges, ApplierDies

LEMMA LinksTagging ==
    ASSUME IInv, Typed, LinksInv, NEW p \in Taggers, TaggingStep(p), UNCHANGED merge
    PROVE  LinksInv'
<1>1. p \in Procs /\ p \notin Appliers /\ WritesTyped(tx[p]) /\ OtherOk(p) /\ Shape
  BY TaggersAreApart DEF Typed, IInv, MergesExplained
<1>2. ~NoWorker
  <2>1. CASE BeginJob(p)
    BY <2>1, TaggingAssumption DEF BeginJob, NoWorker, Typed
  <2>2. CASE ~BeginJob(p)
    BY <2>2 DEF TaggingStep, TaggingProgress, ModelAnswers, FallBack, GetOrCreate, Assign,
       FindParent, WalkDown, Link, CommitTagging, FailTagging, NoWorker
  <2> QED
    BY <2>1, <2>2
<1>3. NoReview
  BY <1>2 DEF LinksInv, OnlyReview
<1>4. \A g \in Taggers \ {p} : AddsOnly(g)'
  BY TaggingIsLocal DEF LinksInv, AddsOnly
<1>5. CASE CommitTagging(p)
  <2>1. CommitTx(p)
    BY <1>5 DEF CommitTagging
  <2>2. /\ proposals' = [q \in Proposals |->
             IF q \in DOMAIN tx[p].proposals THEN tx[p].proposals[q] ELSE proposals[q]]
        /\ tx'[p] = NoWrites /\ \A g \in Procs \ {p} : tx'[g] = tx[g]
    BY <1>1, <2>1, Committed
  <2>3. NoReview'
    BY <1>1, <1>3, <2>2, MergingAssumption DEF NoReview, OtherOk, AtRest
  <2>4. AddsOnly(p)'
    BY <2>2, NoLinks DEF AddsOnly
  <2> QED
    BY <1>4, <2>3, <2>4 DEF LinksInv
<1>6. CASE ~CommitTagging(p)
  <2>1. Step(p) /\ UNCHANGED tables /\ TaggerMoves(p)
    BY <1>6, TaggerMovesSo
  <2>2. NoReview'
    BY <1>1, <1>3, <2>1, MergingAssumption DEF NoReview, AtRest, Step, OthersKeep, tables
  <2>3. AddsOnly(p) /\ MaxConf \in Nat
    BY TagStoreAssumption DEF LinksInv
  <2>4. AddsOnly(p)'
    <3>1. CASE tx'[p].links = tx[p].links
      BY <2>3, <3>1 DEF AddsOnly
    <3>2. CASE tx'[p] = NoWrites
      BY <3>2, NoLinks DEF AddsOnly
    <3>3. CASE Assigns(p)
      <4>1. PICK k \in Items \X Tags : tx'[p].links = Put(tx[p].links, {k}, Now(p).conf)
        BY <3>3 DEF Assigns, PutsLinks
      <4>2. Now(p).conf > 0
        BY <2>3, <3>3 DEF Assigns
      <4> QED
        BY <2>3, <4>1, <4>2 DEF AddsOnly, Put
    <3> QED
      BY <2>1, <3>1, <3>2, <3>3 DEF TaggerMoves, Asks, Coins, FindsParent, Clears, Hangs,
         Fails, PutsTags, PutsEdges
  <2> QED
    BY <1>4, <2>2, <2>4 DEF LinksInv
<1> QED
  BY <1>5, <1>6

\* What a reviewer or a run commits of the assignments: of the tags that are
\* folded it only deletes some.
LEMMA LinksCommitted ==
    ASSUME IInv, Typed, OnlyReview, ProposalsApart, NEW p \in Appliers, CommitMerges(p)
    PROVE  /\ p \in Procs /\ CommitTx(p) /\ WritesTyped(tx[p])
           /\ ToTargets(tx[p]) /\ Carried(tx[p], {})
           /\ links' = [k \in Items \X Tags |->
                IF k \in DOMAIN tx[p].links THEN tx[p].links[k] ELSE links[k]]
           /\ \A i \in Items, t \in Tags, r \in Proposals :
                links'[<<i, t>>] > 0 /\ t \in Folding(r) =>
                  <<i, t>> \notin DOMAIN tx[p].links /\ links'[<<i, t>>] = links[<<i, t>>]
<1>1. /\ p \in Procs /\ CommitTx(p) /\ merge[p].pc = "next" /\ CarriesOk(p) /\ WritesTyped(tx[p])
  BY MergingAssumption DEF CommitMerges, OnlyReview, Typed
<1>2. ToTargets(tx[p]) /\ Carried(tx[p], {})
  BY <1>1 DEF CarriesOk, InHand
<1>3. links' = [k \in Items \X Tags |->
                IF k \in DOMAIN tx[p].links THEN tx[p].links[k] ELSE links[k]]
  BY <1>1, CommittedGraph
<1>4. ASSUME NEW i \in Items, NEW t \in Tags, NEW r \in Proposals,
             links'[<<i, t>>] > 0, t \in Folding(r)
      PROVE  <<i, t>> \notin DOMAIN tx[p].links /\ links'[<<i, t>>] = links[<<i, t>>]
  <2>1. <<i, t>> \notin DOMAIN tx[p].links
    BY <1>2, <1>3, <1>4, FoldedOnce DEF ToTargets
  <2> QED
    BY <1>3, <2>1
<1> QED
  BY <1>1, <1>2, <1>3, <1>4

LEMMA LinksFolds ==
    ASSUME IInv, Typed, LinksInv, OnlyReview, ProposalsApart, NEW p \in Appliers,
           CommitMerges(p), UNCHANGED taggingVars
    PROVE  LinksInv'
<1>1. /\ p \in Procs /\ p \notin Taggers /\ CommitTx(p) /\ WritesTyped(tx[p])
      /\ ToTargets(tx[p]) /\ Carried(tx[p], {}) /\ UNCHANGED <<job, runs>>
      /\ \A i \in Items, t \in Tags, r \in Proposals :
           links'[<<i, t>>] > 0 /\ t \in Folding(r) =>
             <<i, t>> \notin DOMAIN tx[p].links /\ links'[<<i, t>>] = links[<<i, t>>]
  BY LinksCommitted, TaxonomyAssumption DEF taggingVars
<1>2. /\ links' = [k \in Items \X Tags |->
                IF k \in DOMAIN tx[p].links THEN tx[p].links[k] ELSE links[k]]
      /\ tags' = [t \in Tags |-> IF t \in DOMAIN tx[p].tags THEN tx[p].tags[t] ELSE tags[t]]
      /\ tx'[p] = NoWrites /\ \A g \in Procs \ {p} : tx'[g] = tx[g]
  BY <1>1, LinksCommitted, Committed
<1>3. merge' = [merge EXCEPT ![p] = IdleMerge] /\ Shape
  BY DEF CommitMerges, IInv
<1>4. merge'[p].pc = "idle" /\ \A g \in Appliers \ {p} : merge'[g] = merge[g]
  BY <1>3 DEF Shape, IdleMerge
<1>5. \A g \in Taggers : AddsOnly(g)'
  BY <1>1, <1>2, TaggersAreApart DEF LinksInv, AddsOnly
<1>6. NoWorker'
  BY <1>1 DEF OnlyReview, NoWorker
<1>7. LinksLocked'
  BY <1>2, NoLinks, MergingAssumption DEF OnlyReview, LinksLocked
<1>8. FoldedExist'
  <2> SUFFICES ASSUME NEW i \in Items, NEW t \in Tags, NEW r \in Proposals,
                      links'[<<i, t>>] > 0, t \in Folding(r)
               PROVE  tags'[t].status # "absent"
    BY DEF FoldedExist, Folding
  <2>1. links[<<i, t>>] > 0
    BY <1>1
  <2>2. tags[t].status # "absent"
    BY <2>1 DEF OnlyReview, FoldedExist
  <2> QED
    BY <1>1, <1>2, <2>2 DEF WritesTyped
<1>9. ASSUME NEW g \in Appliers PROVE CarriesOk(g)'
  <2>1. CASE g = p
    <3>1. ToTargets(tx[g])' /\ Carried(tx[g], InHand(g))'
      BY <1>2, <2>1 DEF ToTargets, Carried, NoWrites
    <3> QED
      BY <1>4, <2>1, <3>1 DEF CarriesOk, Statements
  <2>2. CASE g # p
    <3>1. tx'[g] = tx[g] /\ merge'[g] = merge[g] /\ CarriesOk(g) /\ g \in Procs
      BY <1>2, <1>4, <2>2, MergingAssumption DEF OnlyReview
    <3>2. /\ This(g)' = This(g) /\ Sources(g)' = Sources(g) /\ Target(g)' = Target(g)
          /\ InHand(g)' = InHand(g)
      BY <3>1 DEF This, Sources, Target, InHand
    <3>3. \A k \in DOMAIN tx[g].links : k \in Items \X Tags /\ links'[k] = links[k]
      BY <1>2, <2>2, <3>1 DEF OnlyReview, LinksLocked, Typed, WritesTyped
    <3>4. ToTargets(tx[g])' /\ Carried(tx[g], InHand(g))'
      <4>1. ToTargets(tx[g])'
        BY <3>1 DEF CarriesOk, ToTargets
      <4>2. Carried(tx[g], InHand(g))
        BY <3>1 DEF CarriesOk
      <4>3. Carried(tx[g], InHand(g))'
        BY <3>1, <3>2, <3>3, <4>2 DEF Carried
      <4> QED
        BY <4>1, <4>3
    <3>5. /\ ToTargets(merge[g].saved) /\ Carried(merge[g].saved, {})
          /\ DOMAIN merge[g].saved.links \subseteq DOMAIN tx[g].links
          => ToTargets(merge[g].saved)' /\ Carried(merge[g].saved, {})'
      BY <3>1, <3>3 DEF ToTargets, Carried
    <3>6. ASSUME merge[g].pc \in {"move", "drop"} PROVE UnderWay(g)'
      <4>1. /\ UnderWay(g) /\ Applicable(This(g)) /\ This(g) \in Proposals
            /\ Sources(g) \in SUBSET Tags
        BY <3>1, <3>6, AtHand DEF CarriesOk, Statements
      <4>2. Sources(g) = Folding(This(g))
        BY <4>1 DEF Sources, Target, Folding
      <4> SUFFICES ASSUME NEW i \in Items, NEW t \in Sources(g),
                          <<i, t>> \notin DOMAIN tx[g].links, links'[<<i, t>>] > 0
                   PROVE  \/ <<<<i, t>>, links'[<<i, t>>]>> \in merge[g].rows
                          \/ /\ <<i, Target(g)>> \in DOMAIN tx[g].links
                             /\ tx[g].links[<<i, Target(g)>>] >= links'[<<i, t>>]
        BY <3>1, <3>2 DEF UnderWay
      <4>3. links'[<<i, t>>] = links[<<i, t>>]
        BY <1>1, <4>1, <4>2
      <4> QED
        BY <4>1, <4>3 DEF UnderWay
    <3> QED
      BY <3>1, <3>2, <3>4, <3>5, <3>6 DEF CarriesOk
  <2> QED
    BY <2>1, <2>2
<1> QED
  BY <1>5, <1>6, <1>7, <1>8, <1>9 DEF LinksInv, OnlyReview

LEMMA LinksStill ==
    ASSUME LinksInv, UNCHANGED <<tags, links, tx, job, runs, merge>>,
           \A q \in Proposals : proposals[q].status = "rejected" => proposals'[q] = proposals[q]
    PROVE  LinksInv'
<1>1. \A p \in Taggers : AddsOnly(p)'
  BY DEF LinksInv, AddsOnly
<1>2. NoReview => NoReview'
  BY DEF NoReview, AtRest
<1>3. ASSUME OnlyReview PROVE OnlyReview'
  <2>1. NoWorker' /\ LinksLocked' /\ FoldedExist'
    BY <1>3 DEF OnlyReview, NoWorker, LinksLocked, FoldedExist
  <2>2. ASSUME NEW p \in Appliers PROVE CarriesOk(p)'
    <3>1. /\ This(p)' = This(p) /\ Sources(p)' = Sources(p) /\ Target(p)' = Target(p)
          /\ InHand(p)' = InHand(p) /\ CarriesOk(p)
      BY <1>3 DEF This, Sources, Target, InHand, OnlyReview
    <3>2. UnderWay(p) => UnderWay(p)'
      BY <3>1 DEF UnderWay
    <3>3. /\ ToTargets(tx[p])' = ToTargets(tx[p])
          /\ ToTargets(merge[p].saved)' = ToTargets(merge[p].saved)
          /\ Carried(tx[p], InHand(p))' = Carried(tx[p], InHand(p))
          /\ Carried(merge[p].saved, {})' = Carried(merge[p].saved, {})
      BY <3>1 DEF ToTargets, Carried
    <3> QED
      BY <3>1, <3>2, <3>3 DEF CarriesOk
  <2> QED
    BY <2>1, <2>2 DEF OnlyReview
<1> QED
  BY <1>1, <1>2, <1>3 DEF LinksInv

LEMMA LinksStep == IInv /\ Typed /\ LinksInv /\ ProposalsApart /\ [Next]_vars => LinksInv'
<1> SUFFICES ASSUME IInv, Typed, LinksInv, ProposalsApart, [Next]_vars PROVE LinksInv'
  OBVIOUS
<1>1. ASSUME NEW p \in Taggers, TaggingStep(p), UNCHANGED merge PROVE LinksInv'
  BY <1>1, LinksTagging
<1>2. ASSUME NEW p \in Appliers, ApplierStep(p) \/ Victim(p), UNCHANGED taggingVars PROVE LinksInv'
  <2>1. OnlyReview
    BY <1>2, NothingToDo DEF LinksInv
  <2> QED
    BY <1>2, <2>1, LinksApplying, LinksFolds
<1>3. ASSUME NEW q \in Proposals, AdminApproves(q), UNCHANGED taggingVars PROVE LinksInv'
  <2>1. \A r \in Proposals : proposals[r].status = "rejected" => proposals'[r] = proposals[r]
    BY <1>3 DEF AdminApproves, IInv, Shape
  <2> QED
    BY <1>3, <2>1, LinksStill DEF AdminApproves, taggingVars
<1>4. CASE UNCHANGED vars
  BY <1>4, LinksStill DEF vars, tagVars, tables, taggingVars
<1> QED
  BY <1>1, <1>2, <1>3, <1>4 DEF Next, Settled

LEMMA LinksInit == Init /\ ReviewsAlone => LinksInv
<1> SUFFICES ASSUME ReviewsAlone, NEW s \in Starts,
                    TagStoreInit(s), TaggingInit(s), MergingInit
             PROVE  LinksInv
  BY DEF Init
<1>1. /\ tags = [t \in Tags |-> IF t \in s.tags THEN Active ELSE Absent]
      /\ links = s.links /\ \A k \in Items \X Tags : s.links[k] > 0 => k[2] \in s.tags
      /\ \A q \in Proposals : proposals[q].status = s.status[q]
      /\ tx = [p \in Procs |-> NoWrites] /\ merge = [p \in Appliers |-> IdleMerge]
      /\ job = [p \in Taggers |-> IdleJob] /\ runs = s.runs
      /\ Appliers \subseteq Procs /\ Taggers \subseteq Procs
  BY TagStoreAssumption, MergingAssumption, TaggingAssumption
     DEF TagStoreInit, MergingInit, TaggingInit
<1>2. IdleMerge.pc = "idle" /\ IdleJob.pc = "idle" /\ DOMAIN NoWrites.proposals = {}
  BY DEF IdleMerge, IdleJob, NoWrites
<1>3. \A p \in Taggers : AddsOnly(p)
  BY <1>1, NoLinks DEF AddsOnly
<1>4. CASE \A q \in Proposals : s.status[q] = "rejected"
  <2>1. NoReview
    BY <1>1, <1>2, <1>4 DEF NoReview, AtRest
  <2> QED
    BY <1>3, <2>1 DEF LinksInv
<1>5. CASE s.runs = MaxRuns
  <2>1. NoWorker
    BY <1>1, <1>2, <1>5 DEF NoWorker
  <2>2. LinksLocked
    BY <1>1, NoLinks DEF LinksLocked
  <2>3. FoldedExist
    <3> SUFFICES ASSUME NEW i \in Items, NEW t \in Tags, links[<<i, t>>] > 0
                 PROVE  tags[t].status # "absent"
      BY DEF FoldedExist
    <3>1. <<i, t>>[2] \in s.tags
      BY <1>1
    <3> QED
      BY <1>1, <3>1 DEF Active
  <2>4. \A p \in Appliers : CarriesOk(p)
    BY <1>1, <1>2, NoLinks DEF CarriesOk, Statements
  <2> QED
    BY <1>3, <2>1, <2>2, <2>3, <2>4 DEF LinksInv, OnlyReview
<1> QED
  BY <1>4, <1>5 DEF ReviewsAlone

\* Assignments change by a commit.
LEMMA OnlyCommitsLink ==
    ASSUME [Next]_vars
    PROVE  \/ UNCHANGED links
           \/ \E p \in Taggers : CommitTagging(p) /\ TaggingStep(p) /\ UNCHANGED merge
           \/ \E p \in Appliers : CommitMerges(p) /\ ApplierStep(p)
<1>1. ASSUME NEW p \in Taggers, TaggingStep(p)
      PROVE  UNCHANGED links \/ CommitTagging(p)
  BY <1>1 DEF TaggingStep, TaggingProgress, BeginJob, ModelAnswers, FallBack, GetOrCreate,
     Assign, FindParent, WalkDown, Link, FailTagging, Rollback, tagVars, tables
<1>2. ASSUME NEW p \in Appliers, ApplierStep(p) \/ Victim(p)
      PROVE  UNCHANGED links \/ CommitMerges(p)
  BY <1>2 DEF ApplierStep, Victim, ApplierProgress, MergeStatement, Decide, ListApproved,
     StartMerge, SkipInapplicable, MoveLink, DropLinks, SelectEdges, RepointEdge,
     UnlinkSources, RetireSources, MarkApplied, AbandonMerge, ApplierDies,
     Rollback, tagVars, tables
<1>3. \A q \in Proposals : AdminApproves(q) => UNCHANGED links
  BY DEF AdminApproves
<1>4. UNCHANGED vars => UNCHANGED links
  BY DEF vars, tagVars, tables
<1>5. \A p \in Appliers : CommitMerges(p) => ApplierStep(p)
  BY DEF ApplierStep, ApplierProgress
<1> QED
  BY <1>1, <1>2, <1>3, <1>4, <1>5 DEF Next, Settled

LEMMA NoneIsLost ==
    ASSUME IInv, Typed, LinksInv, ProposalsApart, [Next]_vars,
           NEW i \in Items, NEW t \in Tags, links[<<i, t>>] > 0, links'[<<i, t>>] = 0
    PROVE  \E u \in Heirs(t)' : links'[<<i, u>>] >= links[<<i, t>>]
<1>1. CASE UNCHANGED links
  BY <1>1
<1>2. ASSUME NEW p \in Taggers, CommitTagging(p) PROVE FALSE
  <2>1. p \in Procs /\ CommitTx(p) /\ AddsOnly(p)
    BY <1>2, TaggingAssumption DEF CommitTagging, LinksInv
  <2>2. links' = [k \in Items \X Tags |->
                IF k \in DOMAIN tx[p].links THEN tx[p].links[k] ELSE links[k]]
    BY <2>1, CommittedGraph
  <2> QED
    BY <2>1, <2>2 DEF AddsOnly
<1>3. ASSUME NEW p \in Appliers, CommitMerges(p), ApplierStep(p)
      PROVE  \E u \in Heirs(t)' : links'[<<i, u>>] >= links[<<i, t>>]
  <2>1. OnlyReview
    BY <1>3, NothingToDo DEF LinksInv
  <2>2. /\ p \in Procs /\ CommitTx(p) /\ Carried(tx[p], {})
        /\ links' = [k \in Items \X Tags |->
                IF k \in DOMAIN tx[p].links THEN tx[p].links[k] ELSE links[k]]
    BY <1>3, <2>1, LinksCommitted
  <2>3. tags' = [x \in Tags |-> IF x \in DOMAIN tx[p].tags THEN tx[p].tags[x] ELSE tags[x]]
    BY <2>2, Committed
  <2>4. PICK r \in Proposals :
          /\ <<i, TargetOf[r]>> \in DOMAIN tx[p].links
          /\ tx[p].links[<<i, TargetOf[r]>>] >= links[<<i, t>>]
          /\ t \in DOMAIN tx[p].tags /\ tx[p].tags[t].into = TargetOf[r]
    BY <2>2 DEF Carried
  <2>5. TargetOf[r] \in Tags /\ tags'[t].into = TargetOf[r]
    BY <2>3, <2>4, TagStoreAssumption
  <2>6. TargetOf[r] \in Heirs(t)'
    BY <2>5, TagStoreAssumption DEF Heirs
  <2>7. links'[<<i, TargetOf[r]>>] >= links[<<i, t>>]
    BY <2>2, <2>4, <2>5
  <2> QED
    BY <2>6, <2>7
<1> QED
  BY <1>1, <1>2, <1>3, OnlyCommitsLink

\* No merge loses an assignment: one that goes is carried over, with at least its
\* confidence, to the tag its own was merged into (_move_assignments, merge_tags),
\* for any number of reviewers and runs of the apply job, through savepoints,
\* deadlocks and crashes.  The DELETE takes what it sees and not what was
\* selected, so nothing may add assignments to a source meanwhile: no worker tags
\* beside the reviews, and no other merge folds into it.
THEOREM NoLinkIsLost ==
    ASSUME ProposalsApart, ReviewsAlone
    PROVE  Spec => LinksSurvive
<1>1. Init => LinksInv
  BY LinksInit
<1>2. IInv /\ Typed /\ LinksInv /\ [Next]_vars => LinksInv'
  BY LinksStep
<1>3. IInv /\ Typed /\ LinksInv /\ [Next]_vars =>
        [\A i \in Items, t \in Tags :
            links[<<i, t>>] > 0 /\ links'[<<i, t>>] = 0 =>
              \E u \in Heirs(t)' : links'[<<i, u>>] >= links[<<i, t>>]]_vars
  BY NoneIsLost
<1> QED
  BY <1>1, <1>2, <1>3, TaxonomyInvariant, TaxonomyTyped, PTL DEF Spec, LinksSurvive

===============================================================================
