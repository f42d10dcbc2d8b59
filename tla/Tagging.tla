------------------------------- MODULE Tagging --------------------------------
(***************************************************************************)
(* The classification half of a pipeline job, as the tag graph sees it:    *)
(* read the tags of similar items, ask the model, cap what it may coin,    *)
(* then create, attach and place one suggestion after another, all in the  *)
(* job's transaction.  Labels below the confidence threshold never get     *)
(* here, so a suggestion is one that classify_item would act on.           *)
(***************************************************************************)
EXTENDS TagStore, Sublists

CONSTANTS
    Taggers,         \* workers, a subset of Procs
    NoItem,
    Placeholder,     \* the tag `unclassified`
    Given,           \* confidences a classification gives
    MaxSuggestions,  \* MAX_SUGGESTIONS of one answer
    MaxNewTags,      \* settings.max_new_tags_per_item
    MaxNewEdges,     \* settings.max_new_edges_per_item
    MaxDepth,        \* settings.max_tag_depth
    MaxRuns          \* bound: classifications started

ASSUME TaggingAssumption ==
    /\ Taggers \subseteq Procs
    /\ NoItem \notin Items
    /\ Placeholder \in Tags
    /\ Given \subseteq 1 .. MaxConf
    /\ {MaxSuggestions, MaxNewTags, MaxNewEdges, MaxDepth, MaxRuns} \subseteq Nat
    /\ \A s \in Starts : s.runs \in 0 .. MaxRuns

VARIABLES
    job,   \* [Taggers -> JobState]
    runs   \* classifications started so far

taggingVars == <<job, runs>>

\* broader_than is a tag the model was shown, and never the tag itself.
Suggestion == [tag : Tags, conf : Given, parent : Tags \cup {NoTag}]

\* known: the labels in the prompt; todo: suggestions still to apply, the head
\* being the one at hand; linked: suggestions placed in the graph so far.
JobState == [pc : {"idle", "prompt", "coin", "assign", "place", "walk", "link"},
             item : Items \cup {NoItem}, known : SUBSET Tags,
             todo : Seq(Suggestion), linked : Nat]

IdleJob == [pc |-> "idle", item |-> NoItem, known |-> {}, todo |-> <<>>, linked |-> 0]

(***************************************************************************)
(* Reads.                                                                  *)
(***************************************************************************)

\* labels_for_items: the active tags carried by any of `neighbours`.
CandidateTags(p, neighbours) ==
    {t \in Tags : /\ IsActive(p, t)
                  /\ \E i \in neighbours : SeenLinks(p)[<<i, t>>] > 0}

\* Usable answers to a prompt naming `known`: distinct tags, parents from the
\* prompt.  All suggestions may be below the threshold.
Answers(known) ==
    LET usable == {s \in Suggestion : s.parent \in (known \ {s.tag}) \cup {NoTag}}
    IN  {a \in UNION {[1 .. n -> usable] : n \in 0 .. MaxSuggestions} :
           \A m, n \in DOMAIN a : a[m].tag = a[n].tag => m = n}

\* Mutation of Capped: the cap compares with > instead of >=.
CappedLate(p, answer) ==
    LET novel == {n \in DOMAIN answer : ~Exists(p, answer[n].tag)}
    IN  Picked(answer, {n \in DOMAIN answer :
            n \in novel => Cardinality({m \in novel : m < n}) <= MaxNewTags})

\* _cap_new_tags: drop what would coin more than MaxNewTags tags, novelty being
\* judged against every tag in the database, merged ones included.
Capped(p, answer) ==
    LET novel == {n \in DOMAIN answer : ~Exists(p, answer[n].tag)}
    IN  Picked(answer, {n \in DOMAIN answer :
            n \in novel => Cardinality({m \in novel : m < n}) < MaxNewTags})

\* What is n edges below t.
Level(E, t) ==
    LET level[n \in Nat] ==
            IF n = 0 THEN {t}
            ELSE UNION {{c \in Tags : E[<<b, c>>]} : b \in level[n - 1]}
    IN  level

\* descendants: what the depth-bounded walk down from t reaches.
Below(E, t, depth) == UNION {Level(E, t)[n] : n \in 1 .. depth}

\* _place: the broader tag is another one, and still active.
HasParent(p, s) ==
    /\ s.parent \notin {NoTag, s.tag}
    /\ IsActive(p, s.parent)

(***************************************************************************)
(* Actions.                                                                *)
(***************************************************************************)

\* The suggestion at hand.
Now(p) == Head(job[p].todo)

\* The row the next statement of p writes; an insert that would conflict with a
\* row another transaction is changing waits too.
TaggerWants(p) ==
    CASE job[p].pc = "coin" /\ job[p].todo # <<>> -> TagKeys({Now(p).tag})
      [] job[p].pc = "assign" -> LinkKeys({<<job[p].item, Now(p).tag>>})
      [] job[p].pc = "link" -> EdgeKeys({<<Now(p).parent, Now(p).tag>>})
      [] OTHER -> {}

\* nearest and labels_for_items: which items count as similar depends on vectors.
BeginJob(p) ==
    /\ job[p].pc = "idle"
    /\ runs < MaxRuns
    /\ \E i \in Items : \E neighbours \in SUBSET (Items \ {i}) :
         job' = [job EXCEPT ![p] = [IdleJob EXCEPT
                    !.pc = "prompt", !.item = i, !.known = CandidateTags(p, neighbours)]]
    /\ runs' = runs + 1
    /\ UNCHANGED tagVars

\* The model answers; the cap is applied before anything is written.
ModelAnswers(p) ==
    /\ job[p].pc = "prompt"
    /\ \E answer \in Answers(job[p].known) :
         job' = [job EXCEPT ![p].pc = "coin", ![p].todo = Capped(p, answer)]
    /\ UNCHANGED <<tagVars, runs>>

\* The model or the embedder is down: the item gets the placeholder tag.
FallBack(p) ==
    /\ job[p].pc = "prompt"
    /\ \E c \in Given :
         job' = [job EXCEPT ![p].pc = "coin",
                   ![p].todo = <<[tag |-> Placeholder, conf |-> c, parent |-> NoTag]>>]
    /\ UNCHANGED <<tagVars, runs>>

\* get_or_create: whatever row has the slug is used, whatever its status.
GetOrCreate(p) ==
    /\ job[p].pc = "coin"
    /\ job[p].todo # <<>>
    /\ Free(p, TaggerWants(p))
    /\ IF Exists(p, Now(p).tag) THEN UNCHANGED tx ELSE WriteTags(p, {Now(p).tag}, Active)
    /\ job' = [job EXCEPT ![p].pc = "assign"]
    /\ UNCHANGED <<tables, runs>>

\* assign: the newest confidence replaces the old one.
Assign(p) ==
    /\ job[p].pc = "assign"
    /\ Free(p, TaggerWants(p))
    /\ WriteLinks(p, {<<job[p].item, Now(p).tag>>}, Now(p).conf)
    /\ job' = [job EXCEPT ![p].pc = "place"]
    /\ UNCHANGED <<tables, runs>>

\* The tag stays unplaced: on to the next suggestion.
LeaveUnplaced(p) == job' = [job EXCEPT ![p].pc = "coin", ![p].todo = Tail(@)]

\* get_by_slug, unless the edges of this classification are used up.
FindParent(p) ==
    /\ job[p].pc = "place"
    /\ IF job[p].linked < MaxNewEdges /\ HasParent(p, Now(p))
       THEN job' = [job EXCEPT ![p].pc = "walk"]
       ELSE LeaveUnplaced(p)
    /\ UNCHANGED <<tagVars, runs>>

\* Mutation of WalkDown: the walk starts from the wrong end of the edge.
WalkFromParent(p) ==
    /\ job[p].pc = "walk"
    /\ IF Now(p).tag \in Below(SeenEdges(p), Now(p).parent, MaxDepth)
       THEN LeaveUnplaced(p)
       ELSE job' = [job EXCEPT ![p].pc = "link"]
    /\ UNCHANGED <<tagVars, runs>>

\* The first half of link_broader: is the broader tag already below?
WalkDown(p) ==
    /\ job[p].pc = "walk"
    /\ IF Now(p).parent \in Below(SeenEdges(p), Now(p).tag, MaxDepth)
       THEN LeaveUnplaced(p)
       ELSE job' = [job EXCEPT ![p].pc = "link"]
    /\ UNCHANGED <<tagVars, runs>>

\* The second half, a statement later and maybe after a wait: what the walk saw
\* is not looked at again.  An edge that exists already counts as linked.
Link(p) ==
    /\ job[p].pc = "link"
    /\ Free(p, TaggerWants(p))
    /\ WriteEdges(p, {<<Now(p).parent, Now(p).tag>>}, TRUE)
    /\ job' = [job EXCEPT ![p].pc = "coin", ![p].todo = Tail(@), ![p].linked = @ + 1]
    /\ UNCHANGED <<tables, runs>>

CommitTagging(p) ==
    /\ job[p].pc = "coin"
    /\ job[p].todo = <<>>
    /\ CommitTx(p)
    /\ job' = [job EXCEPT ![p] = IdleJob]
    /\ UNCHANGED runs

\* The job raises, is timed out or dies before its commit; also what happens
\* to the victim of a deadlock.  The tags it coined are gone with it.
FailTagging(p) ==
    /\ job[p].pc # "idle"
    /\ Rollback(p)
    /\ job' = [job EXCEPT ![p] = IdleJob]
    /\ UNCHANGED runs

TaggingTypeOK ==
    /\ job \in [Taggers -> JobState]
    /\ runs \in 0 .. MaxRuns

TaggingInit(s) ==
    /\ job = [p \in Taggers |-> IdleJob]
    /\ runs = s.runs

\* A job going on.
TaggingProgress(p) ==
    \/ ModelAnswers(p)
    \/ FallBack(p)
    \/ GetOrCreate(p)
    \/ Assign(p)
    \/ FindParent(p)
    \/ WalkDown(p)
    \/ Link(p)
    \/ CommitTagging(p)

TaggingStep(p) == BeginJob(p) \/ TaggingProgress(p) \/ FailTagging(p)

===============================================================================
