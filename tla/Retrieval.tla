------------------------------- MODULE Retrieval -------------------------------
(***************************************************************************)
(* Search: seed with the nearest items, walk the tag graph outward from    *)
(* their tags, add the items carrying a tag reached.                       *)
(***************************************************************************)
EXTENDS Corpus, Sequences, SequencesExt

CONSTANTS
    Distance,     \* [Items -> hundredths of the cosine distance to the query]
    SeedLimit,
    Limit,        \* hits returned
    PairLimit     \* rows item_tag_pairs() returns at most: 500

ASSUME RetrievalAssumption ==
    /\ Distance \in [Items -> 0 .. 200]
    /\ {SeedLimit, Limit, PairLimit} \subseteq Nat \ {0}

VARIABLES
    embedded, \* items with an embedding; only the first statement reads them
    search    \* the search running, or the last one

searchVars == <<embedded, search>>

Hits == [item : Items, score : Nat, route : {"seed", "expanded"}, depth : 0 .. MaxDepth]

\* start: the store when the search began.  todo: walks still to do.  reached:
\* tags with the least depth they were reached at.
NoSearch == [pc |-> "idle", start |-> EmptyStore, seeds |-> <<>>, todo |-> {},
             reached |-> [t \in {} |-> 0], hits |-> <<>>]

(***************************************************************************)
(* Scores, in 7200ths: exact up to a depth of 8.                           *)
(***************************************************************************)

SeedScore(d) == 3600 + Max({0, 7200 - 36 * d})

\* Mutation of ExpandedScore: no ceiling.
ExpandedScoreUncapped(depth, matches) ==
    (5040 \div (1 + depth)) + 432 * Min({matches, 5})

\* 0.5 * (0.7 / (1 + depth) + 0.3 * min(matches, 5) / 5)
ExpandedScore(depth, matches) ==
    (2520 \div (1 + depth)) + 216 * Min({matches, 5})

\* hits.sort(key=score, reverse=True): stable, so there is only one.
Rankings(hits) ==
    {order \in SetToSeqs(DOMAIN hits) :
        \A m, n \in DOMAIN order : m < n =>
            LET first == hits[order[m]]  second == hits[order[n]]
            IN  \/ first.score > second.score
                \/ first.score = second.score /\ order[m] < order[n]}

(***************************************************************************)
(* A search, one action per statement.                                     *)
(***************************************************************************)

Seeds == {search.seeds[n] : n \in DOMAIN search.seeds}

\* nearest(): the SeedLimit embedded items closest to the query, equally close
\* ones in any order.  A query that is empty or cannot be embedded never gets
\* here.
Seed ==
    /\ search.pc \in {"idle", "answered"}
    /\ \E order \in SetToSeqs(embedded) :
         /\ \A m, n \in DOMAIN order : m < n => Distance[order[m]] <= Distance[order[n]]
         /\ search' = [NoSearch EXCEPT
               !.pc = "tags", !.start = store,
               !.seeds = [n \in 1 .. Min({SeedLimit, Len(order)}) |-> order[n]]]
    /\ UNCHANGED <<corpusVars, embedded>>

\* Mutation of SeedTags: broader tags only.
SeedTagsUp ==
    LET own == {k[2] : k \in {l \in store.links : l[1] \in Seeds}} \ store.merged
    IN  /\ search.pc = "tags"
        /\ search' = [search EXCEPT
              !.pc = "walk",
              !.todo = own \X {"up"},
              !.reached = [t \in own |-> 0]]
        /\ UNCHANGED <<corpusVars, embedded>>

\* tag_ids_for_items(): active tags only, each to be walked both ways.
SeedTags ==
    LET own == {k[2] : k \in {l \in store.links : l[1] \in Seeds}} \ store.merged
    IN  /\ search.pc = "tags"
        /\ search' = [search EXCEPT
              !.pc = "walk",
              !.todo = own \X {"up", "down"},
              !.reached = [t \in own |-> 0]]
        /\ UNCHANGED <<corpusVars, embedded>>

\* Mutation of Walk: a later query overwrites the depths of an earlier one.
WalkOverwrites(t, dir) ==
    LET rows == IF dir = "up" THEN Ancestors(store.edges, t, MaxDepth)
                              ELSE Descendants(store.edges, t, MaxDepth)
        known == {[tag |-> u, depth |-> search.reached[u]] : u \in DOMAIN search.reached}
    IN  /\ search.pc = "walk"
        /\ <<t, dir>> \in search.todo
        /\ IF dir = "down" THEN <<t, "up">> \notin search.todo
           ELSE \A u \in Tags : <<u, "down">> \in search.todo => <<u, "up">> \in search.todo
        /\ search' = [search EXCEPT
              !.todo = @ \ {<<t, dir>>},
              !.reached = Nearest({r \in known : r.tag \notin {q.tag : q \in rows}} \cup rows)]
        /\ UNCHANGED <<corpusVars, embedded>>

\* One recursive query, the tags in any order and each upward first; min()
\* with what an earlier one found.
Walk(t, dir) ==
    LET rows == IF dir = "up" THEN Ancestors(store.edges, t, MaxDepth)
                              ELSE Descendants(store.edges, t, MaxDepth)
        known == {[tag |-> u, depth |-> search.reached[u]] : u \in DOMAIN search.reached}
    IN  /\ search.pc = "walk"
        /\ <<t, dir>> \in search.todo
        /\ IF dir = "down" THEN <<t, "up">> \notin search.todo
           ELSE \A u \in Tags : <<u, "down">> \in search.todo => <<u, "up">> \in search.todo
        /\ search' = [search EXCEPT
              !.todo = @ \ {<<t, dir>>},
              !.reached = Nearest(known \cup rows)]
        /\ UNCHANGED <<corpusVars, embedded>>

\* The assignments expansion is about: a tag reached, on an item that is no seed.
Matching == {k \in store.links : k[1] \notin Seeds /\ k[2] \in DOMAIN search.reached}

\* Mutation of PairRows: the seeds are taken out of the rows read.
PairRowsWithSeeds ==
    LET carried == {k \in store.links : k[2] \in DOMAIN search.reached}
    IN  {rows \cap Matching :
            rows \in kSubset(Min({PairLimit, Cardinality(carried)}), carried)}

\* item_tag_pairs(): at most PairLimit of them, and no ORDER BY says which.
PairRows == kSubset(Min({PairLimit, Cardinality(Matching)}), Matching)

\* The rows, in whatever order they come, folded per item; seeds and expanded
\* items ranked together and cut at the limit.  An item has one embedding and
\* seeds are excluded from the rows, so _dedupe finds nothing to remove.
Collect ==
    /\ search.pc = "walk"
    /\ search.todo = {}
    /\ \E rows \in PairRows :
         LET carried(i) == {k[2] : k \in {l \in rows : l[1] = i}}
             depth(i) == Min({search.reached[t] : t \in carried(i)})
             seedHits == [n \in DOMAIN search.seeds |->
                [item |-> search.seeds[n], score |-> SeedScore(Distance[search.seeds[n]]),
                 route |-> "seed", depth |-> 0]]
         IN  \E found \in SetToSeqs({k[1] : k \in rows}) :
               LET expanded == [n \in DOMAIN found |->
                      [item |-> found[n], route |-> "expanded", depth |-> depth(found[n]),
                       score |-> ExpandedScore(depth(found[n]), Cardinality(carried(found[n])))]]
                   hits == seedHits \o expanded
               IN  \E order \in Rankings(hits) :
                     search' = [search EXCEPT !.pc = "answered",
                         !.hits = [n \in 1 .. Min({Limit, Len(hits)}) |-> hits[order[n]]]]
    /\ UNCHANGED <<corpusVars, embedded>>

SearchInit ==
    /\ embedded \in SUBSET Items
    /\ search = NoSearch

SearchStatement ==
    \/ Seed
    \/ SeedTags
    \/ \E t \in Tags, dir \in {"up", "down"} : Walk(t, dir)
    \/ Collect

\* Jobs and merges committing while a search runs.
SearchNext ==
    \/ \E i \in Items, t \in Tags : Assign(i, t) /\ UNCHANGED searchVars
    \/ \E p, c \in Tags : AddEdge(p, c) /\ UNCHANGED searchVars
    \/ \E s, t \in Tags : MergeInto(s, t) /\ UNCHANGED searchVars
    \/ SearchStatement

SearchTypeOK ==
    /\ embedded \subseteq Items
    /\ search.pc \in {"idle", "tags", "walk", "answered"}
    /\ \A n \in DOMAIN search.seeds : search.seeds[n] \in Items
    /\ search.todo \subseteq Tags \X {"up", "down"}
    /\ DOMAIN search.reached \subseteq Tags
    /\ \A n \in DOMAIN search.hits : search.hits[n] \in Hits

(***************************************************************************)
(* Properties.                                                             *)
(***************************************************************************)

Answered == search.pc = "answered"

\* The hits as search_items returns them.  It reads their items in statements
\* that follow; items are never deleted, so none of them is missing.
Hit == {search.hits[n] : n \in DOMAIN search.hits}

\* "A direct semantic match should never be displaced by something two hops
\* away": every seed is in the answer, in order, before any expanded item, as
\* far as the limit goes; and no item is found twice.
SeedsComeFirst ==
    Answered =>
        /\ Min({Limit, Len(search.seeds)}) <= Len(search.hits)
        /\ \A n \in DOMAIN search.hits :
             IF n <= Len(search.seeds)
             THEN search.hits[n].item = search.seeds[n] /\ search.hits[n].route = "seed"
             ELSE search.hits[n].route = "expanded" /\ search.hits[n].item \notin Seeds
        /\ \A m, n \in DOMAIN search.hits :
             search.hits[m].item = search.hits[n].item => m = n

\* Reference: item i is within n hops of the seeds in s when it carries the
\* last tag of a path of distinct tags, all upward or all downward, from a
\* tag of a seed.
Paths(E, n) ==
    {p \in [1 .. n + 1 -> Tags] :
        /\ IsInjective(p)
        /\ \/ \A k \in 1 .. n : <<p[k], p[k + 1]>> \in E
           \/ \A k \in 1 .. n : <<p[k + 1], p[k]>> \in E}

Within(s, i, n) ==
    \E k \in 0 .. n : \E p \in Paths(s.edges, k) :
        /\ <<i, p[k + 1]>> \in s.links
        /\ p[1] \notin s.merged
        /\ \E seed \in Seeds : <<seed, p[1]>> \in s.links

NoMergeSince == store.merges = search.start.merges

\* No assignment was cut from the rows: they only grow in number until a merge.
AllRead == Cardinality(Matching) <= PairLimit

\* The graph only grows between two merges.  An expanded item is never further
\* than its hit says it is, now -- also when rows were cut, and the depth is that
\* of a tag further away than its nearest.  When none was cut it was never nearer
\* either, when the search began: the depth is then exact if nothing was
\* committed in between, on cyclic graphs too.
DepthIsDistance ==
    Answered /\ NoMergeSince =>
        \A h \in Hit : h.route = "expanded" =>
            /\ Within(store, h.item, h.depth)
            /\ AllRead => \A n \in 0 .. h.depth - 1 : ~Within(search.start, h.item, n)

\* An item within reach when the search began is missing for two reasons only:
\* the answer is full of hits that score no less, or more assignments match than
\* item_tag_pairs() returns -- any of them are then left out, near ones too.
NothingMissed ==
    Answered /\ NoMergeSince /\ AllRead =>
        \A i \in Items \ Seeds, n \in 0 .. MaxDepth :
            Within(search.start, i, n) =>
                \/ \E h \in Hit : h.item = i
                \/ /\ Len(search.hits) = Limit
                   /\ \A h \in Hit : h.score >= ExpandedScore(n, 1)

\* "Truncation removes the periphery rather than the structure around the
\* seed": of any neighbourhood the explorer draws, whatever is left out, every
\* node but the root has a drawn edge, in its own direction, to a node nearer
\* the root -- also when the hierarchy has a cycle, where the nearer end may be
\* in another column than the next.
ExplorerIsConnected ==
    \A root \in Tags, depth \in 1 .. MaxDepth :
        LET levels == Levels(store.edges, root, depth)
        IN  \A nodes \in Kept(levels, root) : \A t \in nodes \ {root} :
              \E e \in Drawn(store.edges, nodes) :
                \/ levels[t] < 0 /\ e[1] = t /\ Abs(levels[e[2]]) < -levels[t]
                \/ levels[t] > 0 /\ e[2] = t /\ Abs(levels[e[1]]) < levels[t]

===============================================================================
