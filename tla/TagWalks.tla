------------------------------- MODULE TagWalks -------------------------------
(***************************************************************************)
(* Walking the tag hierarchy: the depth-bounded recursive queries, and the *)
(* explorer's neighbourhood of one tag built from two of them.  E is a set *)
(* of edges <<parent, child>>; nothing here needs it to be acyclic.        *)
(***************************************************************************)
EXTENDS Integers, FiniteSets, FiniteSetsExt

CONSTANTS
    Tags,
    MaxDepth,   \* DEFAULT_TAG_DEPTH
    MaxNodes    \* MAX_GRAPH_NODES

ASSUME WalkAssumption == {MaxDepth, MaxNodes} \subseteq Nat \ {0}

\* The frontier n edges below t.  UNION ALL remembers nothing of what has been
\* visited, so a cycle comes round again until the bound stops it.
Frontier(E, t) ==
    LET f[n \in 0 .. MaxDepth] ==
            IF n = 0 THEN {t} ELSE {e[2] : e \in {d \in E : d[1] \in f[n - 1]}}
    IN  f

Descendants(E, t, depth) ==
    UNION {{[tag |-> u, depth |-> n] : u \in Frontier(E, t)[n]} : n \in 1 .. depth}

Ancestors(E, t, depth) == Descendants({<<e[2], e[1]>> : e \in E}, t, depth)

\* The tags of some rows, each with its smallest depth.
Nearest(rows) ==
    [t \in {r.tag : r \in rows} |-> Min({r.depth : r \in {s \in rows : s.tag = t}})]

(***************************************************************************)
(* TagGraphRepository.neighbourhood                                        *)
(***************************************************************************)

\* Broader tags negative, narrower positive; the nearer reading wins, and the
\* broader one when they are equally near.
Levels(E, root, depth) ==
    LET up == Nearest(Ancestors(E, root, depth))
        down == Nearest(Descendants(E, root, depth))
        broader == {t \in DOMAIN up : t \in DOMAIN down => up[t] <= down[t]}
    IN  [t \in {root} \cup DOMAIN up \cup DOMAIN down |->
            IF t = root THEN 0 ELSE IF t \in broader THEN -up[t] ELSE down[t]]

Abs(n) == IF n < 0 THEN -n ELSE n

\* Mutation of Kept: sorted by column, not by distance.
KeptByColumn(levels, root) ==
    IF Cardinality(DOMAIN levels) <= MaxNodes THEN {DOMAIN levels}
    ELSE {K \cup {root} : K \in {S \in kSubset(MaxNodes, DOMAIN levels) :
            \A t \in S, u \in DOMAIN levels \ S : levels[t] <= levels[u]}}

\* The node sets _bound may keep: nearest first, and among equally near tags
\* by an id that says nothing else.
Kept(levels, root) ==
    IF Cardinality(DOMAIN levels) <= MaxNodes THEN {DOMAIN levels}
    ELSE {K \cup {root} : K \in {S \in kSubset(MaxNodes, DOMAIN levels) :
            \A t \in S, u \in DOMAIN levels \ S : Abs(levels[t]) <= Abs(levels[u])}}

Drawn(E, nodes) == {e \in E : {e[1], e[2]} \subseteq nodes}

===============================================================================
