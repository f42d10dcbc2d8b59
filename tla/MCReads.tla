-------------------------------- MODULE MCReads --------------------------------
(***************************************************************************)
(* An instance of Reads for TLC: three items, the last of which points     *)
(* nearly away from the query, and four tags.                              *)
(***************************************************************************)
EXTENDS Reads, TLC

CONSTANTS close, near, away, ml, ops, mlops, llmops

ThreeItems == {close, near, away}
Distances == [i \in ThreeItems |-> CASE i = close -> 10 [] i = near -> 60 [] OTHER -> 190]
FourTags == {ml, ops, mlops, llmops}

\* At most an assignment and an edge; or two narrower tags of a tag of the
\* closest item, both carried by the next.
Started ==
    LET links == ThreeItems \X FourTags
        edges == {e \in FourTags \X FourTags : e[1] # e[2]}
    IN  ({{}} \cup kSubset(1, links)) \X ({{}} \cup kSubset(1, edges))
        \cup {<<{<<close, t>>, <<near, u>>, <<near, v>>}, {<<t, u>>, <<t, v>>}>> :
                  <<t, u, v>> \in {p \in FourTags \X FourTags \X FourTags : IsInjective(p)}}

\* With windows of two units: prior is 1 and 2, recent is 3 and 4, now is 5.
\* One item in the middle of a window and two at the ends of the other; items
\* at the very beginnings and at now; a batch, and an item of long ago.
Arrivals ==
    {[i \in ThreeItems |-> CASE i = close -> 4 [] i = near -> 3 [] OTHER -> 2],
     [i \in ThreeItems |-> CASE i = close -> 3 [] i = near -> 5 [] OTHER -> 1],
     [i \in ThreeItems |-> CASE i = away -> 0 [] OTHER -> 4]}

\* Tags are interchangeable.
TagSymmetry == Permutations(FourTags)

===============================================================================
