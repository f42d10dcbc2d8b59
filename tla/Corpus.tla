-------------------------------- MODULE Corpus --------------------------------
(***************************************************************************)
(* What the read-only pages read: assignments and tag edges, as the        *)
(* transactions of jobs and of merges commit them.  A page is one          *)
(* transaction at READ COMMITTED, so each of its statements sees what has  *)
(* been committed by then.                                                 *)
(***************************************************************************)
EXTENDS TagWalks

CONSTANTS
    Items,
    Beginnings, \* <<links, edges>> committed before a page is opened
    MaxWrites   \* bound: transactions committed while it is read

ASSUME CorpusAssumption ==
    /\ MaxWrites \in Nat /\ IsFiniteSet(Items) /\ IsFiniteSet(Tags)
    /\ \A b \in Beginnings :
         /\ b[1] \subseteq Items \X Tags
         /\ b[2] \subseteq {e \in Tags \X Tags : e[1] # e[2]}

VARIABLES
    store,   \* what is committed: links, edges, merged
    writes

corpusVars == <<store, writes>>

\* links: <<item, tag>>; edges: <<parent, child>>; merged: tags folded away by
\* the merges so far.
EmptyStore == [links |-> {}, edges |-> {}, merged |-> {}, merges |-> 0]

Commits(new) ==
    /\ writes < MaxWrites
    /\ store' = new
    /\ new # store
    /\ writes' = writes + 1

Assign(i, t) == Commits([store EXCEPT !.links = @ \cup {<<i, t>>}])

\* Two of these may close a cycle that neither saw.
AddEdge(p, c) ==
    /\ p # c
    /\ p \notin store.merged
    /\ Commits([store EXCEPT !.edges = @ \cup {<<p, c>>}])

\* Mutation of MergeInto: edges are repointed without a look at loops.
MergeKeepsLoops(s, t) ==
    LET to(u) == IF u = s THEN t ELSE u
    IN  /\ s # t
        /\ Commits([store EXCEPT
              !.links = {<<k[1], to(k[2])>> : k \in @},
              !.edges = {<<to(d[1]), to(d[2])>> : d \in @},
              !.merged = @ \cup {s},
              !.merges = @ + 1])

\* Assignments and edges move to the target; an edge that would become a loop
\* is dropped.
MergeInto(s, t) ==
    LET to(u) == IF u = s THEN t ELSE u
    IN  /\ s # t
        /\ Commits([store EXCEPT
              !.links = {<<k[1], to(k[2])>> : k \in @},
              !.edges = {e \in {<<to(d[1]), to(d[2])>> : d \in @} : e[1] # e[2]},
              !.merged = @ \cup {s},
              !.merges = @ + 1])

CorpusTypeOK ==
    /\ store.links \subseteq Items \X Tags
    /\ store.edges \subseteq Tags \X Tags
    /\ \A t \in Tags : <<t, t>> \notin store.edges
    /\ store.merged \subseteq Tags
    /\ store.merges \in 0 .. writes
    /\ writes \in 0 .. MaxWrites

CorpusInit ==
    /\ \E b \in Beginnings :
         store = [EmptyStore EXCEPT !.links = b[1], !.edges = b[2]]
    /\ writes = 0

===============================================================================
