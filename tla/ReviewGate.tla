------------------------------ MODULE ReviewGate ------------------------------
(***************************************************************************)
(* What the review queue promises: the tag graph is restructured only by   *)
(* merges a person approved, each proposal is decided once, by one person, *)
(* and a decision is never revised.  Transactions, savepoints and the      *)
(* statements of a merge are abstracted away.                              *)
(***************************************************************************)
CONSTANTS Tags, NoTag, Proposals, KindOf, SourcesOf, TargetOf, People, Nobody

VARIABLES
    status,   \* [Proposals -> Statuses]
    by,       \* [Proposals -> People \cup {Nobody}]
    into      \* [Tags -> Tags \cup {NoTag}]: where a merged tag went

vars == <<status, by, into>>

Statuses == {"pending", "approved", "rejected", "applied"}

Init ==
    /\ status \in [Proposals -> Statuses \ {"applied"}]
    /\ by \in [Proposals -> People \cup {Nobody}]
    /\ \A q \in Proposals : status[q] = "pending" <=> by[q] = Nobody
    /\ into = [t \in Tags |-> NoTag]

Folds(q, t) == KindOf[q] = "merge" /\ t \in SourcesOf[q] \ {TargetOf[q]}

\* Every tag a proposal of Q folds goes to the target of one of them; no other
\* tag is touched.
Fold(Q) ==
    /\ into' \in [Tags -> Tags \cup {NoTag}]
    /\ \A t \in Tags :
         IF \E q \in Q : Folds(q, t)
         THEN \E q \in Q : Folds(q, t) /\ into'[t] = TargetOf[q]
         ELSE into'[t] = into[t]

Decide(q, person, verdict) ==
    /\ status[q] = "pending"
    /\ status' = [status EXCEPT ![q] = verdict]
    /\ by' = [by EXCEPT ![q] = person]

\* A decision that leaves the graph alone.
Record(q, person) ==
    /\ \E verdict \in {"approved", "rejected"} : Decide(q, person, verdict)
    /\ UNCHANGED into

\* An approval and its merge in one step.
ApproveAndApply(q, person) ==
    /\ KindOf[q] = "merge"
    /\ Decide(q, person, "applied")
    /\ Fold({q})

\* Approved merges are carried out together.
Apply(Q) ==
    /\ Q # {}
    /\ \A q \in Q : status[q] = "approved" /\ KindOf[q] = "merge"
    /\ status' = [q \in Proposals |-> IF q \in Q THEN "applied" ELSE status[q]]
    /\ UNCHANGED by
    /\ Fold(Q)

Next ==
    \/ \E q \in Proposals, person \in People :
         Record(q, person) \/ ApproveAndApply(q, person)
    \/ \E Q \in SUBSET Proposals : Apply(Q)

Spec == Init /\ [][Next]_vars

===============================================================================
