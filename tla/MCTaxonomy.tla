------------------------------ MODULE MCTaxonomy ------------------------------
(***************************************************************************)
(* Instances of Taxonomy for TLC.                                          *)
(***************************************************************************)
EXTENDS Taxonomy, TLC

CONSTANTS
    chat, mail,                           \* items
    unclassified, mlops, mlOps, llmOps,   \* tags; the ops are near-duplicates
    fold1, fold2, split,                  \* proposals
    ana, ben, sql, worker, apply          \* people and processes

\* Two synonyms to be folded into one tag, and a split nobody can apply.
ReviewTags == {mlops, mlOps, llmOps}
ReviewProposals == {fold1, fold2, split}
ReviewKinds == [q \in ReviewProposals |-> IF q = split THEN "split" ELSE "merge"]
ReviewSources == [q \in ReviewProposals |->
    CASE q = fold1 -> {mlOps} [] q = fold2 -> {llmOps} [] OTHER -> {}]
ReviewTargets == [q \in ReviewProposals |-> mlops]
AnaAndBen == [p \in {ana, ben} |-> p]
OnlyAna == [p \in {ana} |-> ana]

AllTags == ReviewTags \cup {unclassified}

\* Two merges to be reviewed while no item comes in, behind the split, which
\* was approved and stays so.  Both items carry both
\* synonyms, one of them the target as well; the target is above one synonym,
\* and that one above the other.
InReview ==
    [tags |-> ReviewTags,
     links |-> [k \in {chat, mail} \X AllTags |->
        CASE k \in {<<chat, llmOps>>, <<mail, mlops>>} -> 2
          [] k = <<chat, mlops>> \/ k[2] = unclassified -> 0
          [] OTHER -> 1],
     edges |-> {<<mlops, mlOps>>, <<mlOps, llmOps>>},
     status |-> [q \in ReviewProposals |-> IF q = split THEN "approved" ELSE "pending"],
     runs |-> MaxRuns]

\* A small graph growing under one worker, the queue having been rejected.
Growing ==
    [tags |-> {mlops, mlOps},
     links |-> [k \in {chat, mail} \X AllTags |->
        IF k \in {<<chat, mlops>>, <<mail, mlOps>>} THEN 1 ELSE 0],
     edges |-> {<<mlops, mlOps>>},
     status |-> [q \in ReviewProposals |-> "rejected"],
     runs |-> 0]

ReviewAndGrowth == {InReview, Growing}

\* Three synonyms in a chain of two merges, and one reviewer.
Chain == {fold1, fold2}
ChainKinds == [q \in Chain |-> "merge"]
ChainSources == [q \in Chain |-> IF q = fold1 THEN {mlOps} ELSE {mlops}]
ChainTargets == [q \in Chain |-> IF q = fold1 THEN mlops ELSE llmOps]
ChainStart ==
    {[tags |-> ReviewTags,
      links |-> [k \in {chat, mail} \X ReviewTags |-> IF k = <<mail, mlOps>> THEN 1 ELSE 0],
      edges |-> {}, status |-> [q \in Chain |-> "pending"], runs |-> 0]}

\* One merge, under review while a worker tags.
OneMergeTags == {mlops, mlOps}
OneMerge == {fold1}
OneMergeKinds == [q \in OneMerge |-> "merge"]
OneMergeSources == [q \in OneMerge |-> {mlOps}]
OneMergeTargets == [q \in OneMerge |-> mlops]
OneMergeStart ==
    {[tags |-> OneMergeTags,
      links |-> [k \in {chat, mail} \X OneMergeTags |->
                    IF k = <<mail, mlOps>> THEN 1 ELSE 0],
      edges |-> {}, status |-> [q \in OneMerge |-> "pending"], runs |-> 0]}

===============================================================================
