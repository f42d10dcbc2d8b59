------------------------------- MODULE Insights --------------------------------
(***************************************************************************)
(* The trends report: for every tag the items ingested in the last Window  *)
(* units of time and in the Window before, some items as evidence, and how *)
(* many items there were at all -- six statements, while items go on       *)
(* arriving and being tagged and tags are merged.                          *)
(*                                                                         *)
(* Time is told from the report's own `now`, its End.  ingested_at is when *)
(* an item's transaction began, so one committed after the report has      *)
(* started may still lie within its windows.                               *)
(***************************************************************************)
EXTENDS Corpus

CONSTANTS
    Window,    \* window_days
    Stamps,    \* a set of [Items -> 0 .. End]: when the items are ingested
    Sample,    \* items listed as evidence for one tag
    Busiest    \* tags reported

ASSUME InsightsAssumption == {Window, Sample, Busiest} \subseteq Nat \ {0}

\* prior_start, start and end, one unit before which is out of both windows.
PriorStart == 1
Start == PriorStart + Window
End == Start + Window

ASSUME StampsAssumption == Stamps \subseteq [Items -> 0 .. End] /\ Stamps # {}

VARIABLES
    stamp,     \* ingested_at of every item, also of those still to arrive
    present,   \* items committed
    report     \* the report being made, or the last one

reportVars == <<stamp, present, report>>

NoCounts == [t \in {} |-> 0]

\* start, had: the store and the items when the report began.
NoReport == [pc |-> "idle", start |-> EmptyStore, had |-> {}, recent |-> NoCounts,
             prior |-> NoCounts, samples |-> NoCounts, totalRecent |-> 0,
             totalPrior |-> 0, tags |-> {}]

(***************************************************************************)
(* Queries.                                                                *)
(***************************************************************************)

\* Mutation of During: the end of a window belongs to it.
ThroughEnd(i, from, to) == from <= stamp[i] /\ stamp[i] <= to

\* _window: [from, to), so that adjacent windows share no item.
During(i, from, to) == from <= stamp[i] /\ stamp[i] < to

Tagged(t, from, to) == {i \in present : <<i, t>> \in store.links /\ During(i, from, to)}

\* _counts_by_tag: a tag without items has no row.
CountsByTag(from, to) ==
    [t \in {u \in Tags : Tagged(u, from, to) # {}} |-> Cardinality(Tagged(t, from, to))]

\* dict.get(tag, 0)
CountOf(counts, t) == IF t \in DOMAIN counts THEN counts[t] ELSE 0

TotalItems(from, to) == Cardinality({i \in present : During(i, from, to)})

\* Mutation of SamplesOf: the newest items whatever the window.
SamplesOfAnyTime(t) ==
    LET rows == Tagged(t, 0, End + 1)
    IN  {S \in SUBSET rows :
            /\ Cardinality(S) = Min({Sample, Cardinality(rows)})
            /\ \A i \in S, j \in rows \ S : stamp[i] >= stamp[j]}

\* _samples: the newest items of the recent window, at most Sample of them;
\* items of one batch share their ingested_at, and come in any order.
SamplesOf(t) ==
    LET rows == Tagged(t, Start, End)
    IN  {S \in SUBSET rows :
            /\ Cardinality(S) = Min({Sample, Cardinality(rows)})
            /\ \A i \in S, j \in rows \ S : stamp[i] >= stamp[j]}

\* The tags reported: the busiest, the fastest-rising first among equals; the
\* slug that decides between the rest says nothing more.
Delta(t) == report.recent[t] - CountOf(report.prior, t)

Before(t, u) ==
    \/ report.recent[t] > report.recent[u]
    \/ report.recent[t] = report.recent[u] /\ Delta(t) >= Delta(u)

TopTags ==
    LET counted == DOMAIN report.recent
    IN  {K \in SUBSET counted :
            /\ Cardinality(K) = Min({Busiest, Cardinality(counted)})
            /\ \A t \in K, u \in counted \ K : Before(t, u)}

(***************************************************************************)
(* The report, one action per statement.                                   *)
(***************************************************************************)

CountRecent ==
    /\ report.pc \in {"idle", "done"}
    /\ report' = [NoReport EXCEPT !.pc = "prior", !.start = store, !.had = present,
                    !.recent = CountsByTag(Start, End)]
    /\ UNCHANGED <<corpusVars, stamp, present>>

CountPrior ==
    /\ report.pc = "prior"
    /\ report' = [report EXCEPT !.pc = "samples", !.prior = CountsByTag(PriorStart, Start)]
    /\ UNCHANGED <<corpusVars, stamp, present>>

\* For the tags counted, one query; a tag all whose items have gone meanwhile
\* gets none.  _labels, next, finds every tag: tags are never deleted.
DrawSamples ==
    /\ report.pc = "samples"
    /\ \E drawn \in [DOMAIN report.recent -> SUBSET present] :
         /\ \A t \in DOMAIN drawn : drawn[t] \in SamplesOf(t)
         /\ report' = [report EXCEPT !.pc = "totals", !.samples = drawn]
    /\ UNCHANGED <<corpusVars, stamp, present>>

\* The tags are sorted and cut, then the items of the recent window counted.
TotalRecent ==
    /\ report.pc = "totals"
    /\ \E K \in TopTags :
         report' = [report EXCEPT !.pc = "total_prior", !.tags = K,
                      !.totalRecent = TotalItems(Start, End)]
    /\ UNCHANGED <<corpusVars, stamp, present>>

\* Mutation of TotalPrior: counted before anything else.
TotalPriorFirst ==
    /\ report.pc = "total_prior"
    /\ report' = [report EXCEPT !.pc = "done",
                    !.totalPrior = Cardinality({i \in report.had : During(i, PriorStart, Start)})]
    /\ UNCHANGED <<corpusVars, stamp, present>>

TotalPrior ==
    /\ report.pc = "total_prior"
    /\ report' = [report EXCEPT !.pc = "done", !.totalPrior = TotalItems(PriorStart, Start)]
    /\ UNCHANGED <<corpusVars, stamp, present>>

ReportStatement == CountRecent \/ CountPrior \/ DrawSamples \/ TotalRecent \/ TotalPrior

(***************************************************************************)
(* Everything else going on.                                               *)
(***************************************************************************)

\* An ingestion commits; stamp[i] is when it began.
Commit(i) ==
    /\ i \notin present
    /\ present' = present \cup {i}
    /\ UNCHANGED <<corpusVars, stamp, report>>

InsightsInit ==
    /\ stamp \in Stamps
    /\ present \in SUBSET Items
    /\ report = NoReport

InsightsNext ==
    \/ \E i \in Items : Commit(i)
    \/ \E i \in present, t \in Tags : Assign(i, t) /\ UNCHANGED reportVars
    \/ \E s, t \in Tags : MergeInto(s, t) /\ UNCHANGED reportVars
    \/ ReportStatement

InsightsTypeOK ==
    /\ stamp \in Stamps
    /\ present \subseteq Items
    /\ report.pc \in {"idle", "prior", "samples", "totals", "total_prior", "done"}
    /\ DOMAIN report.recent \cup DOMAIN report.prior \subseteq Tags
    /\ \A t \in DOMAIN report.samples : report.samples[t] \subseteq present
    /\ {report.totalRecent, report.totalPrior} \subseteq 0 .. Cardinality(Items)
    /\ report.tags \subseteq DOMAIN report.recent

(***************************************************************************)
(* Properties.                                                             *)
(***************************************************************************)

Reported == report.pc = "done"

Unmerged == store.merges = report.start.merges

\* Items carrying t in a store, with the items it had, over both windows.
InEither(s, had, t) ==
    {i \in had : <<i, t>> \in s.links /\ stamp[i] \in PriorStart .. End - 1}

\* "An item on the boundary is counted exactly once": what a report counts for
\* a tag over both windows lies between the items it had when the report began
\* and those it has now, whatever arrived or was tagged between the two counts.
CountedOnce ==
    Reported /\ Unmerged =>
        \A t \in report.tags :
            LET counted == report.recent[t] + CountOf(report.prior, t)
            IN  /\ Cardinality(InEither(report.start, report.had, t)) <= counted
                /\ counted <= Cardinality(InEither(store, present, t))

\* "A week of items that never got tagged must not read as a quiet week": no
\* tag counts more items than the report says arrived, although items commit
\* late and merges move assignments while it is made.
TotalsCoverCounts ==
    Reported =>
        \A t \in report.tags :
            /\ report.recent[t] <= report.totalRecent
            /\ CountOf(report.prior, t) <= report.totalPrior

\* "A sample that included an older item would make the count look wrong":
\* short of a merge, the evidence of a tag is as many items as were counted,
\* up to the limit, each ingested in the recent window and carrying the tag.
SamplesAreEvidence ==
    Reported /\ Unmerged =>
        \A t \in report.tags :
            LET evidence == report.samples[t]
            IN  /\ Cardinality(evidence) >= Min({Sample, report.recent[t]})
                /\ \A i \in evidence : <<i, t>> \in store.links /\ stamp[i] \in Start .. End - 1

===============================================================================
