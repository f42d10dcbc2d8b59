---------------------------- MODULE InsightsProofs ----------------------------
(***************************************************************************)
(* The trends report beside everything that writes, for every set of items *)
(* and tags, every window and any number of commits between its            *)
(* statements.                                                             *)
(***************************************************************************)
EXTENDS Reads, FiniteSetTheorems, TLAPS

USE CorpusAssumption, InsightsAssumption, StampsAssumption

(***************************************************************************)
(* The invariant.  Each result is kept between two counts that no later    *)
(* commit can spoil: of the items there were when the report began, which  *)
(* never changes, and of those there are now, which only grows until a     *)
(* merge.                                                                  *)
(***************************************************************************)

Begun == report.pc # "idle"
Counted == report.pc \in {"samples", "totals", "total_prior", "done"}
Sampled == report.pc \in {"totals", "total_prior", "done"}
Totalled == report.pc \in {"total_prior", "done"}

\* The items of `had` a store gives t, ingested within a window.
Carrying(s, had, t, from, to) == {i \in had : <<i, t>> \in s.links /\ During(i, from, to)}

Arrived(from, to) == {i \in present : During(i, from, to)}

StoreShape ==
    /\ store = [links |-> store.links, edges |-> store.edges,
                merged |-> store.merged, merges |-> store.merges]
    /\ store.merges \in Nat

ReportShape ==
    report = [pc |-> report.pc, start |-> report.start, had |-> report.had,
              recent |-> report.recent, prior |-> report.prior,
              samples |-> report.samples, totalRecent |-> report.totalRecent,
              totalPrior |-> report.totalPrior, tags |-> report.tags]

Shape ==
    /\ stamp \in [Items -> 0 .. End]
    /\ present \subseteq Items
    /\ StoreShape
    /\ ReportShape

SinceTheStart ==
    Begun =>
        /\ report.had \subseteq present
        /\ report.start.merges \in Nat
        /\ report.start.merges <= store.merges
        /\ Unmerged => report.start.links \subseteq store.links

RecentCounted ==
    Begun =>
        /\ DOMAIN report.recent \subseteq Tags
        /\ \A t \in DOMAIN report.recent :
             report.recent[t] = Cardinality(Carrying(report.start, report.had, t, Start, End))

PriorCounted ==
    Counted =>
        \A t \in Tags :
            /\ CountOf(report.prior, t) \in Nat
            /\ CountOf(report.prior, t) <= Cardinality(Arrived(PriorStart, Start))
            /\ Unmerged =>
                 /\ Cardinality(Carrying(report.start, report.had, t, PriorStart, Start))
                      <= CountOf(report.prior, t)
                 /\ CountOf(report.prior, t)
                      <= Cardinality(Carrying(store, present, t, PriorStart, Start))

SamplesDrawn ==
    Sampled /\ Unmerged =>
        \A t \in DOMAIN report.recent :
            /\ report.samples[t] \subseteq Carrying(store, present, t, Start, End)
            /\ Cardinality(report.samples[t]) >= Min({Sample, report.recent[t]})

TotalsTaken ==
    /\ Totalled =>
         /\ report.tags \subseteq DOMAIN report.recent
         /\ \A t \in DOMAIN report.recent : report.recent[t] <= report.totalRecent
    /\ Reported => \A t \in Tags : CountOf(report.prior, t) <= report.totalPrior

Facts ==
    /\ Shape
    /\ SinceTheStart
    /\ RecentCounted
    /\ PriorCounted
    /\ SamplesDrawn
    /\ TotalsTaken

\* While somebody searches, no report is made.
IInv ==
    \/ reader = "search" /\ report = NoReport
    \/ reader = "report" /\ Facts

(***************************************************************************)
(* Counting.                                                               *)
(***************************************************************************)

LEMMA Windows == PriorStart \in Nat /\ Start \in Nat /\ End \in Nat
                 /\ PriorStart < Start /\ Start < End
BY DEF PriorStart, Start, End

LEMMA Counting ==
    ASSUME NEW B, B \subseteq Items, NEW A, A \subseteq B
    PROVE  /\ IsFiniteSet(A) /\ IsFiniteSet(B)
           /\ Cardinality(A) \in Nat /\ Cardinality(B) \in Nat
           /\ Cardinality(A) <= Cardinality(B)
<1>1. IsFiniteSet(B)
  BY FS_Subset
<1> QED
  BY <1>1, FS_Subset, FS_CardinalityType

LEMMA MinOfTwo ==
    ASSUME NEW a \in Nat, NEW b \in Nat
    PROVE  Min({a, b}) = IF a <= b THEN a ELSE b
<1> DEFINE m == IF a <= b THEN a ELSE b
<1>1. m \in {a, b} /\ \A y \in {a, b} : m <= y
  OBVIOUS
<1>2. \A x \in {a, b} : (\A y \in {a, b} : x <= y) => x = m
  OBVIOUS
<1> QED
  BY <1>1, <1>2 DEF Min

(***************************************************************************)
(* Whatever else is going on.                                              *)
(***************************************************************************)

\* A commit adds to the store, or is a merge.
Grows ==
    /\ StoreShape'
    /\ \/ store'.merges = store.merges /\ store.links \subseteq store'.links
       \/ store'.merges = store.merges + 1

LEMMA CommitsGrow ==
    ASSUME StoreShape
    PROVE  /\ \A i \in Items, t \in Tags : Assign(i, t) => Grows
           /\ \A s, t \in Tags : MergeInto(s, t) => Grows
           /\ UNCHANGED store => Grows
<1>1. ASSUME NEW i \in Items, NEW t \in Tags, Assign(i, t) PROVE Grows
  <2>1. store' = [store EXCEPT !.links = store.links \cup {<<i, t>>}]
    BY <1>1 DEF Assign, Commits
  <2> QED
    BY <2>1 DEF StoreShape, Grows
<1>2. ASSUME NEW s \in Tags, NEW t \in Tags, MergeInto(s, t) PROVE Grows
  <2>1. PICK links, edges :
          store' = [store EXCEPT !.links = links, !.edges = edges,
                      !.merged = store.merged \cup {s}, !.merges = store.merges + 1]
    BY <1>2 DEF MergeInto, Commits
  <2>2. store' = [links |-> links, edges |-> edges, merged |-> store.merged \cup {s},
                  merges |-> store.merges + 1]
    BY <2>1 DEF StoreShape
  <2>3. store'.merges = store.merges + 1 /\ StoreShape'
    BY <2>2 DEF StoreShape
  <2> QED
    BY <2>3 DEF Grows
<1>3. UNCHANGED store => Grows
  BY DEF StoreShape, Grows
<1> QED
  BY <1>1, <1>2, <1>3

LEMMA OthersKeep ==
    ASSUME Facts, Grows, UNCHANGED <<stamp, report>>,
           present \subseteq present', present' \subseteq Items
    PROVE  Facts'
<1>1. /\ Shape /\ SinceTheStart /\ RecentCounted /\ PriorCounted /\ SamplesDrawn
      /\ TotalsTaken
  BY DEF Facts
<1>2. Begun /\ Unmerged' => Unmerged /\ store.links \subseteq store'.links
  BY <1>1 DEF SinceTheStart, Unmerged, Grows, Shape, StoreShape
<1>3. /\ Begun' <=> Begun
      /\ Counted' <=> Counted
      /\ Sampled' <=> Sampled
      /\ Totalled' <=> Totalled
      /\ Reported' <=> Reported
      /\ Counted => Begun
      /\ Sampled => Begun
  BY DEF Begun, Counted, Sampled, Totalled, Reported
<1>4. \A t, from, to : Begun /\ Unmerged' =>
        Carrying(store, present, t, from, to) \subseteq Carrying(store, present, t, from, to)'
  BY <1>2 DEF Carrying, During
<1>5. Shape'
  BY <1>1 DEF Shape, ReportShape, Grows
<1>6. SinceTheStart'
  <2> SUFFICES ASSUME Begun PROVE SinceTheStart'
    BY <1>3 DEF SinceTheStart
  <2>1. Unmerged' => report.start.links \subseteq store'.links
    BY <1>1, <1>2 DEF SinceTheStart
  <2>2. store'.merges \in Nat /\ store'.merges >= store.merges
    BY <1>1 DEF Shape, StoreShape, Grows
  <2>3. /\ report.had \subseteq present' /\ report.start.merges \in Nat
        /\ report.start.merges <= store'.merges
    BY <1>1, <2>2 DEF SinceTheStart, Shape, StoreShape
  <2> QED
    BY <2>1, <2>3 DEF SinceTheStart
<1>7. RecentCounted'
  BY <1>1, <1>3 DEF RecentCounted, Carrying, During
<1>8. PriorCounted'
  <2> SUFFICES ASSUME Counted, NEW t \in Tags
               PROVE  /\ CountOf(report.prior, t) \in Nat
                      /\ CountOf(report.prior, t) <= Cardinality(Arrived(PriorStart, Start)')
                      /\ Unmerged' =>
                           /\ Cardinality(Carrying(report.start, report.had, t, PriorStart, Start)')
                                <= CountOf(report.prior, t)
                           /\ CountOf(report.prior, t)
                                <= Cardinality(Carrying(store, present, t, PriorStart, Start)')
    BY <1>3 DEF PriorCounted, CountOf
  <2> DEFINE n == CountOf(report.prior, t)
             now == Carrying(store, present, t, PriorStart, Start)
             then == Carrying(report.start, report.had, t, PriorStart, Start)
  <2>1. /\ n \in Nat /\ n <= Cardinality(Arrived(PriorStart, Start))
        /\ Unmerged => Cardinality(then) <= n /\ n <= Cardinality(now)
    BY <1>1 DEF PriorCounted
  <2>2. Arrived(PriorStart, Start) \subseteq Arrived(PriorStart, Start)'
        /\ Arrived(PriorStart, Start)' \subseteq Items
    BY DEF Arrived, During
  <2>3. /\ Cardinality(Arrived(PriorStart, Start)) \in Nat
        /\ Cardinality(Arrived(PriorStart, Start)') \in Nat
        /\ Cardinality(Arrived(PriorStart, Start)) <= Cardinality(Arrived(PriorStart, Start)')
    BY <2>2, Counting
  <2>4. then' = then
    BY DEF Carrying, During
  <2>5. ASSUME Unmerged' PROVE Cardinality(then') <= n /\ n <= Cardinality(now')
    <3>1. now \subseteq now' /\ now' \subseteq Items
      BY <1>3, <1>4, <2>5 DEF Carrying
    <3>2. Cardinality(now) \in Nat /\ Cardinality(now') \in Nat
          /\ Cardinality(now) <= Cardinality(now')
      BY <3>1, Counting
    <3> HIDE DEF now, then, n
    <3> QED
      BY <1>2, <1>3, <2>1, <2>4, <2>5, <3>2
  <2> HIDE DEF n
  <2>6. n <= Cardinality(Arrived(PriorStart, Start)')
    BY <2>1, <2>3
  <2> QED
    BY <2>1, <2>5, <2>6 DEF n
<1>9. SamplesDrawn'
  <2> SUFFICES ASSUME Sampled, Unmerged', NEW t \in DOMAIN report.recent
               PROVE  /\ report.samples[t] \subseteq Carrying(store, present, t, Start, End)'
                      /\ Cardinality(report.samples[t]) >= Min({Sample, report.recent[t]})
    BY <1>3 DEF SamplesDrawn
  <2> QED
    BY <1>1, <1>2, <1>3, <1>4 DEF SamplesDrawn
<1>10. TotalsTaken'
  BY <1>1, <1>3 DEF TotalsTaken, CountOf
<1> QED
  BY <1>5, <1>6, <1>7, <1>8, <1>9, <1>10 DEF Facts

(***************************************************************************)
(* The statements of a report.                                             *)
(***************************************************************************)

\* A tag without items has no row, and is read as zero.
LEMMA CountsAreTagged ==
    ASSUME NEW from, NEW to, NEW t \in Tags, present \subseteq Items
    PROVE  /\ DOMAIN CountsByTag(from, to) \subseteq Tags
           /\ t \in DOMAIN CountsByTag(from, to) =>
                CountsByTag(from, to)[t] = Cardinality(Carrying(store, present, t, from, to))
           /\ CountOf(CountsByTag(from, to), t)
                = Cardinality(Carrying(store, present, t, from, to))
<1>1. Tagged(t, from, to) = Carrying(store, present, t, from, to)
  BY DEF Tagged, Carrying
<1>2. CountsByTag(from, to) =
        [u \in {v \in Tags : Tagged(v, from, to) # {}} |-> Cardinality(Tagged(u, from, to))]
  BY DEF CountsByTag
<1>3. t \notin DOMAIN CountsByTag(from, to) => Cardinality(Tagged(t, from, to)) = 0
  BY <1>2, FS_EmptySet
<1> HIDE DEF CountsByTag
<1> QED
  BY <1>1, <1>2, <1>3 DEF CountOf

LEMMA CountRecentKeeps ==
    ASSUME Facts, CountRecent
    PROVE  Facts'
<1>1. /\ UNCHANGED <<store, stamp, present>> /\ Shape
      /\ report' = [NoReport EXCEPT !.pc = "prior", !.start = store, !.had = present,
                       !.recent = CountsByTag(Start, End)]
  BY DEF CountRecent, corpusVars, Facts
<1>2. /\ report'.pc = "prior" /\ report'.start = store /\ report'.had = present
      /\ report'.recent = CountsByTag(Start, End) /\ ReportShape'
  BY <1>1 DEF NoReport, ReportShape
<1>3. ~Counted' /\ ~Sampled' /\ ~Totalled' /\ ~Reported'
  BY <1>2 DEF Counted, Sampled, Totalled, Reported
<1>4. Shape'
  BY <1>1, <1>2 DEF Shape, StoreShape
<1>5. SinceTheStart'
  BY <1>1, <1>2 DEF SinceTheStart, Shape, StoreShape
<1>6. RecentCounted'
  <2>1. DOMAIN report'.recent \subseteq Tags
    BY <1>2 DEF CountsByTag
  <2>2. ASSUME NEW t \in DOMAIN report'.recent
        PROVE  report'.recent[t] =
                 Cardinality(Carrying(report.start, report.had, t, Start, End)')
    <3>1. report'.recent[t] = Cardinality(Carrying(store, present, t, Start, End))
      BY <1>1, <1>2, <2>1, <2>2, CountsAreTagged DEF Shape
    <3>2. Carrying(report.start, report.had, t, Start, End)'
            = Carrying(store, present, t, Start, End)
      BY <1>1, <1>2 DEF Carrying, During
    <3> QED
      BY <3>1, <3>2
  <2> QED
    BY <2>1, <2>2 DEF RecentCounted
<1> QED
  BY <1>3, <1>4, <1>5, <1>6 DEF Facts, PriorCounted, SamplesDrawn, TotalsTaken

\* What every later statement leaves as it is.
GoesOn(pc) ==
    /\ UNCHANGED <<store, stamp, present>>
    /\ ReportShape'
    /\ report'.pc = pc
    /\ report'.start = report.start /\ report'.had = report.had
    /\ report'.recent = report.recent

LEMMA GoingOn ==
    ASSUME Facts, Begun, NEW pc, GoesOn(pc)
    PROVE  Shape' /\ SinceTheStart' /\ RecentCounted' /\ (Unmerged' <=> Unmerged)
<1>1. Shape'
  BY DEF Facts, Shape, StoreShape, GoesOn
<1>2. Unmerged' <=> Unmerged
  BY DEF Unmerged, GoesOn
<1>3. SinceTheStart'
  BY <1>2 DEF Facts, SinceTheStart, GoesOn
<1>4. RecentCounted'
  BY DEF Facts, RecentCounted, GoesOn, Carrying, During
<1> QED
  BY <1>1, <1>2, <1>3, <1>4

LEMMA PriorStays ==
    ASSUME Facts, Counted, NEW pc, GoesOn(pc), report'.prior = report.prior
    PROVE  PriorCounted'
<1>1. PriorCounted /\ (Unmerged' <=> Unmerged)
  BY GoingOn DEF Facts, Begun, Counted
<1>2. ASSUME NEW t
      PROVE  /\ CountOf(report.prior, t)' = CountOf(report.prior, t)
             /\ Carrying(store, present, t, PriorStart, Start)'
                  = Carrying(store, present, t, PriorStart, Start)
             /\ Carrying(report.start, report.had, t, PriorStart, Start)'
                  = Carrying(report.start, report.had, t, PriorStart, Start)
  BY DEF GoesOn, Carrying, During, CountOf
<1>3. Arrived(PriorStart, Start)' = Arrived(PriorStart, Start)
  BY DEF GoesOn, Arrived, During
<1> QED
  BY <1>1, <1>2, <1>3 DEF PriorCounted

LEMMA CountPriorKeeps ==
    ASSUME Facts, CountPrior
    PROVE  Facts'
<1>1. /\ UNCHANGED <<store, stamp, present>> /\ Shape /\ report.pc = "prior" /\ ReportShape
      /\ report' = [report EXCEPT !.pc = "samples", !.prior = CountsByTag(PriorStart, Start)]
  BY DEF CountPrior, corpusVars, Facts, Shape
<1>2. GoesOn("samples") /\ report'.prior = CountsByTag(PriorStart, Start)
  BY <1>1 DEF ReportShape, GoesOn
<1>3. Begun /\ SinceTheStart /\ Shape' /\ SinceTheStart' /\ RecentCounted' /\ (Unmerged' <=> Unmerged)
  BY <1>1, <1>2, GoingOn DEF Begun, Facts
<1>4. PriorCounted'
  <2> SUFFICES ASSUME NEW t \in Tags
               PROVE  /\ CountOf(report.prior, t)' \in Nat
                      /\ CountOf(report.prior, t)' <= Cardinality(Arrived(PriorStart, Start)')
                      /\ Unmerged' =>
                           /\ Cardinality(Carrying(report.start, report.had, t, PriorStart, Start)')
                                <= CountOf(report.prior, t)'
                           /\ CountOf(report.prior, t)'
                                <= Cardinality(Carrying(store, present, t, PriorStart, Start)')
    BY DEF PriorCounted
  <2> DEFINE now == Carrying(store, present, t, PriorStart, Start)
             then == Carrying(report.start, report.had, t, PriorStart, Start)
             all == Arrived(PriorStart, Start)
  <2>1. now' = now /\ then' = then /\ all' = all
    BY <1>2 DEF GoesOn, Carrying, During, Arrived
  <2>2. CountOf(report.prior, t)' = Cardinality(now)
    <3>1. CountOf(report.prior, t)' = CountOf(CountsByTag(PriorStart, Start), t)
      BY <1>2 DEF CountOf
    <3> QED
      BY <1>1, <3>1, CountsAreTagged DEF Shape
  <2>3. now \subseteq all /\ all \subseteq Items
    BY <1>1 DEF Carrying, Arrived, Shape
  <2>4. Unmerged => then \subseteq now /\ now \subseteq Items
    BY <1>1, <1>3 DEF Carrying, SinceTheStart, Shape
  <2> HIDE DEF now, then, all
  <2>5. Cardinality(now) \in Nat /\ Cardinality(now) <= Cardinality(all)
    BY <2>3, Counting
  <2>6. Unmerged => Cardinality(then) <= Cardinality(now)
    BY <2>4, Counting
  <2> QED
    BY <1>3, <2>1, <2>2, <2>5, <2>6 DEF now, then, all
<1>5. ~Sampled' /\ ~Totalled' /\ ~Reported'
  BY <1>2 DEF Sampled, Totalled, Reported, GoesOn
<1> QED
  BY <1>3, <1>4, <1>5 DEF Facts, SamplesDrawn, TotalsTaken

LEMMA DrawSamplesKeeps ==
    ASSUME Facts, DrawSamples
    PROVE  Facts'
<1>1. PICK drawn \in [DOMAIN report.recent -> SUBSET present] :
        /\ \A t \in DOMAIN drawn : drawn[t] \in SamplesOf(t)
        /\ report' = [report EXCEPT !.pc = "totals", !.samples = drawn]
  BY DEF DrawSamples
<1>2. /\ UNCHANGED <<store, stamp, present>> /\ Shape /\ report.pc = "samples" /\ ReportShape
  BY DEF DrawSamples, corpusVars, Facts, Shape
<1>3. GoesOn("totals") /\ report'.prior = report.prior /\ report'.samples = drawn
  BY <1>1, <1>2 DEF ReportShape, GoesOn
<1>4. /\ Begun /\ Counted /\ SinceTheStart /\ RecentCounted
      /\ Shape' /\ SinceTheStart' /\ RecentCounted' /\ (Unmerged' <=> Unmerged)
  BY <1>2, <1>3, GoingOn DEF Begun, Counted, Facts
<1>5. PriorCounted'
  BY <1>3, <1>4, PriorStays
<1>6. SamplesDrawn'
  <2> SUFFICES ASSUME Unmerged, NEW t \in DOMAIN report.recent
               PROVE  /\ drawn[t] \subseteq Carrying(store, present, t, Start, End)'
                      /\ Cardinality(drawn[t]) >= Min({Sample, report.recent[t]})
    BY <1>3, <1>4 DEF SamplesDrawn, GoesOn
  <2> DEFINE now == Carrying(store, present, t, Start, End)
             then == Carrying(report.start, report.had, t, Start, End)
  <2>1. Tagged(t, Start, End) = now
    BY DEF Tagged, Carrying
  <2>2. drawn[t] \subseteq now /\ Cardinality(drawn[t]) = Min({Sample, Cardinality(now)})
    BY <1>1, <2>1 DEF SamplesOf
  <2>3. then \subseteq now /\ now \subseteq Items
    BY <1>2, <1>4 DEF Carrying, SinceTheStart, Shape
  <2>4. report.recent[t] = Cardinality(then)
    BY <1>4 DEF RecentCounted
  <2>5. now' = now
    BY <1>3 DEF GoesOn, Carrying, During
  <2> HIDE DEF now, then
  <2>6. /\ Cardinality(then) \in Nat /\ Cardinality(now) \in Nat
        /\ Cardinality(then) <= Cardinality(now)
    BY <2>3, Counting
  <2>7. Sample \in Nat
    OBVIOUS
  <2>8. /\ Min({Sample, Cardinality(now)}) =
             IF Sample <= Cardinality(now) THEN Sample ELSE Cardinality(now)
        /\ Min({Sample, Cardinality(then)}) =
             IF Sample <= Cardinality(then) THEN Sample ELSE Cardinality(then)
    BY <2>6, <2>7, MinOfTwo
  <2>9. Cardinality(drawn[t]) >= Min({Sample, report.recent[t]})
    BY <2>2, <2>4, <2>6, <2>7, <2>8
  <2> QED
    BY <2>2, <2>5, <2>9 DEF now
<1>7. ~Totalled' /\ ~Reported'
  BY <1>3 DEF Totalled, Reported, GoesOn
<1> QED
  BY <1>4, <1>5, <1>6, <1>7 DEF Facts, TotalsTaken

LEMMA SamplesStay ==
    ASSUME Facts, Sampled, NEW pc, GoesOn(pc), report'.samples = report.samples
    PROVE  SamplesDrawn'
<1>1. SamplesDrawn /\ (Unmerged' <=> Unmerged)
  BY GoingOn DEF Facts, Begun, Sampled
<1>2. \A t : Carrying(store, present, t, Start, End)' = Carrying(store, present, t, Start, End)
  BY DEF GoesOn, Carrying, During
<1> QED
  BY <1>1, <1>2 DEF SamplesDrawn, GoesOn

LEMMA TotalRecentKeeps ==
    ASSUME Facts, TotalRecent
    PROVE  Facts'
<1>1. PICK K \in TopTags :
        report' = [report EXCEPT !.pc = "total_prior", !.tags = K,
                     !.totalRecent = TotalItems(Start, End)]
  BY DEF TotalRecent
<1>2. /\ UNCHANGED <<store, stamp, present>> /\ Shape /\ report.pc = "totals" /\ ReportShape
  BY DEF TotalRecent, corpusVars, Facts, Shape
<1>3. /\ GoesOn("total_prior") /\ report'.prior = report.prior
      /\ report'.samples = report.samples /\ report'.tags = K
      /\ report'.totalRecent = TotalItems(Start, End)
  BY <1>1, <1>2 DEF ReportShape, GoesOn
<1>4. /\ Begun /\ Counted /\ Sampled /\ SinceTheStart /\ RecentCounted
      /\ Shape' /\ SinceTheStart' /\ RecentCounted'
  BY <1>2, <1>3, GoingOn DEF Begun, Counted, Sampled, Facts
<1>5. PriorCounted' /\ SamplesDrawn'
  BY <1>3, <1>4, PriorStays, SamplesStay
<1>6. K \subseteq DOMAIN report.recent
  BY DEF TopTags
<1>7. ASSUME NEW t \in DOMAIN report.recent
      PROVE  report.recent[t] <= TotalItems(Start, End)
  <2> DEFINE then == Carrying(report.start, report.had, t, Start, End)
             all == {i \in present : During(i, Start, End)}
  <2>1. then \subseteq all /\ all \subseteq Items
    BY <1>2, <1>4 DEF Carrying, SinceTheStart, Shape
  <2>2. report.recent[t] = Cardinality(then) /\ TotalItems(Start, End) = Cardinality(all)
    BY <1>4 DEF RecentCounted, TotalItems
  <2> HIDE DEF then, all
  <2> QED
    BY <2>1, <2>2, Counting
<1>8. TotalsTaken'
  BY <1>3, <1>6, <1>7 DEF TotalsTaken, GoesOn, Reported
<1> QED
  BY <1>4, <1>5, <1>8 DEF Facts

LEMMA TotalPriorKeeps ==
    ASSUME Facts, TotalPrior
    PROVE  Facts'
<1>1. /\ UNCHANGED <<store, stamp, present>> /\ Shape /\ report.pc = "total_prior" /\ ReportShape
      /\ report' = [report EXCEPT !.pc = "done", !.totalPrior = TotalItems(PriorStart, Start)]
  BY DEF TotalPrior, corpusVars, Facts, Shape
<1>2. /\ GoesOn("done") /\ report'.prior = report.prior
      /\ report'.samples = report.samples /\ report'.tags = report.tags
      /\ report'.totalRecent = report.totalRecent
      /\ report'.totalPrior = TotalItems(PriorStart, Start)
  BY <1>1 DEF ReportShape, GoesOn
<1>3. /\ Begun /\ Counted /\ Sampled /\ Totalled /\ PriorCounted /\ TotalsTaken
      /\ Shape' /\ SinceTheStart' /\ RecentCounted'
  BY <1>1, <1>2, GoingOn DEF Begun, Counted, Sampled, Totalled, Facts
<1>4. PriorCounted' /\ SamplesDrawn'
  BY <1>2, <1>3, PriorStays, SamplesStay
<1>5. \A t \in Tags : CountOf(report.prior, t) <= TotalItems(PriorStart, Start)
  BY <1>3 DEF PriorCounted, TotalItems, Arrived
<1>6. TotalsTaken'
  BY <1>2, <1>3, <1>5 DEF TotalsTaken, GoesOn, CountOf
<1> QED
  BY <1>3, <1>4, <1>6 DEF Facts

(***************************************************************************)
(* The theorems.                                                           *)
(***************************************************************************)

LEMMA InitInvariant == Init => IInv
<1> SUFFICES ASSUME Init PROVE IInv
  OBVIOUS
<1>1. CASE reader = "search"
  BY <1>1 DEF Init, IInv
<1>2. CASE reader = "report"
  <2>1. /\ stamp \in Stamps /\ present \in SUBSET Items /\ report = NoReport
        /\ \E b \in Beginnings :
             store = [EmptyStore EXCEPT !.links = b[1], !.edges = b[2]]
    BY <1>2 DEF Init, CorpusInit, InsightsInit
  <2>2. report.pc = "idle" /\ ReportShape
    BY <2>1 DEF NoReport, ReportShape
  <2>3. StoreShape
    <3>1. PICK b \in Beginnings : store = [EmptyStore EXCEPT !.links = b[1], !.edges = b[2]]
      BY <2>1
    <3>2. store = [links |-> b[1], edges |-> b[2], merged |-> {}, merges |-> 0]
      BY <3>1 DEF EmptyStore
    <3> QED
      BY <3>2 DEF StoreShape
  <2>4. Shape
    BY <2>1, <2>2, <2>3 DEF Shape
  <2>5. ~Begun /\ ~Counted /\ ~Sampled /\ ~Totalled /\ ~Reported
    BY <2>2 DEF Begun, Counted, Sampled, Totalled, Reported
  <2> QED
    BY <1>2, <2>4, <2>5 DEF IInv, Facts, SinceTheStart, RecentCounted, PriorCounted,
                            SamplesDrawn, TotalsTaken
<1> QED
  BY <1>1, <1>2 DEF Init

LEMMA StepInvariant == IInv /\ [Next]_vars => IInv'
<1> SUFFICES ASSUME IInv, [Next]_vars PROVE IInv'
  OBVIOUS
<1>1. CASE reader = "search"
  <2>1. UNCHANGED <<report, reader>>
    BY <1>1 DEF Next, vars, reportVars
  <2> QED
    BY <1>1, <2>1 DEF IInv
<1>2. CASE reader = "report" /\ Facts
  <2>1. reader' = "report"
    BY <1>2 DEF Next, vars
  <2>2. StoreShape /\ present \subseteq Items
    BY <1>2 DEF Facts, Shape
  <2>3. CASE UNCHANGED vars
    <3>1. Grows /\ UNCHANGED <<stamp, report, present>>
      BY <2>2, <2>3, CommitsGrow DEF vars, corpusVars, reportVars
    <3> QED
      BY <1>2, <2>1, <2>2, <3>1, OthersKeep DEF IInv
  <2>4. ASSUME NEW i \in Items, Commit(i) PROVE IInv'
    <3>1. Grows /\ UNCHANGED <<stamp, report>> /\ present' = present \cup {i}
      BY <2>2, <2>4, CommitsGrow DEF Commit, corpusVars
    <3> QED
      BY <1>2, <2>1, <2>2, <3>1, OthersKeep DEF IInv
  <2>5. ASSUME NEW i \in present, NEW t \in Tags, Assign(i, t), UNCHANGED reportVars
        PROVE  IInv'
    <3>1. Grows /\ UNCHANGED <<stamp, report, present>>
      BY <2>2, <2>5, CommitsGrow DEF reportVars
    <3> QED
      BY <1>2, <2>1, <2>2, <3>1, OthersKeep DEF IInv
  <2>6. ASSUME NEW s \in Tags, NEW t \in Tags, MergeInto(s, t), UNCHANGED reportVars
        PROVE  IInv'
    <3>1. Grows /\ UNCHANGED <<stamp, report, present>>
      BY <2>2, <2>6, CommitsGrow DEF reportVars
    <3> QED
      BY <1>2, <2>1, <2>2, <3>1, OthersKeep DEF IInv
  <2>7. CASE ReportStatement
    BY <1>2, <2>1, <2>7, CountRecentKeeps, CountPriorKeeps, DrawSamplesKeeps,
       TotalRecentKeeps, TotalPriorKeeps DEF IInv, ReportStatement
  <2> QED
    BY <1>2, <2>3, <2>4, <2>5, <2>6, <2>7 DEF Next, InsightsNext
<1> QED
  BY <1>1, <1>2 DEF IInv

THEOREM ReportInvariant == Spec => []IInv
<1>1. Init => IInv
  BY InitInvariant
<1>2. IInv /\ [Next]_vars => IInv'
  BY StepInvariant
<1> QED
  BY <1>1, <1>2, PTL DEF Spec

LEMMA OnlyReports == IInv /\ Reported => Facts /\ Begun /\ Counted /\ Sampled /\ Totalled
BY DEF IInv, Reported, NoReport, Begun, Counted, Sampled, Totalled

\* No tag of a report counts more items than the report says arrived, whatever
\* commits and merges come between its statements: the totals are counted last.
THEOREM TotalsCover == Spec => []TotalsCoverCounts
<1>1. IInv => TotalsCoverCounts
  <2> SUFFICES ASSUME IInv, Reported, NEW t \in report.tags
               PROVE  /\ report.recent[t] <= report.totalRecent
                      /\ CountOf(report.prior, t) <= report.totalPrior
    BY DEF TotalsCoverCounts
  <2>1. Facts /\ Begun /\ Totalled
    BY OnlyReports
  <2>2. t \in DOMAIN report.recent /\ t \in Tags
    BY <2>1 DEF Facts, TotalsTaken, RecentCounted
  <2> QED
    BY <2>1, <2>2 DEF Facts, TotalsTaken
<1> QED
  BY <1>1, ReportInvariant, PTL

\* Short of a merge, an item of either window is counted once, by one of two
\* statements, each of which sees another commit.
THEOREM ItemsCountOnce == Spec => []CountedOnce
<1>1. IInv => CountedOnce
  <2> SUFFICES ASSUME IInv, Reported, Unmerged, NEW t \in report.tags
               PROVE  LET counted == report.recent[t] + CountOf(report.prior, t)
                      IN  /\ Cardinality(InEither(report.start, report.had, t)) <= counted
                          /\ counted <= Cardinality(InEither(store, present, t))
    BY DEF CountedOnce
  <2>1. Facts /\ Begun /\ Counted /\ Totalled
    BY OnlyReports
  <2>2. t \in DOMAIN report.recent /\ t \in Tags
    BY <2>1 DEF Facts, TotalsTaken, RecentCounted
  <2>3. stamp \in [Items -> 0 .. End] /\ present \subseteq Items
        /\ report.had \subseteq present /\ report.start.links \subseteq store.links
    BY <2>1 DEF Facts, Shape, SinceTheStart
  <2>4. ASSUME NEW s, NEW had, had \subseteq Items
        PROVE  /\ Cardinality(InEither(s, had, t)) =
                    Cardinality(Carrying(s, had, t, Start, End))
                      + Cardinality(Carrying(s, had, t, PriorStart, Start))
               /\ Cardinality(Carrying(s, had, t, Start, End)) \in Nat
               /\ Cardinality(Carrying(s, had, t, PriorStart, Start)) \in Nat
    <3> DEFINE R == Carrying(s, had, t, Start, End)
               P == Carrying(s, had, t, PriorStart, Start)
    <3>1. \A i \in had : stamp[i] \in Nat
      BY <2>3, <2>4, Windows
    <3> DEFINE all == InEither(s, had, t)
               both == R \cap P
    <3>2. all = R \cup P
      BY <2>3, <2>4, <3>1, Windows DEF InEither, Carrying, During
    <3>3. both = {}
      BY <2>3, <2>4, <3>1, Windows DEF Carrying, During
    <3>4. R \subseteq Items /\ P \subseteq Items
      BY <2>4 DEF Carrying
    <3> HIDE DEF R, P
    <3>5. /\ IsFiniteSet(R) /\ IsFiniteSet(P)
          /\ Cardinality(R) \in Nat /\ Cardinality(P) \in Nat
      BY <3>4, Counting
    <3>6. Cardinality(R \cup P) = Cardinality(R) + Cardinality(P) - Cardinality(both)
      BY <3>5, FS_Union DEF both
    <3> HIDE DEF all, both
    <3>7. Cardinality(both) = 0
      BY <3>3, FS_EmptySet
    <3>8. Cardinality(R \cup P) = Cardinality(R) + Cardinality(P)
      BY <3>5, <3>6, <3>7
    <3>9. Cardinality(all) = Cardinality(R) + Cardinality(P)
      BY <3>2, <3>8, Zenon
    <3> QED
      BY <3>5, <3>9 DEF R, P, all
  <2> DEFINE then == Cardinality(Carrying(report.start, report.had, t, Start, End))
             now == Cardinality(Carrying(store, present, t, Start, End))
             thenPrior == Cardinality(Carrying(report.start, report.had, t, PriorStart, Start))
             nowPrior == Cardinality(Carrying(store, present, t, PriorStart, Start))
  <2>5. /\ Cardinality(InEither(report.start, report.had, t)) = then + thenPrior
        /\ Cardinality(InEither(store, present, t)) = now + nowPrior
        /\ then \in Nat /\ thenPrior \in Nat /\ now \in Nat /\ nowPrior \in Nat
    BY <2>3, <2>4
  <2>6. report.recent[t] = then /\ then <= now
    <3>1. Carrying(report.start, report.had, t, Start, End)
            \subseteq Carrying(store, present, t, Start, End)
          /\ Carrying(store, present, t, Start, End) \subseteq Items
      BY <2>3 DEF Carrying
    <3>2. then <= now
      BY <3>1, Counting
    <3> QED
      BY <2>1, <2>2, <3>2 DEF Facts, RecentCounted
  <2>7. /\ CountOf(report.prior, t) \in Nat
        /\ thenPrior <= CountOf(report.prior, t) /\ CountOf(report.prior, t) <= nowPrior
    BY <2>1, <2>2 DEF Facts, PriorCounted
  <2> HIDE DEF then, now, thenPrior, nowPrior
  <2> QED
    BY <2>5, <2>6, <2>7
<1> QED
  BY <1>1, ReportInvariant, PTL

\* Short of a merge, the evidence beside a count is as many items as were
\* counted, up to the limit, each in the recent window and carrying the tag,
\* although it is drawn two statements later.
THEOREM EvidenceIsThere == Spec => []SamplesAreEvidence
<1>1. IInv => SamplesAreEvidence
  <2> SUFFICES ASSUME IInv, Reported, Unmerged, NEW t \in report.tags
               PROVE  /\ Cardinality(report.samples[t]) >= Min({Sample, report.recent[t]})
                      /\ \A i \in report.samples[t] :
                           <<i, t>> \in store.links /\ stamp[i] \in Start .. End - 1
    BY DEF SamplesAreEvidence
  <2>1. Facts /\ Begun /\ Sampled /\ Totalled
    BY OnlyReports
  <2>2. t \in DOMAIN report.recent
    BY <2>1 DEF Facts, TotalsTaken
  <2>3. /\ report.samples[t] \subseteq Carrying(store, present, t, Start, End)
        /\ Cardinality(report.samples[t]) >= Min({Sample, report.recent[t]})
    BY <2>1, <2>2 DEF Facts, SamplesDrawn
  <2>4. \A i \in Carrying(store, present, t, Start, End) :
          <<i, t>> \in store.links /\ stamp[i] \in Nat /\ Start <= stamp[i] /\ stamp[i] < End
    BY <2>1, Windows DEF Facts, Shape, Carrying, During
  <2> QED
    BY <2>3, <2>4, Windows
<1> QED
  BY <1>1, ReportInvariant, PTL

===============================================================================
