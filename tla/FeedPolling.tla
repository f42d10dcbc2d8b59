----------------------------- MODULE FeedPolling ------------------------------
(***************************************************************************)
(* Polling RSS and Atom feeds.  One poll reads every configured feed in    *)
(* turn and skips the ones that fail.  A feed shows its newest entries     *)
(* only, its publisher may edit a title, and an entry names itself by      *)
(* whatever it has: a guid, else its URL, else its title.                  *)
(***************************************************************************)
EXTENDS Polls, Sublists

CONSTANTS
    Feeds,      \* sequence of configured feeds, in settings order
    Posts,
    FeedOf,     \* [Posts -> Range(Feeds)]
    GuidOf,     \* [posts with a guid -> guids]; publishers may reuse one
    Linked,     \* posts with a URL
    Titled,     \* posts with a title
    PageSize,   \* external: entries a feed shows
    MaxEdits,   \* bound: edits of one title
    MaxOutages  \* bound: times a feed goes down

ASSUME FeedAssumption ==
    /\ Feeds \in Seq(Range(Feeds))
    /\ FeedOf \in [Posts -> Range(Feeds)]
    /\ DOMAIN GuidOf \cup Linked \cup Titled \subseteq Posts
    /\ {PageSize, MaxEdits, MaxOutages} \subseteq Nat

VARIABLES
    history,   \* [Range(Feeds) -> Seq(Posts)], oldest first
    edits,     \* [Posts -> edits of its title so far]
    down,      \* feeds that cannot be fetched or do not parse
    outages

feedVars == <<history, edits, down, outages>>

Guided == DOMAIN GuidOf

\* What a feed serves: its newest PageSize posts.
Page(f) ==
    LET h == history[f]
    IN  SubSeq(h, IF Len(h) > PageSize THEN Len(h) - PageSize + 1 ELSE 1, Len(h))

(***************************************************************************)
(* Source ids.                                                             *)
(***************************************************************************)

\* Mutation of EntryId: the title is preferred to the URL.
EntryIdByTitle(p) ==
    CASE p \in Guided -> <<"guid", GuidOf[p]>>
      [] p \in Titled \ Guided -> <<"title", FeedOf[p], p, edits[p]>>
      [] OTHER -> <<"url", p>>

\* The first of guid, URL and title hashed with the feed.
EntryId(p) ==
    CASE p \in Guided -> <<"guid", GuidOf[p]>>
      [] p \in Linked \ Guided -> <<"url", p>>
      [] OTHER -> <<"title", FeedOf[p], p, edits[p]>>

EntryIds == ({"guid"} \X Range(GuidOf)) \cup ({"url"} \X Linked)
              \cup ({"title"} \X Range(Feeds) \X Titled \X (0 .. MaxEdits))

\* An entry with none of the three is dropped.
Usable(p) == p \in Guided \cup Linked \cup Titled

(***************************************************************************)
(* Publishers.                                                             *)
(***************************************************************************)

Publish(p) ==
    /\ p \notin Range(history[FeedOf[p]])
    /\ history' = [history EXCEPT ![FeedOf[p]] = Append(@, p)]
    /\ UNCHANGED <<pollVars, edits, down, outages>>

EditTitle(p) ==
    /\ p \in Range(history[FeedOf[p]]) \cap Titled
    /\ edits[p] < MaxEdits
    /\ edits' = [edits EXCEPT ![p] = @ + 1]
    /\ UNCHANGED <<pollVars, history, down, outages>>

GoDown(f) ==
    /\ f \notin down
    /\ outages < MaxOutages
    /\ down' = down \cup {f}
    /\ outages' = outages + 1
    /\ UNCHANGED <<pollVars, history, edits>>

ComeBack(f) ==
    /\ f \in down
    /\ down' = down \ {f}
    /\ UNCHANGED <<pollVars, history, edits, outages>>

(***************************************************************************)
(* A poll.                                                                 *)
(***************************************************************************)

\* poll_substack: without feeds there is no poll, and no health record.
BeginPoll ==
    /\ Feeds # <<>>
    /\ Begin(Feeds)
    /\ UNCHANGED feedVars

\* Every usable entry of a feed becomes a record.
ReadFeed ==
    /\ poll.todo # <<>>
    /\ Head(poll.todo) \notin down
    /\ LET page == Page(Head(poll.todo))
           usable == Picked(page, {n \in DOMAIN page : Usable(page[n])})
       IN  Yields([n \in DOMAIN usable |-> [id |-> EntryId(usable[n]), of |-> usable[n]]])
    /\ UNCHANGED <<feedVars, faults>>

\* Mutation of SkipFeed: FeedError leaves fetch().
FeedEndsPoll ==
    /\ poll.todo # <<>>
    /\ Head(poll.todo) \in down
    /\ poll' = IdlePoll
    /\ health' = "failure"
    /\ UNCHANGED <<source, items, faults, feedVars>>

\* FeedError: logged, and on to the next feed.
SkipFeed ==
    /\ poll.todo # <<>>
    /\ Head(poll.todo) \in down
    /\ Yields(<<>>)
    /\ UNCHANGED <<feedVars, faults>>

FeedTypeOK ==
    /\ \A f \in Range(Feeds) : history[f] \in Seq(Posts) /\ IsInjective(history[f])
    /\ edits \in [Posts -> 0 .. MaxEdits]
    /\ down \subseteq Range(Feeds)
    /\ outages \in 0 .. MaxOutages
    /\ source = "substack" =>
         /\ items \subseteq [id : EntryIds, of : Posts]
         /\ poll.todo \in Seq(Range(Feeds))
         /\ poll.records \in Seq([id : EntryIds, of : Posts])

FeedInit ==
    /\ history = [f \in Range(Feeds) |-> <<>>]
    /\ edits = [p \in Posts |-> 0]
    /\ down = {}
    /\ outages = 0

FeedPoll == BeginPoll \/ ReadFeed \/ SkipFeed

FeedNext ==
    \/ \E p \in Posts : Publish(p) \/ EditTitle(p)
    \/ \E f \in Range(Feeds) : GoDown(f) \/ ComeBack(f)
    \/ FeedPoll

(***************************************************************************)
(* Properties.                                                             *)
(***************************************************************************)

\* "A title can be edited after publication, which would re-ingest the post":
\* a post with a guid or a URL is one item through every edit and poll.
OneItemPerPost ==
    source = "substack" =>
        \A r, s \in items : r.of = s.of /\ r.of \in Guided \cup Linked => r = s

\* Posts no other post can be mistaken for.
Unambiguous ==
    {p \in Posts : Usable(p) /\ \A q \in Posts \ {p} :
        ~(p \in Guided /\ q \in Guided /\ GuidOf[p] = GuidOf[q])}

Shown(p) == p \in Range(Page(FeedOf[p]))

\* "One dead publication must not stop the others": a post a working feed goes
\* on showing is ingested, whatever becomes of the other feeds.
WorkingFeedsAreIngested ==
    \A p \in Unambiguous :
        Shown(p) /\ FeedOf[p] \notin down ~>
            (Ingested(p) \/ ~Shown(p) \/ FeedOf[p] \in down)

AllDown == down = Range(Feeds)

\* "A connector that cannot even fetch is exactly what connector health exists
\* to surface": while no feed at all can be fetched, the source comes to show a
\* failure.
DeadConnectorShows == AllDown ~> (health = "failure" \/ ~AllDown)

===============================================================================
