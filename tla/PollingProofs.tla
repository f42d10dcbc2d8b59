----------------------------- MODULE PollingProofs -----------------------------
(***************************************************************************)
(* However a mail folder changes, whatever publishers do to their feeds    *)
(* and whatever polls do, a message or a post that can be identified is    *)
(* one item -- for every set of messages and posts, every list of feeds,   *)
(* window, page, number of faults, renumberings, edits and outages.        *)
(***************************************************************************)
EXTENDS Polling, Lemmas, SequenceTheorems

USE PollsAssumption, MailAssumption, FeedAssumption
    DEF PollsAssumption, MailAssumption, FeedAssumption

(***************************************************************************)
(* The invariant.  Uniqueness in the table is not enough: it is the ids of *)
(* the records read, in this poll and in earlier ones, that have to agree. *)
(***************************************************************************)

\* What a poll of connector c goes through, and the records it reads.
FetchesOf(c) == IF c = "email" THEN Nat ELSE Range(Feeds)

RecordsOf(c) ==
    IF c = "email" THEN [id : MessageIds, of : Messages] ELSE [id : EntryIds, of : Posts]

PollStates(c) ==
    [pc : {"idle", "fetch"}, todo : Seq(FetchesOf(c)), records : Seq(RecordsOf(c))]

\* The id of a post that has a guid or a URL, whatever its title says.
PostId(p) == IF p \in Guided THEN <<"guid", GuidOf[p]>> ELSE <<"url", p>>

\* What arrived is stored under one id, whichever poll read it.
KeepsItsId(c, r) ==
    IF c = "email"
    THEN r.of \in Keyed \cup Described => r.id = MessageId(r.of, 0)
    ELSE r.of \in Guided \cup Linked => r.id = PostId(r.of)

PollTypes ==
    /\ source \in {"email", "substack"} /\ source \in Connectors
    /\ poll \in PollStates(source)
    /\ items \subseteq RecordsOf(source)
    /\ health \in {"none", "success", "failure"}
    /\ faults \in 0 .. MaxFaults

MailTypes ==
    /\ folder \in Seq(Entry)
    /\ uidNext \in Nat
    /\ \A m, n \in DOMAIN folder : m < n => folder[m].uid < folder[n].uid
    /\ \A n \in DOMAIN folder : folder[n].uid < uidNext
    /\ arrived \subseteq Messages
    /\ rebuilds \in 0 .. MaxRebuilds

FeedTypes ==
    /\ history = [f \in Range(Feeds) |-> history[f]]
    /\ \A f \in Range(Feeds) : history[f] \in Seq(Posts) /\ IsInjective(history[f])
    /\ edits \in [Posts -> 0 .. MaxEdits]
    /\ down \subseteq Range(Feeds)
    /\ outages \in 0 .. MaxOutages

IdsAgree ==
    /\ \A r \in items : KeepsItsId(source, r)
    /\ \A n \in DOMAIN poll.records : KeepsItsId(source, poll.records[n])

IdsUnique == \A r, s \in items : r.id = s.id => r = s

IInv == PollTypes /\ MailTypes /\ FeedTypes /\ IdsAgree /\ IdsUnique

(***************************************************************************)
(* Operators.                                                              *)
(***************************************************************************)

\* The id of a message is one, and does not depend on its number when it has
\* an identifying header.
LEMMA IdsOfMessages ==
    ASSUME NEW m \in Messages, NEW uid \in Nat
    PROVE  /\ MessageId(m, uid) \in MessageIds
           /\ m \in Keyed \cup Described => MessageId(m, uid) = MessageId(m, 0)
<1>1. CASE m \in Keyed
  BY <1>1 DEF MessageId, MessageIds
<1>2. CASE m \in Described
  <2>1. DigestOf[m] \in Range(DigestOf)
    BY <1>2 DEF Range
  <2> QED
    BY <1>2, <2>1 DEF MessageId, MessageIds
<1>3. CASE m \notin Keyed \cup Described
  BY <1>3 DEF MessageId, MessageIds
<1> QED
  BY <1>1, <1>2, <1>3

\* The id of an entry is one, and does not depend on its title when there is
\* something else to go by.
LEMMA IdsOfPosts ==
    ASSUME FeedTypes, NEW p \in Posts, Usable(p)
    PROVE  /\ EntryId(p) \in EntryIds
           /\ p \in Guided \cup Linked => EntryId(p) = PostId(p)
<1>1. CASE p \in Guided
  <2>1. GuidOf[p] \in Range(GuidOf)
    BY <1>1 DEF Range, Guided
  <2> QED
    BY <1>1, <2>1 DEF EntryId, EntryIds, PostId
<1>2. CASE p \in Linked \ Guided
  BY <1>2 DEF EntryId, EntryIds, PostId
<1>3. CASE p \notin Guided \cup Linked
  <2>1. p \in Titled /\ FeedOf[p] \in Range(Feeds) /\ edits[p] \in 0 .. MaxEdits
    BY <1>3 DEF Usable, FeedTypes
  <2>2. EntryId(p) = <<"title", FeedOf[p], p, edits[p]>>
    BY <1>3 DEF EntryId
  <2> QED
    BY <1>3, <2>1, <2>2 DEF EntryIds
<1> QED
  BY <1>1, <1>2, <1>3

\* The newest k elements of a list are a list of the same kind.
LEMMA Newest ==
    ASSUME NEW S, NEW s \in Seq(S), NEW k \in Nat
    PROVE  SubSeq(s, IF Len(s) > k THEN Len(s) - k + 1 ELSE 1, Len(s)) \in Seq(S)
<1> DEFINE from == IF Len(s) > k THEN Len(s) - k + 1 ELSE 1
<1>1. from \in 1 .. Len(s) + 1
  OBVIOUS
<1>2. \A n \in from .. Len(s) : s[n] \in S
  BY <1>1
<1> QED
  BY <1>1, <1>2, SubSeqProperties

(***************************************************************************)
(* Steps, whichever the connector.                                         *)
(***************************************************************************)

\* What goes on outside leaves the rows and the poll alone.
LEMMA OutsideKeeps ==
    ASSUME IInv, UNCHANGED pollVars, MailTypes', FeedTypes'
    PROVE  IInv'
BY DEF IInv, PollTypes, IdsAgree, IdsUnique, pollVars

\* Only the rows and the poll change.
LEMMA PollOnly ==
    ASSUME IInv, UNCHANGED <<mailVars, feedVars>>
    PROVE  MailTypes' /\ FeedTypes'
BY DEF IInv, MailTypes, FeedTypes, mailVars, feedVars

\* A poll begins.
LEMMA BeginKeeps ==
    ASSUME IInv, NEW todo \in Seq(FetchesOf(source)), Begin(todo),
           UNCHANGED <<mailVars, feedVars>>
    PROVE  IInv'
<1>1. /\ poll' = [pc |-> "fetch", todo |-> todo, records |-> <<>>]
      /\ UNCHANGED <<source, items, health, faults>>
  BY DEF Begin
<1>2. poll' \in PollStates(source) /\ DOMAIN poll'.records = {}
  BY <1>1 DEF PollStates
<1> QED
  BY <1>1, <1>2, PollOnly DEF IInv, PollTypes, IdsAgree, IdsUnique

\* A poll that drops what it has read.
LEMMA DroppedPoll ==
    ASSUME IInv, poll' = IdlePoll, UNCHANGED <<source, items, mailVars, feedVars>>,
           health' \in {"none", "success", "failure"}, faults' \in 0 .. MaxFaults
    PROVE  IInv'
<1>1. IdlePoll \in PollStates(source) /\ DOMAIN IdlePoll.records = {}
  BY DEF IdlePoll, PollStates
<1> QED
  BY <1>1, PollOnly DEF IInv, PollTypes, IdsAgree, IdsUnique

\* A fetch adds records, each under its id.
LEMMA FetchKeeps ==
    ASSUME IInv, NEW recs \in Seq(RecordsOf(source)),
           \A n \in DOMAIN recs : KeepsItsId(source, recs[n]),
           Yields(recs), UNCHANGED <<mailVars, feedVars>>, faults' \in 0 .. MaxFaults
    PROVE  IInv'
<1> DEFINE both == poll.records \o recs
<1>1. poll \in PollStates(source)
  BY DEF IInv, PollTypes
<1>2. poll.todo \in Seq(FetchesOf(source)) /\ poll.records \in Seq(RecordsOf(source))
  BY <1>1 DEF PollStates
<1>3. Tail(poll.todo) \in Seq(FetchesOf(source))
  BY <1>2 DEF Yields
<1>4. both \in Seq(RecordsOf(source))
  BY <1>2
<1>5. poll' = [poll EXCEPT !.todo = Tail(@), !.records = both]
  BY DEF Yields
<1>6. poll' \in PollStates(source) /\ poll'.records = both
  BY <1>1, <1>3, <1>4, <1>5 DEF PollStates
<1>7. \A n \in DOMAIN both : KeepsItsId(source, both[n])
  <2> SUFFICES ASSUME NEW n \in 1 .. Len(poll.records) + Len(recs)
               PROVE  KeepsItsId(source, both[n])
    BY <1>2
  <2>1. CASE n <= Len(poll.records)
    BY <1>2, <2>1 DEF IInv, IdsAgree
  <2>2. CASE n > Len(poll.records)
    BY <1>2, <2>2
  <2> QED
    BY <1>2, <2>1, <2>2
<1>8. UNCHANGED <<items, source, health>>
  BY DEF Yields
<1> HIDE DEF both
<1> QED
  BY <1>6, <1>7, <1>8, PollOnly DEF IInv, PollTypes, IdsAgree, IdsUnique

LEMMA NothingFetched ==
    ASSUME IInv, Yields(<<>>), UNCHANGED <<mailVars, feedVars>>,
           faults' \in 0 .. MaxFaults
    PROVE  IInv'
<1>1. <<>> \in Seq(RecordsOf(source))
      /\ \A n \in DOMAIN <<>> : KeepsItsId(source, <<>>[n])
  OBVIOUS
<1> QED
  BY <1>1, FetchKeeps

\* Storing a batch creates rows for ids that had none, one for each.
LEMMA StoreKeeps ==
    ASSUME IInv, StoreBatch, UNCHANGED <<mailVars, feedVars>>
    PROVE  IInv'
<1> DEFINE recs == poll.records
           fresh == {n \in DOMAIN recs :
                       /\ ~Stored(recs[n].id)
                       /\ \A k \in 1 .. n - 1 : recs[k].id # recs[n].id}
           new == {recs[n] : n \in fresh}
<1>1. recs \in Seq(RecordsOf(source)) /\ \A n \in DOMAIN recs : recs[n] \in RecordsOf(source)
  BY DEF IInv, PollTypes, PollStates
<1>2. /\ items' = items \cup new
      /\ poll' = IdlePoll
      /\ health' = "success"
      /\ UNCHANGED <<source, faults>>
  BY DEF StoreBatch
<1>3. new \subseteq RecordsOf(source)
  BY <1>1
<1>4. \A r \in new : KeepsItsId(source, r) /\ \A s \in items : s.id # r.id
  BY DEF IInv, IdsAgree, Stored
<1>5. \A r, s \in new : r.id = s.id => r = s
  <2> SUFFICES ASSUME NEW k \in fresh, NEW n \in fresh, recs[k].id = recs[n].id
               PROVE  k = n
    OBVIOUS
  <2>1. k \in 1 .. Len(recs) /\ n \in 1 .. Len(recs)
    BY <1>1
  <2>2. ~(k < n) /\ ~(n < k)
    BY <2>1
  <2> QED
    BY <2>1, <2>2
<1> HIDE DEF new, fresh
<1>6. IdlePoll \in PollStates(source) /\ DOMAIN IdlePoll.records = {}
  BY DEF IdlePoll, PollStates
<1>7. PollTypes'
  BY <1>2, <1>3, <1>6 DEF IInv, PollTypes
<1>8. IdsAgree'
  BY <1>2, <1>4, <1>6 DEF IInv, IdsAgree
<1>9. IdsUnique'
  BY <1>2, <1>4, <1>5 DEF IInv, IdsUnique
<1> QED
  BY <1>7, <1>8, <1>9, PollOnly DEF IInv

LEMMA StoreRaisesKeeps ==
    ASSUME IInv, StoreRaises, UNCHANGED <<mailVars, feedVars>>
    PROVE  IInv'
<1>1. faults \in 0 .. MaxFaults /\ health \in {"none", "success", "failure"}
  BY DEF IInv, PollTypes
<1>2. faults' \in 0 .. MaxFaults
  BY <1>1 DEF StoreRaises
<1> QED
  BY <1>1, <1>2, DroppedPoll DEF StoreRaises

(***************************************************************************)
(* Steps of the mailbox and of a poll of it.                               *)
(***************************************************************************)

LEMMA ArriveKeeps ==
    ASSUME IInv, NEW m \in Messages, Arrive(m), UNCHANGED feedVars
    PROVE  IInv'
<1> DEFINE new == [msg |-> m, uid |-> uidNext]
           l == Len(folder)
<1>1. folder \in Seq(Entry) /\ uidNext \in Nat /\ new \in Entry
  BY DEF IInv, MailTypes, Entry
<1>2. /\ folder' \in Seq(Entry) /\ DOMAIN folder' = 1 .. l + 1 /\ l \in Nat
      /\ \A n \in 1 .. l : folder'[n] = folder[n]
      /\ folder'[l + 1] = new
      /\ uidNext' = uidNext + 1
  BY <1>1 DEF Arrive
<1>3. \A n \in 1 .. l : folder[n].uid < uidNext /\ folder[n].uid \in Nat
  <2>1. \A n \in 1 .. l : folder[n] \in Entry
    BY <1>1
  <2> QED
    BY <1>1, <2>1 DEF IInv, MailTypes, Entry
<1>4. \A i, j \in 1 .. l : i < j => folder[i].uid < folder[j].uid
  BY <1>1 DEF IInv, MailTypes
<1> HIDE DEF l
<1>5. \A n \in DOMAIN folder' : folder'[n].uid < uidNext'
  BY <1>1, <1>2, <1>3
<1>6. \A i, j \in DOMAIN folder' : i < j => folder'[i].uid < folder'[j].uid
  <2> SUFFICES ASSUME NEW i \in 1 .. l + 1, NEW j \in 1 .. l + 1, i < j
               PROVE  folder'[i].uid < folder'[j].uid
    BY <1>2
  <2>1. i \in 1 .. l
    BY <1>2
  <2>2. CASE j = l + 1
    BY <1>2, <1>3, <2>1, <2>2
  <2>3. CASE j \in 1 .. l
    BY <1>2, <1>4, <2>1, <2>3
  <2> QED
    BY <1>2, <2>2, <2>3
<1>7. MailTypes'
  BY <1>1, <1>2, <1>5, <1>6 DEF IInv, MailTypes, Arrive
<1>8. FeedTypes' /\ UNCHANGED pollVars
  BY DEF IInv, FeedTypes, feedVars, Arrive
<1> QED
  BY <1>7, <1>8, OutsideKeeps

\* What a folder has to be: UIDs increase, and the next one is greater still.
Ordered(f, next) ==
    /\ f \in Seq(Entry)
    /\ \A m, n \in DOMAIN f : m < n => f[m].uid < f[n].uid
    /\ \A n \in DOMAIN f : f[n].uid < next

\* Messages after the one that is gone move up by one.
LEMMA RemovalKeepsOrder ==
    ASSUME NEW f, NEW next, Ordered(f, next), NEW n \in DOMAIN f
    PROVE  Ordered(RemoveAt(f, n), next)
<1> DEFINE l == Len(f)
           g == Without(f, l, n)
           At(k) == IF k < n THEN k ELSE k + 1
<1>1. /\ f \in Seq(Entry) /\ DOMAIN f = 1 .. l /\ l \in Nat /\ n \in 1 .. l
      /\ \A k \in 1 .. l : f[k] \in Entry
  BY DEF Ordered
<1>2. RemoveAt(f, n) = g
  BY DEF RemoveAt, Without
<1>3. g \in Seq(Entry) /\ IsWithout(g, f, l, n)
  <2> HIDE DEF l
  <2> QED
    BY <1>1, WithoutRemoves, Zenon
<1> HIDE DEF l, g
<1>4. DOMAIN g = 1 .. l - 1 /\ \A k \in 1 .. l - 1 : g[k] = f[At(k)] /\ At(k) \in 1 .. l
  <2>1. ASSUME NEW k \in 1 .. l - 1, k < n PROVE g[k] = f[At(k)] /\ At(k) \in 1 .. l
    BY <1>1, <1>3, <2>1 DEF IsWithout
  <2>2. ASSUME NEW k \in 1 .. l - 1, ~(k < n) PROVE g[k] = f[At(k)] /\ At(k) \in 1 .. l
    <3>1. At(k) = k + 1 /\ k + 1 \in 1 .. l /\ k >= n
      BY <1>1, <2>2
    <3> HIDE DEF At
    <3>2. g[k] = f[k + 1]
      BY <1>3, <3>1 DEF IsWithout
    <3> QED
      BY <3>1, <3>2
  <2>3. DOMAIN g = 1 .. l - 1
    BY <1>3 DEF IsWithout
  <2> QED
    BY <2>1, <2>2, <2>3, Zenon
<1>5. \A i, j \in 1 .. l - 1 : i < j => At(i) < At(j)
  BY <1>1
<1> HIDE DEF At
<1> QED
  BY <1>1, <1>2, <1>3, <1>4, <1>5 DEF Ordered

LEMMA ExpungeKeeps ==
    ASSUME IInv, NEW n \in DOMAIN folder, Expunge(n), UNCHANGED feedVars
    PROVE  IInv'
<1> DEFINE g == RemoveAt(folder, n)
<1>1. Ordered(folder, uidNext)
  BY DEF IInv, MailTypes, Ordered
<1>2. Ordered(g, uidNext)
  <2> HIDE DEF g
  <2> QED
    BY <1>1, RemovalKeepsOrder DEF g
<1>3. folder' = g /\ UNCHANGED <<uidNext, arrived, rebuilds, pollVars>>
  BY DEF Expunge
<1> HIDE DEF g
<1>4. MailTypes'
  BY <1>2, <1>3 DEF IInv, MailTypes, Ordered
<1>5. FeedTypes'
  BY DEF IInv, FeedTypes, feedVars
<1> QED
  BY <1>3, <1>4, <1>5, OutsideKeeps

LEMMA RenumberKeeps ==
    ASSUME IInv, Renumber, UNCHANGED feedVars
    PROVE  IInv'
<1>1. folder \in Seq(Entry) /\ rebuilds \in 0 .. MaxRebuilds
  BY DEF IInv, MailTypes
<1>2. \A n \in 1 .. Len(folder) :
        [folder[n] EXCEPT !.uid = n] \in Entry /\ [folder[n] EXCEPT !.uid = n].uid = n
  <2> SUFFICES ASSUME NEW n \in 1 .. Len(folder)
               PROVE  /\ [folder[n] EXCEPT !.uid = n] \in Entry
                      /\ [folder[n] EXCEPT !.uid = n].uid = n
    OBVIOUS
  <2>1. folder[n] \in Entry
    BY <1>1
  <2>2. folder[n] \in [msg : Messages, uid : Nat] /\ n \in Nat
    BY <2>1 DEF Entry
  <2> QED
    BY <2>2 DEF Entry
<1>3. folder' = [n \in 1 .. Len(folder) |-> [folder[n] EXCEPT !.uid = n]]
  BY <1>1 DEF Renumber
<1>4. /\ folder' \in Seq(Entry) /\ DOMAIN folder' = 1 .. Len(folder)
      /\ \A n \in DOMAIN folder' : folder'[n].uid = n
  <2> HIDE DEF Entry
  <2>1. Len(folder) \in Nat
    BY <1>1
  <2>2. DOMAIN folder' = 1 .. Len(folder)
    BY <1>3
  <2>3. \A n \in 1 .. Len(folder) : folder'[n] \in Entry /\ folder'[n].uid = n
    BY <1>2, <1>3
  <2>4. folder' = [n \in 1 .. Len(folder) |-> folder'[n]]
    BY <1>3
  <2> QED
    BY <2>1, <2>2, <2>3, <2>4
<1>5. /\ uidNext' = Len(folder) + 1 /\ Len(folder) \in Nat
      /\ rebuilds' \in 0 .. MaxRebuilds
      /\ UNCHANGED arrived
  BY <1>1 DEF Renumber
<1>6. MailTypes'
  <2> HIDE DEF Entry
  <2> QED
    BY <1>4, <1>5 DEF IInv, MailTypes
<1>7. FeedTypes' /\ UNCHANGED pollVars
  BY DEF IInv, FeedTypes, feedVars, Renumber
<1> QED
  BY <1>6, <1>7, OutsideKeeps

LEMMA SearchKeeps ==
    ASSUME IInv, source = "email", Search, UNCHANGED feedVars
    PROVE  IInv'
<1> DEFINE uids == [n \in DOMAIN Window |-> Window[n].uid]
<1>1. Window \in Seq(Entry)
  BY Newest DEF IInv, MailTypes, Window
<1>2. uids \in Seq(Nat)
  <2>1. \A n \in 1 .. Len(Window) : Window[n] \in Entry
    BY <1>1
  <2>2. \A n \in 1 .. Len(Window) : Window[n].uid \in Nat
    BY <2>1 DEF Entry
  <2>3. uids = [n \in 1 .. Len(Window) |-> Window[n].uid] /\ Len(Window) \in Nat
    BY <1>1
  <2> QED
    BY <2>2, <2>3
<1>3. Begin(uids) /\ UNCHANGED mailVars
  BY DEF Search
<1> HIDE DEF uids
<1> QED
  BY <1>2, <1>3, BeginKeeps DEF FetchesOf

LEMMA FetchMailKeeps ==
    ASSUME IInv, source = "email", Fetch, UNCHANGED feedVars
    PROVE  IInv'
<1> DEFINE uid == Head(poll.todo)
           read == AtHand \ (Unreadable \cup Breaking)
<1>1. uid \in Nat
  BY DEF IInv, PollTypes, PollStates, FetchesOf, Fetch
<1>2. read \subseteq Messages
  <2>1. \A n \in DOMAIN folder : folder[n] \in Entry
    BY DEF IInv, MailTypes
  <2>2. \A n \in DOMAIN folder : folder[n].msg \in Messages
    BY <2>1 DEF Entry
  <2> QED
    BY <2>2 DEF AtHand
<1>3. UNCHANGED <<mailVars, faults>> /\ faults' \in 0 .. MaxFaults
  BY DEF Fetch, IInv, PollTypes
<1>4. ASSUME NEW m \in read, Yields(<<[id |-> MessageId(m, uid), of |-> m]>>)
      PROVE  IInv'
  <2> DEFINE rec == [id |-> MessageId(m, uid), of |-> m]
             recs == <<rec>>
  <2>1. m \in Messages
    BY <1>2
  <2>2. rec \in RecordsOf(source) /\ KeepsItsId(source, rec)
    BY <1>1, <2>1, IdsOfMessages DEF RecordsOf, KeepsItsId
  <2>3. recs \in Seq(RecordsOf(source)) /\ \A n \in DOMAIN recs : recs[n] = rec
    BY <2>2
  <2> HIDE DEF rec
  <2> QED
    BY <1>3, <1>4, <2>2, <2>3, FetchKeeps DEF rec
<1>5. ASSUME Yields(<<>>) PROVE IInv'
  BY <1>3, <1>5, NothingFetched
<1> QED
  BY <1>4, <1>5 DEF Fetch

LEMMA MailStep ==
    ASSUME IInv, source = "email", MailNext, UNCHANGED feedVars
    PROVE  IInv'
<1>1. faults \in 0 .. MaxFaults
  BY DEF IInv, PollTypes
<1>2. CASE FetchSkips
  <2>1. faults' \in 0 .. MaxFaults
    BY <1>1, <1>2 DEF FetchSkips
  <2> QED
    BY <1>2, <2>1, NothingFetched DEF FetchSkips
<1>3. CASE FetchRaises /\ UNCHANGED mailVars
  <2>1. faults' \in 0 .. MaxFaults
    BY <1>1, <1>3 DEF FetchRaises
  <2> QED
    BY <1>3, <2>1, DroppedPoll DEF FetchRaises, Drops
<1>4. CASE FetchBreaks
  BY <1>1, <1>4, DroppedPoll DEF FetchBreaks, Drops
<1> QED
  BY <1>2, <1>3, <1>4, ArriveKeeps, ExpungeKeeps, RenumberKeeps, SearchKeeps, FetchMailKeeps
     DEF MailNext, MailPoll
(***************************************************************************)
(* Steps of publishers, their feeds and a poll of them.                    *)
(***************************************************************************)

LEMMA PublishKeeps ==
    ASSUME IInv, NEW p \in Posts, Publish(p), UNCHANGED mailVars
    PROVE  IInv'
<1> DEFINE f == FeedOf[p]
           h == history[f]
           longer == Append(h, p)
<1>1. f \in Range(Feeds) /\ h \in Seq(Posts) /\ IsInjective(h) /\ p \notin Range(h)
  BY DEF IInv, FeedTypes, Publish
<1>2. longer \in Seq(Posts) /\ DOMAIN longer = 1 .. Len(h) + 1
      /\ \A n \in 1 .. Len(h) : longer[n] = h[n]
      /\ longer[Len(h) + 1] = p /\ Len(h) \in Nat /\ DOMAIN h = 1 .. Len(h)
  BY <1>1
<1>3. IsInjective(longer)
  <2> HIDE DEF h, longer
  <2>1. \A n \in 1 .. Len(h) : h[n] # p
    BY <1>1, <1>2 DEF Range
  <2>2. \A i, j \in 1 .. Len(h) : h[i] = h[j] => i = j
    BY <1>1, <1>2 DEF IsInjective
  <2>3. \A i, j \in 1 .. Len(h) + 1 : longer[i] = longer[j] => i = j
    <3> SUFFICES ASSUME NEW i \in 1 .. Len(h) + 1, NEW j \in 1 .. Len(h) + 1,
                        longer[i] = longer[j]
                 PROVE  i = j
      OBVIOUS
    <3>1. (i \in 1 .. Len(h) \/ i = Len(h) + 1) /\ (j \in 1 .. Len(h) \/ j = Len(h) + 1)
      BY <1>2
    <3> QED
      BY <1>2, <2>1, <2>2, <3>1
  <2> QED
    BY <1>2, <2>3 DEF IsInjective
<1>4. history' = [history EXCEPT ![f] = longer]
  BY DEF Publish
<1>5. /\ history' = [g \in Range(Feeds) |-> history'[g]]
      /\ \A g \in Range(Feeds) : history'[g] \in Seq(Posts) /\ IsInjective(history'[g])
  <2> HIDE DEF f, h, longer
  <2> QED
    BY <1>1, <1>2, <1>3, <1>4 DEF IInv, FeedTypes
<1>6. FeedTypes' /\ MailTypes' /\ UNCHANGED pollVars
  BY <1>5 DEF IInv, FeedTypes, MailTypes, mailVars, Publish
<1> QED
  BY <1>6, OutsideKeeps

LEMMA EditTitleKeeps ==
    ASSUME IInv, NEW p \in Posts, EditTitle(p), UNCHANGED mailVars
    PROVE  IInv'
<1>1. edits \in [Posts -> 0 .. MaxEdits] /\ edits[p] < MaxEdits
      /\ edits' = [edits EXCEPT ![p] = @ + 1]
  BY DEF IInv, FeedTypes, EditTitle
<1>2. edits' \in [Posts -> 0 .. MaxEdits]
  BY <1>1
<1>3. FeedTypes' /\ MailTypes' /\ UNCHANGED pollVars
  BY <1>2 DEF IInv, FeedTypes, MailTypes, mailVars, EditTitle
<1> QED
  BY <1>3, OutsideKeeps

LEMMA OutageKeeps ==
    ASSUME IInv, NEW f \in Range(Feeds), GoDown(f) \/ ComeBack(f), UNCHANGED mailVars
    PROVE  IInv'
<1>1. down' \subseteq Range(Feeds) /\ outages' \in 0 .. MaxOutages
  BY DEF IInv, FeedTypes, GoDown, ComeBack
<1>2. FeedTypes' /\ MailTypes' /\ UNCHANGED pollVars
  BY <1>1 DEF IInv, FeedTypes, MailTypes, mailVars, GoDown, ComeBack
<1> QED
  BY <1>2, OutsideKeeps

LEMMA BeginPollKeeps ==
    ASSUME IInv, source = "substack", BeginPoll, UNCHANGED mailVars
    PROVE  IInv'
BY BeginKeeps DEF BeginPoll, FetchesOf

\* A page is a list of posts, and the records of its usable ones are records.
LEMMA ReadFeedKeeps ==
    ASSUME IInv, source = "substack", ReadFeed, UNCHANGED mailVars
    PROVE  IInv'
<1> DEFINE f == Head(poll.todo)
           page == Page(f)
           kept == {n \in DOMAIN page : Usable(page[n])}
           usable == Picked(page, kept)
           recs == [n \in DOMAIN usable |-> [id |-> EntryId(usable[n]), of |-> usable[n]]]
<1>1. f \in Range(Feeds)
  BY DEF IInv, PollTypes, PollStates, FetchesOf, ReadFeed
<1>2. page \in Seq(Posts)
  <2>1. history[f] \in Seq(Posts)
    BY <1>1 DEF IInv, FeedTypes
  <2> QED
    BY <2>1, Newest DEF Page
<1>3. kept \in SUBSET DOMAIN page /\ \A n \in kept : Usable(page[n])
  OBVIOUS
<1>4. Yields(recs) /\ UNCHANGED <<feedVars, faults>>
  BY DEF ReadFeed
<1> HIDE DEF f, page, kept
<1>5. /\ kept \in SUBSET Nat /\ IsFiniteSet(kept) /\ Cardinality(kept) \in Nat
      /\ usable \in Seq(Posts) /\ DOMAIN usable = 1 .. Cardinality(kept)
      /\ \A n \in 1 .. Cardinality(kept) : usable[n] = page[Nth(kept, n)]
  BY <1>2, <1>3, PickedIsList
<1>6. \A n \in 1 .. Cardinality(kept) : usable[n] \in Posts /\ Usable(usable[n])
  <2>1. \A n \in 1 .. Cardinality(kept) : Nth(kept, n) \in kept
    BY <1>5, Places
  <2>2. \A n \in 1 .. Cardinality(kept) : usable[n] \in Posts
    BY <1>5
  <2> QED
    BY <1>3, <1>5, <2>1, <2>2
<1> HIDE DEF usable
<1>7. \A n \in DOMAIN recs :
        recs[n] \in RecordsOf(source) /\ KeepsItsId(source, recs[n])
  <2> SUFFICES ASSUME NEW n \in 1 .. Cardinality(kept)
               PROVE  recs[n] \in RecordsOf(source) /\ KeepsItsId(source, recs[n])
    BY <1>5
  <2>1. recs[n] = [id |-> EntryId(usable[n]), of |-> usable[n]]
    BY <1>5
  <2>2. /\ EntryId(usable[n]) \in EntryIds
        /\ usable[n] \in Guided \cup Linked => EntryId(usable[n]) = PostId(usable[n])
    BY <1>6, IdsOfPosts DEF IInv
  <2> QED
    BY <1>6, <2>1, <2>2 DEF RecordsOf, KeepsItsId
<1>8. recs = [n \in 1 .. Cardinality(kept) |-> recs[n]] /\ DOMAIN recs = 1 .. Cardinality(kept)
  BY <1>5
<1>9. recs \in Seq(RecordsOf(source))
  <2>1. \A n \in 1 .. Cardinality(kept) : recs[n] \in RecordsOf(source)
    BY <1>7, <1>8
  <2> HIDE DEF recs
  <2> QED
    BY <1>5, <1>8, <2>1, ListOf
<1>10. faults' \in 0 .. MaxFaults
  BY <1>4 DEF IInv, PollTypes
<1> QED
  BY <1>4, <1>7, <1>9, <1>10, FetchKeeps

LEMMA FeedStep ==
    ASSUME IInv, source = "substack", FeedNext, UNCHANGED mailVars
    PROVE  IInv'
<1>1. CASE SkipFeed
  <2>1. faults' \in 0 .. MaxFaults
    BY <1>1 DEF SkipFeed, IInv, PollTypes
  <2> QED
    BY <1>1, <2>1, NothingFetched DEF SkipFeed
<1> QED
  BY <1>1, PublishKeeps, EditTitleKeeps, OutageKeeps, BeginPollKeeps, ReadFeedKeeps
     DEF FeedNext, FeedPoll

(***************************************************************************)
(* The invariant holds throughout, and what it promises.                   *)
(***************************************************************************)

LEMMA StartsWithIInv == Init => IInv
<1> SUFFICES ASSUME Init PROVE IInv
  OBVIOUS
<1>1. PollTypes
  BY DEF Init, PollsInit, IdlePoll, PollTypes, PollStates
<1>2. MailTypes
  BY DEF Init, MailInit, MailTypes
<1>3. FeedTypes
  <2>1. history = [f \in Range(Feeds) |-> <<>>]
    BY DEF Init, FeedInit
  <2>2. <<>> \in Seq(Posts) /\ IsInjective(<<>>)
    BY DEF IsInjective
  <2> QED
    BY <2>1, <2>2 DEF Init, FeedInit, FeedTypes
<1>4. IdsAgree /\ IdsUnique
  BY DEF Init, PollsInit, IdlePoll, IdsAgree, IdsUnique
<1> QED
  BY <1>1, <1>2, <1>3, <1>4 DEF IInv

LEMMA StepKeepsIInv == IInv /\ [Next]_vars => IInv'
<1> SUFFICES ASSUME IInv, [Next]_vars PROVE IInv'
  OBVIOUS
<1>1. CASE source = "email" /\ MailNext /\ UNCHANGED feedVars
  BY <1>1, MailStep
<1>2. CASE source = "substack" /\ FeedNext /\ UNCHANGED mailVars
  BY <1>2, FeedStep
<1>3. CASE Store
  BY <1>3, StoreKeeps, StoreRaisesKeeps DEF Store
<1>4. CASE UNCHANGED vars
  <2>1. UNCHANGED pollVars /\ UNCHANGED <<mailVars, feedVars>>
    BY <1>4 DEF vars
  <2> QED
    BY <2>1, PollOnly, OutsideKeeps
<1> QED
  BY <1>1, <1>2, <1>3, <1>4 DEF Next

THEOREM PollInvariant == Spec => []IInv
BY StartsWithIInv, StepKeepsIInv, PTL DEF Spec

\* Folder, feeds, poll and rows are always what their readers take them for.
THEOREM PollingTypes == Spec => []TypeOK
<1>1. IInv => TypeOK
  <2> SUFFICES ASSUME IInv PROVE TypeOK
    OBVIOUS
  <2>1. /\ source \in {"email", "substack"}
        /\ poll.pc \in {"idle", "fetch"} /\ poll.todo \in Seq(FetchesOf(source))
        /\ poll.records \in Seq(RecordsOf(source)) /\ items \subseteq RecordsOf(source)
    BY DEF IInv, PollTypes, PollStates
  <2>2. PollsTypeOK
    BY <2>1 DEF IInv, PollTypes, PollsTypeOK
  <2>3. MailTypeOK
    BY <2>1 DEF IInv, MailTypes, MailTypeOK, FetchesOf, RecordsOf
  <2>4. FeedTypeOK
    BY <2>1 DEF IInv, FeedTypes, FeedTypeOK, FetchesOf, RecordsOf
  <2> QED
    BY <2>2, <2>3, <2>4 DEF TypeOK
<1> QED
  BY <1>1, PollInvariant, PTL

\* A message with any identifying header is one item: however the folder is
\* renumbered between polls, every record of it has the same id, and an id has
\* one row.
THEOREM MessagesAreOneItem == Spec => []OneItemPerMessage
<1>1. IInv => OneItemPerMessage
  BY DEF IInv, IdsAgree, IdsUnique, KeepsItsId, OneItemPerMessage
<1> QED
  BY <1>1, PollInvariant, PTL

\* A post with a guid or a URL is one item: whatever becomes of its title
\* between polls, every record of it has the same id.
THEOREM PostsAreOneItem == Spec => []OneItemPerPost
<1>1. IInv => OneItemPerPost
  BY DEF IInv, IdsAgree, IdsUnique, KeepsItsId, OneItemPerPost
<1> QED
  BY <1>1, PollInvariant, PTL

===============================================================================
