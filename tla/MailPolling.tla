----------------------------- MODULE MailPolling ------------------------------
(***************************************************************************)
(* Polling a mail folder.  A poll lists the UIDs, keeps the newest         *)
(* BatchSize of them and fetches those one by one, skipping what it cannot *)
(* read.  There is no watermark: the window is all that remembers what is  *)
(* still to be read.  Meanwhile mail arrives, is deleted, and the server   *)
(* may renumber the folder.                                                *)
(***************************************************************************)
EXTENDS Polls

CONSTANTS
    Messages,
    Keyed,        \* messages with a Message-ID header, unique to them
    Described,    \* messages without one that have a Date, From or Subject
    DigestOf,     \* [Described -> digests of that metadata]
    Unreadable,   \* messages with no body, or whose headers raise a ValueError or TypeError
    Breaking,     \* messages whose headers raise anything else: a Date of 8-bit text
    BatchSize,    \* settings.imap_batch_size
    MaxRebuilds   \* bound: changes of UIDVALIDITY

ASSUME MailAssumption ==
    /\ Keyed \cap Described = {}
    /\ Keyed \cup Described \cup Unreadable \cup Breaking \subseteq Messages
    /\ Unreadable \cap Breaking = {}
    /\ DOMAIN DigestOf = Described
    /\ BatchSize \in Nat \ {0}
    /\ MaxRebuilds \in Nat

VARIABLES
    folder,    \* the mail folder: [msg, uid] in the order of their UIDs
    uidNext,   \* the UID the next message gets
    arrived,   \* messages delivered so far
    rebuilds

mailVars == <<folder, uidNext, arrived, rebuilds>>

Entry == [msg : Messages, uid : Nat]

(***************************************************************************)
(* Source ids.                                                             *)
(***************************************************************************)

MessageIds == ({"id"} \X Keyed) \cup ({"digest"} \X Range(DigestOf)) \cup ({"uid"} \X Nat)

\* Mutations of MessageId.

\* The header is taken for granted.
MessageIdUnchecked(m, uid) == <<"id", m>>

\* The fallback is the UID whatever the headers say.
MessageIdByUid(m, uid) == IF m \in Keyed THEN <<"id", m>> ELSE <<"uid", uid>>

\* message_source_id and fallback_source_id: the UID only as a last resort.
MessageId(m, uid) ==
    CASE m \in Keyed -> <<"id", m>>
      [] m \in Described -> <<"digest", DigestOf[m]>>
      [] OTHER -> <<"uid", uid>>

\* The newest BatchSize entries of the folder.
Window ==
    SubSeq(folder, IF Len(folder) > BatchSize THEN Len(folder) - BatchSize + 1 ELSE 1,
           Len(folder))

(***************************************************************************)
(* The folder.                                                             *)
(***************************************************************************)

Arrive(m) ==
    /\ m \notin arrived
    /\ folder' = Append(folder, [msg |-> m, uid |-> uidNext])
    /\ uidNext' = uidNext + 1
    /\ arrived' = arrived \cup {m}
    /\ UNCHANGED <<pollVars, rebuilds>>

\* The owner of the mailbox deletes or moves a message.
Expunge(n) ==
    /\ n \in DOMAIN folder
    /\ folder' = RemoveAt(folder, n)
    /\ UNCHANGED <<pollVars, uidNext, arrived, rebuilds>>

\* UIDVALIDITY changes: the order stays, the numbers do not.  A connection
\* open at the time is dropped, so it happens between polls.
Renumber ==
    /\ rebuilds < MaxRebuilds
    /\ poll.pc = "idle"
    /\ folder' = [n \in DOMAIN folder |-> [folder[n] EXCEPT !.uid = n]]
    /\ uidNext' = Len(folder) + 1
    /\ rebuilds' = rebuilds + 1
    /\ UNCHANGED <<pollVars, arrived>>

(***************************************************************************)
(* A poll.                                                                 *)
(***************************************************************************)

\* Mutation of Search: the window is the oldest messages.
SearchOldest ==
    /\ Begin([n \in DOMAIN Window |-> folder[n].uid])
    /\ UNCHANGED mailVars

\* Connect, log in, select, UID SEARCH ALL, keep the last BatchSize.
Search ==
    /\ Begin([n \in DOMAIN Window |-> Window[n].uid])
    /\ UNCHANGED mailVars

\* The message at hand; none if it was deleted since the search.
AtHand == {folder[n].msg : n \in {k \in DOMAIN folder : folder[k].uid = Head(poll.todo)}}

\* Mutation of Fetch: a message without a body raises past the except clause.
FetchStrict ==
    /\ poll.todo # <<>>
    /\ \/ \E m \in AtHand \ (Unreadable \cup Breaking) :
            Yields(<<[id |-> MessageId(m, Head(poll.todo)), of |-> m]>>)
       \/ AtHand = {} /\ Yields(<<>>)
       \/ AtHand \cap Unreadable # {} /\ Drops
    /\ UNCHANGED <<mailVars, faults>>

\* _fetch_one: a message that is gone or unreadable is skipped, at every poll.
Fetch ==
    /\ poll.todo # <<>>
    /\ \/ \E m \in AtHand \ (Unreadable \cup Breaking) :
            Yields(<<[id |-> MessageId(m, Head(poll.todo)), of |-> m]>>)
       \/ AtHand \subseteq Unreadable /\ Yields(<<>>)
    /\ UNCHANGED <<mailVars, faults>>

\* What the except clause of _fetch_one does not name ends the poll.
FetchBreaks ==
    /\ poll.todo # <<>>
    /\ AtHand \cap Breaking # {}
    /\ Drops
    /\ UNCHANGED <<mailVars, faults>>

\* A FETCH that fails this time is skipped like it.
FetchSkips ==
    /\ faults < MaxFaults
    /\ Yields(<<>>)
    /\ faults' = faults + 1
    /\ UNCHANGED mailVars

MailTypeOK ==
    /\ folder \in Seq(Entry)
    /\ \A m, n \in DOMAIN folder : m < n => folder[m].uid < folder[n].uid
    /\ \A n \in DOMAIN folder : folder[n].uid < uidNext
    /\ arrived \subseteq Messages
    /\ rebuilds \in 0 .. MaxRebuilds
    /\ source = "email" =>
         /\ items \subseteq [id : MessageIds, of : Messages]
         /\ poll.todo \in Seq(Nat)
         /\ poll.records \in Seq([id : MessageIds, of : Messages])

MailInit ==
    /\ folder = <<>>
    /\ uidNext = 1
    /\ arrived = {}
    /\ rebuilds = 0

MailPoll == Search \/ Fetch \/ FetchBreaks

MailNext ==
    \/ \E m \in Messages : Arrive(m)
    \/ \E n \in DOMAIN folder : Expunge(n)
    \/ Renumber
    \/ MailPoll
    \/ FetchSkips
    \/ FetchRaises /\ UNCHANGED mailVars   \* unreachable, or the socket fails

(***************************************************************************)
(* Properties.                                                             *)
(***************************************************************************)

\* "Keying on a UID would mint a new id for a message we already ingested":
\* however the folder is renumbered and whatever is polled again, a message
\* with any identifying header is one item.
OneItemPerMessage ==
    source = "email" =>
        \A r, s \in items : r.of = s.of /\ r.of \in Keyed \cup Described => r = s

InWindow(m) == \E n \in DOMAIN Window : Window[n].msg = m

\* Messages whose headers name them and no other.
Identified ==
    Keyed \cup {m \in Described : \A o \in Described : DigestOf[o] = DigestOf[m] => o = m}

\* "One malformed message must not cost us the rest of the batch": a readable
\* message with headers of its own that stays among the newest is ingested,
\* unreadable ones beside it or not.  It is held up by the messages the except
\* clause does not expect, but only while one of them is in the window.
WindowIsIngested ==
    \A m \in Identified \ (TooLong \cup Unreadable \cup Breaking) :
        InWindow(m) ~> \/ Ingested(m) \/ ~InWindow(m)
                       \/ \E b \in Breaking : InWindow(b)

===============================================================================
