------------------------------ MODULE MCPolling -------------------------------
(***************************************************************************)
(* Instances of Polling for TLC.                                           *)
(***************************************************************************)
EXTENDS Polling, TLC

CONSTANTS
    news, bill, memo, empty, latin,   \* messages
    letters, digest,                  \* feeds
    first, column, essay, aside       \* posts

\* Two newsletters with a Message-ID, the Date of one of which is not ASCII, a
\* note with a subject only and a message the server returns no body for.
MailKeyed == {news, latin}
MailDescribed == {memo}
MailDigests == [m \in MailDescribed |-> m]

\* Nothing but newsletters.
Newsletters == {news, bill}
NoneDescribed == {}
NoDigests == [m \in {} |-> m]

\* Two publications, one numbering its posts like the other does, and posts
\* that have only a URL or only a title.
TwoFeeds == <<letters, digest>>
FourPosts == {first, column, essay, aside}
PostFeeds == [p \in FourPosts |-> IF p \in {first, essay} THEN letters ELSE digest]
PostGuids == [p \in {first, column} |-> 1]
PostLinks == {essay, first}
PostTitles == {essay, aside}

===============================================================================
