------------------------------- MODULE Polling --------------------------------
(***************************************************************************)
(* The cron job of a deployment with one polled connector.  The connectors *)
(* share poll_source (Polls) and nothing else -- no row of one source is   *)
(* read for another -- so a deployment with both is two of these.          *)
(***************************************************************************)
EXTENDS MailPolling, FeedPolling

vars == <<pollVars, mailVars, feedVars>>

Init == PollsInit /\ MailInit /\ FeedInit

Store == (StoreBatch \/ StoreRaises) /\ UNCHANGED <<mailVars, feedVars>>

Next ==
    \/ source = "email" /\ MailNext /\ UNCHANGED feedVars
    \/ source = "substack" /\ FeedNext /\ UNCHANGED mailVars
    \/ Store

Spec == Init /\ [][Next]_vars

PollStep ==
    \/ source = "email" /\ MailPoll /\ UNCHANGED feedVars
    \/ source = "substack" /\ FeedPoll /\ UNCHANGED mailVars
    \/ Store

\* Cron starts poll after poll, and a poll runs to its end, well or badly;
\* nothing makes mail stay, a feed come back or a database recover.
FairSpec == Spec /\ WF_vars(PollStep)

TypeOK == PollsTypeOK /\ MailTypeOK /\ FeedTypeOK

===============================================================================
