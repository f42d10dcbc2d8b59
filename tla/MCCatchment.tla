----------------------------- MODULE MCCatchment ------------------------------
(***************************************************************************)
(* Instances of Catchment for TLC.                                         *)
(***************************************************************************)
EXTENDS Catchment, TLC

CONSTANTS note, sticker, post, api, api2, cron, w1, w2

\* A captioned voice note and a bare sticker over WhatsApp, a post from a feed.
AllItems == {note, sticker, post}
WorkerSymmetry == Permutations({w1, w2})
AllSources == {"whatsapp", "substack"}
AllSourceOf == [i \in AllItems |-> IF i = post THEN "substack" ELSE "whatsapp"]

\* The deployed shape: one API process and one cron poller.
ApiAndCron == [h \in {api, cron} |-> IF h = cron THEN "substack" ELSE "whatsapp"]

\* Two API processes, as during a rolling restart: the same messages may be
\* inserted by both at once.
ChatItems == {note, sticker}
ChatSourceOf == [i \in ChatItems |-> "whatsapp"]
ChatSources == {"whatsapp"}
TwoApis == [h \in {api, api2} |-> "whatsapp"]

===============================================================================
