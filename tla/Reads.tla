--------------------------------- MODULE Reads ---------------------------------
(***************************************************************************)
(* The pages that only read.  None of them writes what another reads, so a *)
(* behaviour has one of them, beside everything that writes.               *)
(***************************************************************************)
EXTENDS Retrieval, Insights

VARIABLE reader   \* "search" or "report"

vars == <<corpusVars, searchVars, reportVars, reader>>

Init ==
    /\ CorpusInit
    /\ \/ reader = "search" /\ SearchInit
          /\ stamp = (CHOOSE f \in Stamps : TRUE) /\ present = Items /\ report = NoReport
       \/ reader = "report" /\ InsightsInit
          /\ embedded = {} /\ search = NoSearch

Next ==
    /\ \/ reader = "search" /\ SearchNext /\ UNCHANGED reportVars
       \/ reader = "report" /\ InsightsNext /\ UNCHANGED searchVars
    /\ UNCHANGED reader

Spec == Init /\ [][Next]_vars

TypeOK == CorpusTypeOK /\ SearchTypeOK /\ InsightsTypeOK

===============================================================================
