----------------------------- MODULE MCQueries -----------------------------
(***************************************************************************)
(* What the dashboard waits for, on small instances: every tool of         *)
(* QueryPages with three questions, and the pages that show every way in   *)
(* which a page raises and lowers its flags.                               *)
(*                                                                         *)
(* A tool and a page share no state: focus says which of them somebody     *)
(* uses.                                                                   *)
(***************************************************************************)
EXTENDS Query, TLC

CONSTANTS Page, MaxRequests

VARIABLES focus, page, store, shown, flags, ready, requests, sent, twice, excused

Pages == INSTANCE QueryPages
Shields == INSTANCE ShieldPages
Admin == INSTANCE AdminPages
Policy == INSTANCE PolicyPages
Operations == INSTANCE OperationsPages

Tools ==
  [simulator |-> Pages!Simulator, surge |-> Pages!SurgeSimulation,
   replay |-> Pages!Replay, probe |-> Pages!ConnectivityProbe,
   single |-> Pages!SingleTest, batch |-> Pages!BatchTest,
   regression |-> Pages!Regression, lookup |-> Pages!Lookup,
   indicators |-> Pages!FilteredIndicators, logs |-> Pages!FilteredLogs,
   explain |-> Pages!Explain, whyNot |-> Pages!WhyNot,
   correlate |-> Pages!Correlate, redact |-> Pages!Redact,
   timeline |-> Pages!Timeline, event |-> Pages!Inspection,
   snapshot |-> Pages!SnapshotDetail, diff |-> Pages!SnapshotDiff,
   spec |-> Pages!WafAsCode]

Tables ==
  [blocked |-> Shields!BlockedIPs, cve |-> Shields!CVECatalog, dlp |-> Shields!DLP,
   alerts |-> Admin!Alerts, nodes |-> Admin!ClusterNodes, assets |-> Policy!AssetDiscovery,
   schemas |-> Policy!SchemaEnforcement, onboarding |-> Operations!Onboarding,
   events |-> Operations!Events, flight |-> Operations!FlightRecorder]
Rows == [p \in Page |-> Tables[p].tables \X (IF p = "cve" THEN {1, 2} ELSE {1})]

Browser ==
  INSTANCE Page WITH
    Made <- Tables, Value <- Shields!Values, Row <- Rows, MaxCalls <- MaxRequests,
    busy <- flags, calls <- requests

ASSUME Browser!MadeAssumption
ASSUME Browser!CopyAssumption

pageVars == <<page, store, shown, flags, ready, requests, sent, twice, excused>>
allVars == <<focus, vars, pageVars>>

(* The one that nobody uses is as good as any. *)
MCInit ==
  /\ focus \in {"tool", "page"}
  /\ Init /\ Browser!Init
  /\ focus = "tool" => page = (CHOOSE p \in Page : TRUE) /\ store = Browser!Blank
  /\ focus = "page" => tool = "simulator" /\ question = CHOOSE q \in Question : TRUE

ToolStep == focus = "tool" /\ Next /\ UNCHANGED <<focus, pageVars>>
PageStep == focus = "page" /\ Browser!Next /\ UNCHANGED <<focus, vars>>
ToolAnswer == focus = "tool" /\ AnswerFirst /\ UNCHANGED <<focus, pageVars>>
PageAnswer == focus = "page" /\ Browser!AnswerFirst /\ UNCHANGED <<focus, vars>>

MCSpec ==
  /\ MCInit /\ [][ToolStep \/ PageStep]_allVars
  /\ WF_allVars(ToolAnswer) /\ WF_allVars(PageAnswer)

-----------------------------------------------------------------------------
AnyFlag ==
  {"loading"} \cup UNION {{Tables[p].does[n].flag : n \in DOMAIN Tables[p].does} : p \in Page}

(* No control stays disabled for ever: whatever fails, a flag that a       *)
(* request has raised comes down, unless somebody leaves the page again    *)
(* and again before its first fetch is answered.                           *)
FlagsAreReleased ==
  \A f \in AnyFlag :
    []<>(focus = "page" /\ f \in Browser!Flags => flags[f] = {}) \/ []<><<Browser!Leave>>_pageVars
=============================================================================
