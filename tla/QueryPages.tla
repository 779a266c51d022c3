----------------------------- MODULE QueryPages -----------------------------
(***************************************************************************)
(* The tools of the dashboard that ask one question and show one answer,   *)
(* in the terms of Query.  Of each tool: how its handler asks and what it  *)
(* falls back on, and how its panel lets somebody ask and go on.           *)
(***************************************************************************)
EXTENDS TLC

(* A handler that keeps the answer on display when it gets no other, and a *)
(* panel with an input and a button that is locked meanwhile.              *)
Asking == [flagged |-> TRUE, clears |-> FALSE, refused |-> "keep", failed |-> "keep"]
Panel == [locks |-> TRUE, chosen |-> FALSE, fixed |-> FALSE, starts |-> FALSE,
          repeats |-> TRUE, closes |-> {}, acts |-> "no"]
Unlocked == [Panel EXCEPT !.locks = FALSE]

(* A filter asks whenever it is set, and when the page is mounted.         *)
Filter == [Unlocked EXCEPT !.chosen = TRUE, !.starts = TRUE]
(* A row of a list that opens its details. *)
Details == [Unlocked EXCEPT !.chosen = TRUE]

-----------------------------------------------------------------------------
(* simulator: the report stays while the rule is edited, and its button    *)
(* deploys the rule as it is in the editor.                                *)
handleRunSimulation == Asking
RuleEditor == Panel
SimulationReport == [acts |-> "answered question"]
Simulator == handleRunSimulation @@ SimulationReport @@ RuleEditor

(* ddos-protection, tuning: what traffic would meet. *)
handleSurge == Asking
SurgePanel == Panel
SurgeSimulation == handleSurge @@ SurgePanel

handleRunReplay == Asking
ReplayPanel == Panel
Replay == handleRunReplay @@ ReplayPanel

(* onboarding: the probe of an origin shows an error for an answer.        *)
handleLiveConnectivityProbe ==
  [Asking EXCEPT !.clears = TRUE, !.refused = "error", !.failed = "error"]
ProbePanel == Panel
ConnectivityProbe == handleLiveConnectivityProbe @@ ProbePanel

-----------------------------------------------------------------------------
(* rule-lab.  The suite that a regression runs is not an input of the page.*)
handleRunSingleTest == Asking
SinglePanel == Panel
SingleTest == handleRunSingleTest @@ SinglePanel

handleRunBatchTest == Asking
BatchPanel == Panel
BatchTest == handleRunBatchTest @@ BatchPanel

handleRunRegression == Asking
RegressionPanel == [Panel EXCEPT !.fixed = TRUE]
Regression == handleRunRegression @@ RegressionPanel

-----------------------------------------------------------------------------
(* threat-intel and audit-trail *)
handleLookup == Asking
LookupPanel == Panel
Lookup == handleLookup @@ LookupPanel

fetchIndicators == Asking
IndicatorFilters == Filter
FilteredIndicators == fetchIndicators @@ IndicatorFilters

fetchLogs == Asking
ActionFilters == Filter
FilteredLogs == fetchLogs @@ ActionFilters

-----------------------------------------------------------------------------
(* investigation-tools.  An event that cannot be explained is explained    *)
(* with a block that the page makes up, and an exception can be made of    *)
(* either.                                                                 *)
handleExplain == [Asking EXCEPT !.refused = "madeUp"]
ExplainPanel == [Panel EXCEPT !.acts = "answer"]
Explain == handleExplain @@ ExplainPanel

handleWhyNot == Asking
WhyNotPanel == Panel
WhyNot == handleWhyNot @@ WhyNotPanel

handleThreatCorrelate == Asking
CorrelatePanel == Panel
Correlate == handleThreatCorrelate @@ CorrelatePanel

handleRedact == [Asking EXCEPT !.flagged = FALSE]
RedactPanel == Unlocked
Redact == handleRedact @@ RedactPanel

-----------------------------------------------------------------------------
(* incidents: the drawer is headed by the incident that was opened last,   *)
(* and keeps the timeline that it has until another arrives.  Its buttons  *)
(* block and resolve what heads it.                                        *)
openTimeline == Asking
TimelineDrawer == [Details EXCEPT !.closes = {"question"}, !.acts = "question"]
Timeline == openTimeline @@ TimelineDrawer

(* events: the details of an event open when they arrive, and replace what *)
(* is open.  An exception is made of the event on display.                 *)
openEventDetail == Asking
DetailModal == [Details EXCEPT !.closes = {"answer"}, !.acts = "answer"]
Inspection == openEventDetail @@ DetailModal

-----------------------------------------------------------------------------
(* config-history: opening a snapshot that is open closes it. *)
expandDetail == [Asking EXCEPT !.refused = "drop", !.failed = "drop"]
SnapshotRows ==
  [Details EXCEPT !.repeats = FALSE, !.closes = {"question", "answer"}]
SnapshotDetail == expandDetail @@ SnapshotRows

handleDiff == [Asking EXCEPT !.flagged = FALSE]
DiffPanel == Unlocked
SnapshotDiff == handleDiff @@ DiffPanel

(* canary-gitops: a specification is applied whether it was validated or   *)
(* not.                                                                    *)
validateWafCode == [Asking EXCEPT !.flagged = FALSE]
SpecEditor == [Unlocked EXCEPT !.acts = "question"]
WafAsCode == validateWafCode @@ SpecEditor
=============================================================================
