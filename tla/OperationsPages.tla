--------------------------- MODULE OperationsPages ---------------------------
(***************************************************************************)
(* The pages of everyday operation: applications, events and incidents,    *)
(* indicators, exceptions, governance, the history and the audit trail.    *)
(* What they ask and show one answer at a time is in QueryPages.           *)
(***************************************************************************)
EXTENDS PageParts

-----------------------------------------------------------------------------
(* applications: a row is a status and a mode.  The page sends whole rows, *)
(* as it shows them but for what somebody changes.                         *)
Learns == {"LEARNING", "LEARNING-MONITOR", "LEARNING-BLOCK"}
Protects == {"PROTECTED", "PROTECTED-MONITOR"}
OtherMode ==
  [v \in Learns \cup Protects |->
    CASE v = "PROTECTED" -> "PROTECTED-MONITOR" [] v = "PROTECTED-MONITOR" -> "PROTECTED"
      [] v = "LEARNING-BLOCK" -> "LEARNING-MONITOR" [] OTHER -> "LEARNING-BLOCK"]

handleLaunchApp ==
  [Handler EXCEPT !.gives = Adds({"LEARNING", "PROTECTED"}), !.flag = "actionLoading",
     !.ok = {"close", "clear", "fetch"}]
handleUpdateStatus ==
  [Handler EXCEPT
     !.gives = [v \in Learns |-> {To("PROTECTED")}] @@ [v \in Protects |-> {To("LEARNING")}],
     !.flag = "actionLoading", !.ok = {"fetch"}]
handleToggleMode ==
  [Handler EXCEPT !.gives = [v \in Learns \cup Protects |-> {To(OtherMode[v])}],
     !.flag = "actionLoading", !.ok = {"fetch"}]
handleDeleteApp ==
  [Handler EXCEPT !.gives = Removes, !.flag = "actionLoading",
     !.ok = {"fetch"}]

ApplicationTable ==
  [handleToggleMode |-> OnRows(Learns \cup Protects, {"actionLoading"}),
   handleUpdateStatus |-> OnRows(Learns \cup Protects, {}),
   handleDeleteApp |-> OnRows(Learns \cup Protects, {"actionLoading"})]
LaunchWizard == [handleLaunchApp |-> Dialog("wizard", {"actionLoading"})]

Applications ==
  PageOf([List({"LEARNING", "LEARNING-BLOCK", "PROTECTED"}) EXCEPT
            !.refreshDisabled = {"loading", "actionLoading"}],
         [handleLaunchApp |-> handleLaunchApp, handleUpdateStatus |-> handleUpdateStatus,
          handleToggleMode |-> handleToggleMode, handleDeleteApp |-> handleDeleteApp],
         ApplicationTable @@ LaunchWizard)

-----------------------------------------------------------------------------
(* onboarding: an application is created, and then its headers are set.    *)
(* When that fails the page takes the whole for failed, and keeps the form.*)
handleCreateOnboard ==
  [Handler EXCEPT !.gives = Adds({"LEARNING"}), !.flag = "isSubmitting",
     !.ok = {"clear", "fetch"}]
handlePromoteLearning ==
  [Handler EXCEPT !.gives = Sets({"PROTECTED"}), !.flag = "promotingId",
     !.perRow = TRUE, !.ok = {"fetch"}]

OnboardForm == [handleCreateOnboard |-> Inline("onboard", {"isSubmitting"})]
OnboardTable == [handlePromoteLearning |-> OnRows({"LEARNING"}, {"promotingId", "loading"})]

Onboarding ==
  PageOf(List({"LEARNING", "PROTECTED"}),
         [handleCreateOnboard |-> handleCreateOnboard,
          handlePromoteLearning |-> handlePromoteLearning],
         OnboardForm @@ OnboardTable)

-----------------------------------------------------------------------------
(* incidents *)
IncidentRows == {"INVESTIGATING", "MITIGATED", "RESOLVED"}

handleUpdateIncident(statuses) ==
  [Handler EXCEPT !.gives = Sets(statuses), !.flag = "actionLoading",
     !.ok = {"fetch"}]
handleBlockIP ==
  [Handler EXCEPT !.gives = [v \in IncidentRows |-> {NoUpdate}], !.flag = "actionLoading",
     !.ok = {"fetch"}]

(* The select in a row stays enabled, the buttons of the drawer do not. *)
IncidentTable == [handleUpdateStatus |-> OnRows(IncidentRows, {}),
                  handleBlockIP |-> OnRows(IncidentRows, {"actionLoading"})]
IncidentDrawer == [resolve |-> OnRows(IncidentRows, {"actionLoading"})]

Incidents ==
  PageOf([List(IncidentRows) EXCEPT !.refreshDisabled = {"loading", "actionLoading"}],
         [handleUpdateStatus |-> handleUpdateIncident(IncidentRows),
          handleBlockIP |-> handleBlockIP, resolve |-> handleUpdateIncident({"RESOLVED"})],
         IncidentTable @@ IncidentDrawer)

-----------------------------------------------------------------------------
(* events and the overview: they poll without a sign of it.  A button      *)
(* blocks the address of a row, and changes no event.                      *)
Blocks == [v \in {"kept"} |-> {NoUpdate}]
QuietPolling == [List({"kept"}) EXCEPT !.quiet = TRUE, !.polls = TRUE, !.refresh = FALSE]

handleQuickBlock ==
  [Handler EXCEPT !.gives = Blocks, !.flag = "blockingIP", !.perRow = TRUE]
handleSendRiskAcceptanceEmail ==
  [Handler EXCEPT !.flag = "sendingEmail", !.ok = {"close"}]
handleAutoGenerateException ==
  [Handler EXCEPT !.flag = "creatingException", !.ok = {"close"}]

EventTable == [handleQuickBlock |-> OnRows({"kept"}, {"blockingIP"})]
EventDetail == [blockFromDetail |-> OnRows({"kept"}, {})]
ExceptionWizard == [handleAutoGenerateException |-> Dialog("exception", {"creatingException"})]
RiskForm == [handleSendRiskAcceptanceEmail |-> Dialog("risk", {"sendingEmail"})]

Events ==
  PageOf(QuietPolling,
         [handleQuickBlock |-> handleQuickBlock, blockFromDetail |-> handleQuickBlock,
          handleSendRiskAcceptanceEmail |-> handleSendRiskAcceptanceEmail,
          handleAutoGenerateException |-> handleAutoGenerateException],
         EventTable @@ EventDetail @@ ExceptionWizard @@ RiskForm)

overviewQuickBlock ==
  [Handler EXCEPT !.gives = Blocks, !.ok = {"fetch"}, !.refused = {"fetch"}]
OverviewCards == [handleQuickBlock |-> OnRows({"kept"}, {"loading"})]

Overview ==
  PageOf([Lists([events |-> {"kept"}, rows |-> {"kept"}]) EXCEPT
            !.quiet = TRUE, !.polls = TRUE, !.refresh = FALSE],
         [handleQuickBlock |-> overviewQuickBlock], OverviewCards)

-----------------------------------------------------------------------------
(* threat-intel: an indicator that is there already is renewed. *)
handleSyncWAF == [Handler EXCEPT !.flag = "syncing"]
handleCreateIndicator ==
  [Handler EXCEPT !.gives = Upserts({Upserted("kept")}),
     !.ok = {"close", "clear", "fetch"}]
handleDeleteIndicator ==
  [Handler EXCEPT !.gives = Removes, !.ok = {"fetch"}, !.refused = {"fetch"}]

IndicatorTable == [handleDelete |-> OnRows({"kept"}, {})]
IndicatorForm == [handleCreate |-> Dialog("indicator", {})]

ThreatIntel ==
  PageOf(List({"kept"}),
         [handleSyncWAF |-> handleSyncWAF, handleCreate |-> handleCreateIndicator,
          handleDelete |-> handleDeleteIndicator],
         [handleSyncWAF |-> Button({"syncing"})] @@ IndicatorTable @@ IndicatorForm)

-----------------------------------------------------------------------------
(* tuning: exceptions, written in a wizard or applied from the engine's    *)
(* recommendations.                                                        *)
handleCreateException ==
  [Handler EXCEPT !.gives = Adds({"kept"}), !.flag = "actionLoading",
     !.ok = {"close", "clear", "fetch"}]
handleApplyRecommendation ==
  [Handler EXCEPT !.gives = Adds({"kept"}), !.flag = "actionLoading",
     !.ok = {"fetch"}]
handleDeleteException ==
  [Handler EXCEPT !.gives = Removes, !.flag = "actionLoading",
     !.ok = {"fetch"}]

Recommendations == [handleApplyRecommendation |-> Button({"actionLoading"})]
TuningWizard == [handleCreateException |-> Dialog("wizard", {"actionLoading"})]
ExceptionTable == [handleDeleteException |-> OnRows({"kept"}, {"actionLoading"})]

Tuning ==
  PageOf([List({"kept"}) EXCEPT !.refreshDisabled = {"loading"}],
         [handleCreateException |-> handleCreateException,
          handleApplyRecommendation |-> handleApplyRecommendation,
          handleDeleteException |-> handleDeleteException],
         Recommendations @@ TuningWizard @@ ExceptionTable)

-----------------------------------------------------------------------------
(* governance: whether an application has drifted, and whether emergency   *)
(* mode is on.  What has not been fetched counts as off.                   *)
handleReconcileDrift ==
  [Handler EXCEPT !.table = "drift", !.gives = [v \in {"on"} |-> {To("off")}],
     !.flag = "reconciling", !.ok = {"fetch"}]
handleToggleEmergency ==
  [Handler EXCEPT !.table = "emergency",
     !.gives = SendsOpposite @@ [v \in {Absent} |-> {To("on")}],
     !.flag = "emergencyLoading", !.ok = {"fetch"}]

DriftCard == [handleReconcileDrift |-> OnRows({"on"}, {"reconciling"})]
EmergencyButton ==
  [handleToggleEmergency |-> OnRows(Switch \cup {Absent}, {"emergencyLoading"})]

Governance ==
  PageOf([Lists([drift |-> Switch, emergency |-> Switch]) EXCEPT
            !.quiet = TRUE, !.refresh = FALSE],
         [handleReconcileDrift |-> handleReconcileDrift,
          handleToggleEmergency |-> handleToggleEmergency],
         DriftCard @@ EmergencyButton)

-----------------------------------------------------------------------------
(* config-history: a rollback adds a snapshot.  The fetch that follows it  *)
(* a second later is under way until then.                                 *)
handleRollback == [Handler EXCEPT !.gives = Adds({"kept"}), !.ok = {"fetch"}]
SnapshotList == [handleRollback |-> Button({})]

ConfigHistory ==
  PageOf([List({"kept"}) EXCEPT !.empties = TRUE], [handleRollback |-> handleRollback],
         SnapshotList)

-----------------------------------------------------------------------------
(* audit-trail: a row is an entry of the trail.  The restored bundle       *)
(* leaves the table of entries alone but for an entry of its own.          *)
handleExportBackup == [Handler EXCEPT !.flag = "downloading", !.ok = {"fetch"}]
handleRestoreBackup ==
  [Handler EXCEPT !.gives = Adds({"kept"}), !.flag = "restoring",
     !.ok = {"close", "clear", "fetch"}]

ExportButton == [handleExportBackup |-> Button({"downloading"})]
RestoreForm == [handleRestoreBackup |-> Dialog("restore", {"restoring"})]

AuditTrail ==
  PageOf(List({"kept"}),
         [handleExportBackup |-> handleExportBackup,
          handleRestoreBackup |-> handleRestoreBackup],
         ExportButton @@ RestoreForm)

-----------------------------------------------------------------------------
(* The flight recorder of investigation-tools: stopping ends all sessions. *)
startFlight ==
  [Handler EXCEPT !.gives = Adds({"kept"}), !.flag = "flightLoading", !.ok = {"wait"}]
stopFlight ==
  [Handler EXCEPT !.gives = [v \in {"kept"} |-> {Gone}], !.ok = {"wait"},
     !.refused = {"wait"}]
FlightButtons == [startFlight |-> Button({"flightLoading"}),
                  stopFlight |-> OnRows({"kept"}, {})]

FlightRecorder ==
  PageOf([List({"kept"}) EXCEPT !.quiet = TRUE, !.refresh = FALSE],
         [startFlight |-> startFlight, stopFlight |-> stopFlight], FlightButtons)
=============================================================================
