----------------------------- MODULE ShieldPages -----------------------------
(***************************************************************************)
(* The pages that switch protections on and off: blocked addresses, bots,  *)
(* surges, protocols, rates, leaks, endpoints and virtual patches.  Of     *)
(* each page: what its handlers do, which controls it renders, and what it *)
(* fetches.                                                                *)
(***************************************************************************)
EXTENDS PageParts

-----------------------------------------------------------------------------
(* blocked-ips *)
handleAddIP ==
  [Handler EXCEPT !.gives = Upserts({Upserted("on")}), !.flag = "actionLoading",
     !.ok = {"clear", "fetch"}]

handleDeleteIP ==
  [Handler EXCEPT !.gives = Removes, !.flag = "actionLoading",
     !.ok = {"fetch"}]

BlockForm == [handleAddIP |-> Inline("ip", {"actionLoading"})]
BlockedTable == [handleDeleteIP |-> OnRows(Present, {"actionLoading"})]

BlockedIPs ==
  PageOf([List({"on"}) EXCEPT !.refreshDisabled = {"loading", "actionLoading"}],
         [handleAddIP |-> handleAddIP, handleDeleteIP |-> handleDeleteIP],
         BlockForm @@ BlockedTable)

-----------------------------------------------------------------------------
(* api-security *)
handleUpdateEndpoint ==
  [Handler EXCEPT !.gives = Sets({"APPROVED", "BLOCKED"}), !.flag = "actionLoading",
     !.ok = {"fetch"}]

handleSyncEnforcement == [Handler EXCEPT !.flag = "actionLoading"]

handleCreateEndpoint ==
  [Handler EXCEPT !.gives = Upserts({Upserted("APPROVED"), Upserted("BLOCKED")}),
     !.flag = "actionLoading", !.ok = {"clear", "close", "fetch"}]

(* A row has a button for every status but its own. *)
EndpointTable ==
  [approve |-> OnRows(Present \ {"APPROVED"}, {"actionLoading"}),
   block |-> OnRows(Present \ {"BLOCKED"}, {"actionLoading"})]
EndpointForm == [handleCreateEndpoint |-> Dialog("endpoint", {"actionLoading"})]

ApiSecurity ==
  PageOf([List({"DISCOVERED", "APPROVED", "BLOCKED"}) EXCEPT
            !.refreshDisabled = {"loading", "actionLoading"}],
         [approve |-> [handleUpdateEndpoint EXCEPT !.gives = Sets({"APPROVED"})],
          block |-> [handleUpdateEndpoint EXCEPT !.gives = Sets({"BLOCKED"})],
          handleSyncEnforcement |-> handleSyncEnforcement,
          handleCreateEndpoint |-> handleCreateEndpoint],
         [handleSyncEnforcement |-> Button({"actionLoading"})]
           @@ EndpointTable @@ EndpointForm)

-----------------------------------------------------------------------------
(* bot-management.  The page sends an action or a switch, and the          *)
(* management plane leaves the other as it is.  What a policy that is off  *)
(* would do is not told apart.                                             *)
BotRows == {"BLOCK", "ALLOW", "off"}
Running == BotRows \ {"off"}
Acting(a) == [v \in Running |-> a]

handleUpdateAction ==
  [Handler EXCEPT
     !.gives = [v \in BotRows |-> IF v = "off" THEN {NoUpdate}
                                  ELSE {Acting(a) : a \in Running}],
     !.flag = "actionLoading", !.ok = {"fetch"}]

handleToggleEnabled ==
  [Handler EXCEPT
     !.gives = [v \in BotRows |-> IF v = "off" THEN {[x \in {v} |-> a] : a \in Running}
                                  ELSE {Acting("off")}],
     !.flag = "actionLoading", !.ok = {"fetch"}]

handleDeleteBot ==
  [Handler EXCEPT !.gives = Removes, !.flag = "actionLoading",
     !.ok = {"fetch"}]

handleCreateBot ==
  [Handler EXCEPT !.gives = Adds(Running), !.flag = "actionLoading",
     !.ok = {"close", "clear", "fetch"}]

handleSyncBotShield == [Handler EXCEPT !.flag = "actionLoading"]

(* No control of a row looks at the flag that its handler raises. *)
BotTable == [handleUpdateAction |-> OnRows(BotRows, {}),
             handleToggleEnabled |-> OnRows(BotRows, {}),
             handleDeletePolicy |-> OnRows(BotRows, {})]
BotForm == [handleCreatePolicy |-> Dialog("bot", {"actionLoading"})]

BotManagement ==
  PageOf([List(BotRows) EXCEPT !.refreshDisabled = {"loading", "actionLoading"}],
         [handleUpdateAction |-> handleUpdateAction,
          handleToggleEnabled |-> handleToggleEnabled,
          handleDeletePolicy |-> handleDeleteBot, handleCreatePolicy |-> handleCreateBot,
          handleSyncBotShield |-> handleSyncBotShield],
         [handleSyncBotShield |-> Button({"actionLoading"})] @@ BotTable @@ BotForm)

-----------------------------------------------------------------------------
(* ddos-protection *)
handleCreateSurge ==
  [Handler EXCEPT !.gives = Adds({"on"}), !.flag = "isSubmitting",
     !.ok = {"close", "clear", "fetch"}]
handleToggleSurge == [Handler EXCEPT !.gives = Flips, !.ok = {"fetch"}]
handleDeleteSurge == [Handler EXCEPT !.gives = Removes, !.ok = {"fetch"}]
handleRunSurgeSim == [Handler EXCEPT !.flag = "simulating"]

SurgeTable == [handleToggle |-> OnRows(Switch, {"loading"}),
               handleDelete |-> OnRows(Switch, {"loading"})]
SurgeSimulator == [handleRunSurgeSim |-> Button({"simulating"})]
SurgeForm == [handleCreate |-> Dialog("policy", {"isSubmitting"})]

DDoSProtection ==
  PageOf(List(Switch),
         [handleCreate |-> handleCreateSurge, handleToggle |-> handleToggleSurge,
          handleDelete |-> handleDeleteSurge, handleRunSurgeSim |-> handleRunSurgeSim],
         SurgeTable @@ SurgeSimulator @@ SurgeForm)

-----------------------------------------------------------------------------
(* protocol-shield: two tables, and one flag for the forms of both. *)
handleCreateProtocol ==
  [Handler EXCEPT !.table = "protocol", !.gives = Adds({"on"}),
     !.flag = "isSubmitting", !.ok = {"close", "clear", "fetch"}]
handleToggleProtocol ==
  [Handler EXCEPT !.table = "protocol", !.gives = Flips, !.ok = {"fetch"}]
handleDeleteProtocol ==
  [Handler EXCEPT !.table = "protocol", !.gives = Removes, !.ok = {"fetch"}]
handleCreateAbuse ==
  [Handler EXCEPT !.table = "abuse", !.gives = Adds({"kept"}),
     !.flag = "isSubmitting", !.ok = {"close", "clear", "fetch"}]
handleDeleteAbuse ==
  [Handler EXCEPT !.table = "abuse", !.gives = Removes, !.ok = {"fetch"}]

ProtocolTable == [handleToggleProtocol |-> OnRows(Switch, {"loading"}),
                  handleDeleteProtocol |-> OnRows(Switch, {"loading"})]
AbuseTable == [handleDeleteAbuse |-> OnRows({"kept"}, {"loading"})]
ProtocolForm == [handleCreateProtocol |-> Dialog("protocol", {"isSubmitting"})]
AbuseForm == [handleCreateAbuse |-> Dialog("abuse", {"isSubmitting"})]

ProtocolShield ==
  PageOf(Lists([protocol |-> Switch, abuse |-> {"kept"}]),
         [handleCreateProtocol |-> handleCreateProtocol,
          handleToggleProtocol |-> handleToggleProtocol,
          handleDeleteProtocol |-> handleDeleteProtocol,
          handleCreateAbuse |-> handleCreateAbuse,
          handleDeleteAbuse |-> handleDeleteAbuse],
         ProtocolTable @@ AbuseTable @@ ProtocolForm @@ AbuseForm)

-----------------------------------------------------------------------------
(* rate-limits *)
handleCreateLimit ==
  [Handler EXCEPT !.gives = Adds({"kept"}), !.flag = "submitting",
     !.ok = {"clear", "fetch"}]
handleDeleteLimit == [Handler EXCEPT !.gives = Removes, !.ok = {"fetch"}]

LimitForm == [handleCreate |-> Inline("limit", {"submitting"})]
LimitTable == [handleDelete |-> OnRows({"kept"}, {"loading"})]

RateLimits ==
  PageOf([List({"kept"}) EXCEPT !.refresh = FALSE],
         [handleCreate |-> handleCreateLimit, handleDelete |-> handleDeleteLimit],
         LimitForm @@ LimitTable)

-----------------------------------------------------------------------------
(* dlp: nothing disables the form while it is being sent. *)
handleCreateDLP ==
  [Handler EXCEPT !.gives = Adds({"on"}), !.ok = {"clear", "fetch"}]
handleToggleDLP == [Handler EXCEPT !.gives = Flips, !.ok = {"fetch"}]
handleDeleteDLP == [Handler EXCEPT !.gives = Removes, !.ok = {"fetch"}]

DLPForm == [handleCreate |-> Inline("rule", {})]
DLPTable == [handleToggle |-> OnRows(Switch, {"loading"}),
             handleDelete |-> OnRows(Switch, {"loading"})]

DLP ==
  PageOf([List(Switch) EXCEPT !.refresh = FALSE],
         [handleCreate |-> handleCreateDLP, handleToggle |-> handleToggleDLP,
          handleDelete |-> handleDeleteDLP],
         DLPForm @@ DLPTable)

-----------------------------------------------------------------------------
(* cve-catalog: the flag names one row, and the page waits for the fetch.  *)
(* The viewer that opens on a row's code has a button of its own, which    *)
(* calls the same handler and which nothing disables.  The copy of the row *)
(* it keeps decides its label and not the request, and no row of the       *)
(* catalog ever goes: it is there for every row that is shown.             *)
handleTogglePatch ==
  [Handler EXCEPT !.gives = Flips, !.flag = "togglingId", !.perRow = TRUE,
     !.ok = {"wait"}]

PatchTable == [handleToggle |-> OnRows(Switch, {"togglingId"})]
PatchViewer == [viewerToggle |-> OnRows(Switch, {})]

CVECatalog ==
  PageOf([List(Switch) EXCEPT !.refreshDisabled = {"loading"}],
         [handleToggle |-> handleTogglePatch, viewerToggle |-> handleTogglePatch],
         PatchTable @@ PatchViewer)
=============================================================================
