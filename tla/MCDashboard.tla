---------------------------- MODULE MCDashboard ----------------------------
(***************************************************************************)
(* Every page of the dashboard that changes something, with one row in     *)
(* each table, or two where a flag names a row, and two requests in        *)
(* flight.                                                                 *)
(***************************************************************************)
EXTENDS Page, TLC

Shields == INSTANCE ShieldPages
Admin == INSTANCE AdminPages
Policy == INSTANCE PolicyPages
Operations == INSTANCE OperationsPages

Statuses == Shields!Values

Pages ==
  [blocked |-> Shields!BlockedIPs, endpoints |-> Shields!ApiSecurity,
   bots |-> Shields!BotManagement, ddos |-> Shields!DDoSProtection,
   protocols |-> Shields!ProtocolShield, abuses |-> Shields!ProtocolShield,
   limits |-> Shields!RateLimits,
   dlp |-> Shields!DLP, cve |-> Shields!CVECatalog,
   access |-> Admin!AccessControl, alerts |-> Admin!Alerts, siem |-> Admin!SIEM,
   certificates |-> Admin!Certificates, nodes |-> Admin!ClusterNodes,
   tenants |-> Admin!Tenants, capacity |-> Admin!Capacity, settings |-> Admin!Settings,
   assets |-> Policy!AssetDiscovery, identity |-> Policy!IdentityJWT,
   schemas |-> Policy!SchemaEnforcement, canary |-> Policy!CanaryGitOps,
   studio |-> Policy!PolicyStudio, fences |-> Policy!PolicyStudio,
   applications |-> Operations!Applications, onboarding |-> Operations!Onboarding,
   incidents |-> Operations!Incidents, events |-> Operations!Events,
   overview |-> Operations!Overview, threats |-> Operations!ThreatIntel,
   tuning |-> Operations!Tuning, governance |-> Operations!Governance,
   history |-> Operations!ConfigHistory, audit |-> Operations!AuditTrail,
   flight |-> Operations!FlightRecorder]

PageNames == DOMAIN Pages

(* The two largest pages are taken twice, each time with a row in one of   *)
(* their two tables only.                                                  *)
Filled ==
  [p \in Page |->
    CASE p = "studio" -> {"rules"} [] p = "fences" -> {"geo"}
      [] p = "protocols" -> {"protocol"} [] p = "abuses" -> {"abuse"}
      [] OTHER -> Pages[p].tables]
Rows == [p \in Page |-> Filled[p] \X (IF p = "cve" THEN {1, 2} ELSE {1})]
=============================================================================
