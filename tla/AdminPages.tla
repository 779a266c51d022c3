----------------------------- MODULE AdminPages -----------------------------
(***************************************************************************)
(* The pages that administer the platform: accounts, alerts, forwarding,   *)
(* certificates, nodes, tenants, and the two pages that only watch.        *)
(***************************************************************************)
EXTENDS PageParts

-----------------------------------------------------------------------------
(* access-control: users and service tokens.  A token is revoked, not      *)
(* deleted.  The page fetches without looking at the answer to a deletion. *)
(* The administrator's account has no control, and is left out.            *)
handleCreateUser ==
  [Handler EXCEPT !.table = "users", !.gives = Adds({"on"}),
     !.ok = {"close", "clear", "fetch"}]
handleDeleteUser ==
  [Handler EXCEPT !.table = "users", !.gives = Removes,
     !.ok = {"fetch"}, !.refused = {"fetch"}]
handleCreateToken ==
  [Handler EXCEPT !.table = "tokens", !.gives = Adds({"on"}), !.ok = {"fetch"}]
handleRevokeToken ==
  [Handler EXCEPT !.table = "tokens", !.gives = Sets({"off"}),
     !.ok = {"fetch"}, !.refused = {"fetch"}]

UserTable == [handleDeleteUser |-> OnRows({"on"}, {})]
TokenTable == [handleRevokeToken |-> OnRows({"on"}, {})]
UserForm == [handleCreateUser |-> Dialog("user", {})]
TokenForm == [handleCreateToken |-> Dialog("token", {})]

AccessControl ==
  PageOf(Lists([users |-> {"on"}, tokens |-> Switch]),
         [handleCreateUser |-> handleCreateUser, handleDeleteUser |-> handleDeleteUser,
          handleCreateToken |-> handleCreateToken,
          handleRevokeToken |-> handleRevokeToken],
         UserTable @@ TokenTable @@ UserForm @@ TokenForm)

-----------------------------------------------------------------------------
(* alerts: one form creates a rule or edits the rest of one.  The list is  *)
(* emptied when it cannot be fetched.                                      *)
handleSaveAlert ==
  [Handler EXCEPT !.gives = Upserts({Inserted("on"), NoUpdate}), !.flag = "saving",
     !.ok = {"close", "fetch"}]
handleToggleAlert ==
  [Handler EXCEPT !.gives = Flips, !.ok = {"fetch"}, !.refused = {"fetch"}]
handleDeleteAlert ==
  [Handler EXCEPT !.gives = Removes, !.ok = {"fetch"}, !.refused = {"fetch"}]

AlertRows == [handleToggle |-> OnRows(Switch, {}), handleDelete |-> OnRows(Switch, {})]
AlertForm == [handleSave |-> Dialog("alert", {"saving"})]

Alerts ==
  PageOf([List(Switch) EXCEPT !.empties = TRUE],
         [handleSave |-> handleSaveAlert, handleToggle |-> handleToggleAlert,
          handleDelete |-> handleDeleteAlert],
         AlertRows @@ AlertForm)

-----------------------------------------------------------------------------
(* siem *)
handleCreateDestination ==
  [Handler EXCEPT !.gives = Adds({"on"}), !.ok = {"close", "clear", "fetch"}]
handleToggleDestination ==
  [Handler EXCEPT !.gives = Flips, !.ok = {"fetch"}, !.refused = {"fetch"}]
handleDeleteDestination ==
  [Handler EXCEPT !.gives = Removes, !.ok = {"fetch"}, !.refused = {"fetch"}]
handleTestDispatch == [Handler EXCEPT !.flag = "dispatching"]

DestinationTable ==
  [handleToggle |-> OnRows(Switch, {}), handleDelete |-> OnRows(Switch, {})]
DestinationForm == [handleCreate |-> Dialog("destination", {})]

SIEM ==
  PageOf(List(Switch),
         [handleCreate |-> handleCreateDestination, handleToggle |-> handleToggleDestination,
          handleDelete |-> handleDeleteDestination, handleTestDispatch |-> handleTestDispatch],
         [handleTestDispatch |-> Button({"dispatching"})]
           @@ DestinationTable @@ DestinationForm)

-----------------------------------------------------------------------------
(* certificates: a row is a certificate, with or without mTLS. *)
handleCreateCertificate ==
  [Handler EXCEPT !.gives = Adds(Switch), !.flag = "isSubmitting",
     !.ok = {"close", "clear", "fetch"}]
handleToggleMTLS == [Handler EXCEPT !.gives = Flips, !.ok = {"fetch"}]
handleDeleteCertificate == [Handler EXCEPT !.gives = Removes, !.ok = {"fetch"}]

CertificateTable == [handleToggleMTLS |-> OnRows(Switch, {"loading"}),
                     handleDelete |-> OnRows(Switch, {"loading"})]
CertificateForm == [handleCreate |-> Dialog("certificate", {"isSubmitting"})]

Certificates ==
  PageOf(List(Switch),
         [handleCreate |-> handleCreateCertificate, handleToggleMTLS |-> handleToggleMTLS,
          handleDelete |-> handleDeleteCertificate],
         CertificateTable @@ CertificateForm)

-----------------------------------------------------------------------------
(* cluster-nodes: a heartbeat registers a node, and leaves one that drains *)
(* as it is.  The form is filled in from the start.                        *)
NodeRows == {"HEALTHY", "DRAINING"}
Heartbeat == [v \in NodeRows \cup {Absent} |-> IF v = "DRAINING" THEN v ELSE "HEALTHY"]

handleRegisterHeartbeat ==
  [Handler EXCEPT !.gives = Upserts({Heartbeat}), !.flag = "isSubmitting",
     !.ok = {"close", "fetch"}]
handleDrainNode ==
  [Handler EXCEPT !.gives = Sets({"DRAINING"}), !.ok = {"fetch"}]

NodeTable == [handleDrainNode |-> OnRows({"HEALTHY"}, {})]
NodeForm == [handleRegisterHeartbeat |-> Dialog("node", {"isSubmitting"})]

ClusterNodes ==
  PageOf([List(NodeRows) EXCEPT !.polls = TRUE],
         [handleRegisterHeartbeat |-> handleRegisterHeartbeat,
          handleDrainNode |-> handleDrainNode],
         NodeTable @@ NodeForm)

-----------------------------------------------------------------------------
(* tenants *)
handleCreateTenant ==
  [Handler EXCEPT !.gives = Adds({"kept"}), !.flag = "isSubmitting",
     !.ok = {"close", "clear", "fetch"}]

TenantForm == [handleCreateTenant |-> Dialog("tenant", {"isSubmitting"})]

Tenants ==
  PageOf(List({"kept"}), [handleCreateTenant |-> handleCreateTenant], TenantForm)

-----------------------------------------------------------------------------
(* capacity and settings only fetch: a row is one reading or another. *)
NoHandlers == [n \in {} |-> Handler]
NoControls == [n \in {} |-> Button({})]

Capacity == PageOf([List(Switch) EXCEPT !.polls = TRUE], NoHandlers, NoControls)
Settings ==
  PageOf([List(Switch) EXCEPT !.polls = TRUE, !.refreshDisabled = {"loading"}],
         NoHandlers, NoControls)
=============================================================================
