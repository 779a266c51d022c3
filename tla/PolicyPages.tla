----------------------------- MODULE PolicyPages -----------------------------
(***************************************************************************)
(* The pages that author policies: what is discovered, who may do what,    *)
(* schemas, canaries, and the rules of the studio.                         *)
(***************************************************************************)
EXTENDS PageParts

-----------------------------------------------------------------------------
(* asset-discovery: an asset is sensitive or not.  Classifying it again    *)
(* never makes it less sensitive.                                          *)
Classified(sensitive) ==
  [v \in Switch \cup {Absent} |-> IF sensitive \/ v = "on" THEN "on" ELSE "off"]

handleClassify ==
  [Handler EXCEPT !.gives = Upserts({Classified(b) : b \in BOOLEAN}),
     !.flag = "isSubmitting", !.ok = {"close", "clear", "wait"}]
toggleSensitivity == [Handler EXCEPT !.gives = SendsOpposite, !.ok = {"patch"}]

AssetTable == [toggleSensitivity |-> OnRows(Switch, {"loading"})]
AssetForm == [handleClassify |-> Dialog("asset", {"isSubmitting"})]

AssetDiscovery ==
  PageOf([List(Switch) EXCEPT !.refreshDisabled = {"loading"}],
         [handleClassify |-> handleClassify, toggleSensitivity |-> toggleSensitivity],
         AssetTable @@ AssetForm)

-----------------------------------------------------------------------------
(* identity-jwt: two tables, two dialogs, and one flag for both. *)
handleCreateIdentity ==
  [Handler EXCEPT !.table = "identity", !.gives = Adds({"kept"}),
     !.flag = "isSubmitting", !.ok = {"close", "clear", "wait"}]
handleDeleteIdentity ==
  [Handler EXCEPT !.table = "identity", !.gives = Removes, !.ok = {"patch"}]
handleCreateJWT ==
  [Handler EXCEPT !.table = "jwt", !.gives = Adds({"kept"}),
     !.flag = "isSubmitting", !.ok = {"close", "clear", "wait"}]
handleDeleteJWT ==
  [Handler EXCEPT !.table = "jwt", !.gives = Removes, !.ok = {"patch"}]

IdentityTable == [handleDeleteIdentity |-> OnRows({"kept"}, {})]
JWTTable == [handleDeleteJWT |-> OnRows({"kept"}, {})]
IdentityForm == [handleCreateIdentity |-> Dialog("identity", {"isSubmitting"})]
JWTForm == [handleCreateJWT |-> Dialog("jwt", {"isSubmitting"})]

IdentityJWT ==
  PageOf([Lists([identity |-> {"kept"}, jwt |-> {"kept"}]) EXCEPT
            !.refreshDisabled = {"loading"}],
         [handleCreateIdentity |-> handleCreateIdentity,
          handleDeleteIdentity |-> handleDeleteIdentity,
          handleCreateJWT |-> handleCreateJWT, handleDeleteJWT |-> handleDeleteJWT],
         IdentityTable @@ JWTTable @@ IdentityForm @@ JWTForm)

-----------------------------------------------------------------------------
(* schema-enforcement: a schema blocks or monitors.  A select in the row   *)
(* sets the mode.                                                          *)
handleImport ==
  [Handler EXCEPT !.gives = Adds(Switch), !.flag = "isSubmitting",
     !.ok = {"close", "clear", "wait"}]
handleModeChange == [Handler EXCEPT !.gives = Sets(Switch), !.ok = {"patch"}]

SchemaTable == [handleModeChange |-> OnRows(Switch, {"loading"})]
SchemaForm == [handleImport |-> Dialog("schema", {"isSubmitting"})]

SchemaEnforcement ==
  PageOf([List(Switch) EXCEPT !.refreshDisabled = {"loading"}],
         [handleImport |-> handleImport, handleModeChange |-> handleModeChange],
         SchemaTable @@ SchemaForm)

-----------------------------------------------------------------------------
(* canary-gitops: a canary is active until it is promoted or rolled back.  *)
(* A step up promotes it when all the traffic is on it.  Nothing disables  *)
(* the controls while a request is under way.                              *)
Step(v) == [x \in {"ACTIVE", "PROMOTED", "ROLLED_BACK"} |-> v]
StepUp == {NoUpdate, [x \in {"ACTIVE"} |-> "PROMOTED"]}
handleCreateCanary ==
  [Handler EXCEPT !.gives = Adds({"ACTIVE"}), !.ok = {"close", "clear", "wait"}]
stepCanary(updates) ==
  [Handler EXCEPT !.gives = [v \in {"ACTIVE"} |-> updates], !.ok = {"wait"}]
applyWafCode == [Handler EXCEPT !.ok = {}]

CanaryCards == [stepUp |-> OnRows({"ACTIVE"}, {}), promote |-> OnRows({"ACTIVE"}, {}),
                rollback |-> OnRows({"ACTIVE"}, {})]
CanaryForm == [handleCreateCanary |-> Dialog("canary", {})]

CanaryGitOps ==
  PageOf([List({"ACTIVE", "PROMOTED", "ROLLED_BACK"}) EXCEPT !.refreshDisabled = {"loading"}],
         [handleCreateCanary |-> handleCreateCanary,
          stepUp |-> stepCanary(StepUp), promote |-> stepCanary({Step("PROMOTED")}),
          rollback |-> stepCanary({Step("ROLLED_BACK")}), applyWafCode |-> applyWafCode],
         [applyWafCode |-> Button({})] @@ CanaryCards @@ CanaryForm)

-----------------------------------------------------------------------------
(* policy-studio: rules and geo fences.  A rule is switched on or off; its *)
(* lifecycle is that of RuleLifecycle, and is not told apart here.         *)
handleCreateRule ==
  [Handler EXCEPT !.table = "rules", !.gives = Adds({"on"}),
     !.ok = {"clear", "fetch"}]
handleLifecycleTransition ==
  [Handler EXCEPT !.table = "rules", !.ok = {"close", "fetch"}]
handleToggleRule == [Handler EXCEPT !.table = "rules", !.gives = Flips, !.ok = {"fetch"}]
handleDeleteRule ==
  [Handler EXCEPT !.table = "rules", !.gives = Removes, !.ok = {"fetch"}]
handleCreateGeo ==
  [Handler EXCEPT !.table = "geo", !.gives = Upserts({Upserted("kept")}),
     !.ok = {"clear", "fetch"}]
handleDeleteGeo ==
  [Handler EXCEPT !.table = "geo", !.gives = Removes, !.ok = {"fetch"}]

RuleForm == [handleCreateRule |-> Inline("rule", {})]
RuleList == [handleToggleRule |-> OnRows(Switch, {"loading"}),
             handleDeleteRule |-> OnRows(Switch, {"loading"})]
LifecycleDialog == [handleLifecycleTransition |-> Dialog("lifecycle", {})]
GeoFences == [handleCreateGeo |-> Inline("geo", {}),
              handleDeleteGeo |-> OnRows({"kept"}, {})]

PolicyStudio ==
  PageOf(Lists([rules |-> Switch, geo |-> {"kept"}]),
         [handleCreateRule |-> handleCreateRule,
          handleLifecycleTransition |-> handleLifecycleTransition,
          handleToggleRule |-> handleToggleRule, handleDeleteRule |-> handleDeleteRule,
          handleCreateGeo |-> handleCreateGeo, handleDeleteGeo |-> handleDeleteGeo],
         RuleForm @@ RuleList @@ LifecycleDialog @@ GeoFences)
=============================================================================
