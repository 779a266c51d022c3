--------------------------- MODULE RuleLifecycle ---------------------------
(***************************************************************************)
(* The life of a detection rule, from draft to retirement                  *)
(* (rule_lifecycle.go).                                                    *)
(*                                                                         *)
(* Each step of the life is a request: it checks little (validate and test *)
(* read the rule's text, the others at most that the rule exists), writes  *)
(* the status, and appends an entry to rule_audit_history.  No request     *)
(* looks at the status it replaces, the entry names a fixed predecessor,   *)
(* and no transaction joins the two statements.  The text of a rule never  *)
(* changes and no rule is deleted.                                         *)
(***************************************************************************)
EXTENDS Naturals, Sequences, FiniteSets

CONSTANTS
  Rule,       \* rule ids
  Seeded,     \* rules the schema inserts, approved and with no entry
  Watched,    \* those of them it inserts as MONITORING; the others are ENFORCED
  Handler,    \* requests that can be in progress at once
  Nothing,    \* the job of a request that is not in progress
  MaxEntries, \* bound on the requests about a rule
  MaxFaults   \* bound on failed statements

BoundAssumption ==
  Watched \subseteq Seeded /\ Seeded \subseteq Rule /\ MaxEntries \in Nat /\ MaxFaults \in Nat

Status == {"NONE", "DRAFT", "VALIDATED", "TESTING", "MONITORING",
           "APPROVED", "ENFORCED", "RETIRED"}

Operation == {"draft", "validate", "test", "monitor", "approve", "enforce", "retire"}

(* What a request writes, and the predecessor its entry names. *)
To == [draft |-> "DRAFT", validate |-> "VALIDATED", test |-> "TESTING",
       monitor |-> "MONITORING", approve |-> "APPROVED",
       enforce |-> "ENFORCED", retire |-> "RETIRED"]
From == [draft |-> "NONE", validate |-> "DRAFT", test |-> "VALIDATED",
         monitor |-> "TESTING", approve |-> "MONITORING",
         enforce |-> "APPROVED", retire |-> "ENFORCED"]

(* Requests that go on to the entry when their update failed. *)
Heedless == {"validate", "test", "enforce", "retire"}

VARIABLES
  status,    \* column status; NONE: no such rule
  action,    \* column action; BLOCK stands for BLOCK and CHALLENGE
  approved,  \* rules with approved_by
  compiles,  \* rules whose regex_pattern compiles
  secLang,   \* rules whose text contains "SecRule"
  log,       \* rule_audit_history of each rule
  pc,        \* next statement of a request: "idle", "update" or "record"
  job,       \* the operation and the rule of a request
  missed,    \* history: rules an entry of which could not be written
  faults     \* how much of MaxFaults has happened

rule == <<status, action, approved, compiles, secLang>>
vars == <<rule, log, pc, job, missed, faults>>

Job == [op : Operation, rule : Rule]
Entry == [from : Status, to : Status]

TypeOK ==
  /\ status \in [Rule -> Status]
  /\ action \in [Rule -> {"BLOCK", "MONITOR"}]
  /\ approved \subseteq Rule
  /\ compiles \subseteq Rule
  /\ secLang \subseteq Rule
  /\ log \in [Rule -> Seq(Entry)]
  /\ pc \in [Handler -> {"idle", "update", "record"}]
  /\ job \in [Handler -> Job \cup {Nothing}]
  /\ missed \subseteq Rule
  /\ faults \in 0..MaxFaults

Exists(r) == status[r] # "NONE"

Init ==
  /\ status = [r \in Rule |-> CASE r \in Watched         -> "MONITORING"
                                 [] r \in Seeded \ Watched -> "ENFORCED"
                                 [] OTHER                -> "NONE"]
  /\ action = [r \in Rule |-> "BLOCK"]
  /\ approved = Seeded
  /\ compiles = Seeded
  /\ secLang = Seeded
  /\ log = [r \in Rule |-> <<>>]
  /\ pc = [h \in Handler |-> "idle"]
  /\ job = [h \in Handler |-> Nothing]
  /\ missed = {}
  /\ faults = 0

-----------------------------------------------------------------------------
Busy(r) == {h \in Handler : pc[h] # "idle" /\ job[h].rule = r}

Start(h, op, r, stmt) ==
  /\ pc[h] = "idle"
  /\ Len(log[r]) + Cardinality(Busy(r)) < MaxEntries
  /\ pc' = [pc EXCEPT ![h] = stmt]
  /\ job' = [job EXCEPT ![h] = [op |-> op, rule |-> r]]

(* createRuleDraftHandler: the INSERT is its first statement. *)
Draft(h, r, act, text) ==
  /\ ~Exists(r)
  /\ Start(h, "draft", r, "record")
  /\ status' = [status EXCEPT ![r] = "DRAFT"]
  /\ action' = [action EXCEPT ![r] = act]
  /\ compiles' = IF "regex" \in text THEN compiles \cup {r} ELSE compiles
  /\ secLang' = IF "SecRule" \in text THEN secLang \cup {r} ELSE secLang
  /\ UNCHANGED <<approved, log, missed, faults>>

(* Fault: a rule whose text is not SecLang passes validation. *)
AcceptsAnyText(op, r) ==
  CASE op = "validate" -> Exists(r) /\ r \in compiles
    [] op = "test"     -> Exists(r) /\ r \in compiles
    [] op = "retire"   -> TRUE
    [] OTHER           -> Exists(r)

(* What a request checks before it writes.  retireRuleHandler does not     *)
(* look whether the rule exists.                                           *)
Accepts(op, r) ==
  CASE op = "validate" -> Exists(r) /\ r \in compiles /\ r \in secLang
    [] op = "test"     -> Exists(r) /\ r \in compiles
    [] op = "retire"   -> TRUE
    [] OTHER           -> Exists(r)

Request(h, op, r) ==
  /\ op # "draft"
  /\ Accepts(op, r)
  /\ Start(h, op, r, "update")
  /\ UNCHANGED <<rule, log, missed, faults>>

Then(h, stmt) ==
  /\ pc' = [pc EXCEPT ![h] = stmt]
  /\ job' = [job EXCEPT ![h] = IF stmt = "idle" THEN Nothing ELSE @]

(* UPDATE rule_lifecycles ... WHERE rule_id = $1: monitor also sets the    *)
(* action, approve the approver and an action, BLOCK or CHALLENGE.         *)
Update(h) ==
  LET r == job[h].rule  op == job[h].op
  IN /\ pc[h] = "update"
     /\ status' = [status EXCEPT ![r] = IF Exists(r) THEN To[op] ELSE @]
     /\ CASE op = "monitor" -> action' = [action EXCEPT ![r] = "MONITOR"]
          [] op = "approve" -> action' = [action EXCEPT ![r] = "BLOCK"]
          [] OTHER          -> UNCHANGED action
     /\ approved' = IF op = "approve" THEN approved \cup {r} ELSE approved
     /\ Then(h, "record")
     /\ UNCHANGED <<compiles, secLang, log, missed, faults>>

(* Fault: the entry is written only for a rule that is enforced by now. *)
RecordEnforced(h) ==
  LET r == job[h].rule
  IN /\ pc[h] = "record"
     /\ log' = IF status[r] = "ENFORCED"
               THEN [log EXCEPT ![r] = Append(@, [from |-> From[job[h].op],
                                                  to |-> To[job[h].op]])]
               ELSE log
     /\ Then(h, "idle")
     /\ UNCHANGED <<rule, missed, faults>>

Record(h) ==
  /\ pc[h] = "record"
  /\ log' = [log EXCEPT ![job[h].rule] =
               Append(@, [from |-> From[job[h].op], to |-> To[job[h].op]])]
  /\ Then(h, "idle")
  /\ UNCHANGED <<rule, missed, faults>>

(* Heedless requests ignore a failed update; every request ignores a       *)
(* failed entry.                                                           *)
StatementFails(h) ==
  /\ pc[h] # "idle"
  /\ faults < MaxFaults
  /\ faults' = faults + 1
  /\ Then(h, IF pc[h] = "update" /\ job[h].op \in Heedless THEN "record" ELSE "idle")
  /\ missed' = IF pc[h] = "record" THEN missed \cup {job[h].rule} ELSE missed
  /\ UNCHANGED <<rule, log>>

Next ==
  \E h \in Handler :
    \/ \E r \in Rule, act \in {"BLOCK", "MONITOR"}, text \in SUBSET {"regex", "SecRule"} :
         Draft(h, r, act, text)
    \/ \E op \in Operation, r \in Rule : Request(h, op, r)
    \/ Update(h) \/ Record(h) \/ StatementFails(h)

Spec == Init /\ [][Next]_vars

-----------------------------------------------------------------------------
(* No interleaving of requests brings a rule to VALIDATED or TESTING       *)
(* unless its own text passed the checks of that step.                     *)
ValidatedTextIsSound ==
  \A r \in Rule :
    /\ status[r] = "VALIDATED" => r \in compiles /\ r \in secLang
    /\ status[r] = "TESTING" => r \in compiles

(* At rest the audit history accounts for the status of every rule made by *)
(* a request: some entry leads to it, unless an entry failed.              *)
StatusIsAudited ==
  \A r \in Rule \ Seeded :
    Exists(r) /\ Busy(r) = {} /\ r \notin missed =>
      \E n \in DOMAIN log[r] : log[r][n].to = status[r]

(* "Rule has achieved formal dual-control approval. Ready for xDS sync."   *)
(* (rule_lifecycle.go 469): enforcement is what the approval is for.       *)
EnforcedWasApproved == \A r \in Rule : status[r] = "ENFORCED" => r \in approved
=============================================================================
