-------------------------- MODULE IncidentResponse --------------------------
(***************************************************************************)
(* Operators work an incident: transitionIncidentHandler                   *)
(* (risk_posture_engine.go 412) and containCampaignHandler                 *)
(* (attack_intelligence.go 412).                                           *)
(*                                                                         *)
(* A transition is four statements: read the status, write the new one,    *)
(* append an entry to incident_transitions, and block the attacker when    *)
(* the new status is CONTAINED.  No transaction spans them, no status but  *)
(* the empty one is refused, and the errors of the last two are ignored.   *)
(* An incident stands for its attacker's address.                          *)
(***************************************************************************)
EXTENDS Naturals, Sequences, FiniteSets

CONSTANTS
  Incident,
  Handler,        \* requests that can be in progress at once
  Nothing,        \* the incident of a request that is not in progress
  MaxTransitions, \* bound on transitions of an incident
  MaxFaults       \* bound on failed statements

(* The column takes any word; OTHER stands for those the code does not     *)
(* tell apart, INVESTIGATING and MITIGATED among them.                     *)
Status == {"DETECTED", "CONTAINED", "RESOLVED", "OTHER"}

BoundAssumption ==
  MaxTransitions \in Nat /\ MaxFaults \in Nat /\ IsFiniteSet(Handler)

VARIABLES
  status,      \* column status
  resolvedAt,  \* resolved_at is set
  log,         \* incident_transitions of each incident, in insertion order
  blocked,     \* incidents whose attacker is in blocked_ips
  pc,          \* next statement: "idle", "update", "record", "block"
  target,      \* the incident a request is about
  from,        \* the status it read
  to,          \* the status it was asked for
  was,         \* history: statuses an incident has had
  unrecorded,  \* history: transitions whose entry was not written
  spared,      \* history: attackers unblocked or whose block did not happen
  overlapped,  \* history: incidents two transitions of which overlapped
  faults       \* how much of MaxFaults has happened

incident == <<status, resolvedAt, log, blocked>>
request == <<pc, target, from, to>>
history == <<was, unrecorded, spared, overlapped>>
vars == <<incident, request, history, faults>>

Entry == [from : Status, to : Status]

TypeOK ==
  /\ status \in [Incident -> Status]
  /\ resolvedAt \in [Incident -> BOOLEAN]
  /\ \A i \in Incident : log[i] \in Seq(Entry)
  /\ blocked \subseteq Incident
  /\ pc \in [Handler -> {"idle", "update", "record", "block"}]
  /\ target \in [Handler -> Incident \cup {Nothing}]
  /\ from \in [Handler -> Status]
  /\ to \in [Handler -> Status]
  /\ was \in [Incident -> SUBSET Status]
  /\ unrecorded \in [Incident -> Nat]
  /\ spared \subseteq Incident
  /\ overlapped \subseteq Incident
  /\ faults \in 0..MaxFaults

Init ==
  /\ status = [i \in Incident |-> "DETECTED"]
  /\ resolvedAt = [i \in Incident |-> FALSE]
  /\ log = [i \in Incident |-> <<>>]
  /\ blocked = {}
  /\ pc = [h \in Handler |-> "idle"]
  /\ target = [h \in Handler |-> Nothing]
  /\ from = [h \in Handler |-> "DETECTED"]
  /\ to = [h \in Handler |-> "DETECTED"]
  /\ was = [i \in Incident |-> {"DETECTED"}]
  /\ unrecorded = [i \in Incident |-> 0]
  /\ spared = {}
  /\ overlapped = {}
  /\ faults = 0

-----------------------------------------------------------------------------
Busy(i) == {h \in Handler : pc[h] # "idle" /\ target[h] = i}
Unwritten(i) == {h \in Busy(i) : pc[h] \in {"update", "record"}}

Starts(h, i, old, new) ==
  /\ pc[h] = "idle"
  /\ Len(log[i]) + unrecorded[i] + Cardinality(Unwritten(i)) < MaxTransitions
  /\ pc' = [pc EXCEPT ![h] = "update"]
  /\ target' = [target EXCEPT ![h] = i]
  /\ from' = [from EXCEPT ![h] = old]
  /\ to' = [to EXCEPT ![h] = new]
  /\ overlapped' = IF Busy(i) # {} THEN overlapped \cup {i} ELSE overlapped
  /\ UNCHANGED <<incident, was, unrecorded, spared, faults>>

(* Fault: an empty status is not refused. *)
ReadEmpty(h, i, new) == Starts(h, i, status[i], "")

Read(h, i, new) == Starts(h, i, status[i], new)

Goto(h, stmt) ==
  /\ pc' = [pc EXCEPT ![h] = stmt]
  /\ target' = [target EXCEPT ![h] = IF stmt = "idle" THEN Nothing ELSE @]
  /\ from' = [from EXCEPT ![h] = IF stmt = "idle" THEN "DETECTED" ELSE @]
  /\ to' = [to EXCEPT ![h] = IF stmt = "idle" THEN "DETECTED" ELSE @]

AfterRecord(h) == IF to[h] = "CONTAINED" THEN "block" ELSE "idle"

(* The update does not look at the status it replaces.  resolved_at is set *)
(* by the same statement and never cleared.                                *)
Update(h) ==
  /\ pc[h] = "update"
  /\ status' = [status EXCEPT ![target[h]] = to[h]]
  /\ resolvedAt' = [resolvedAt EXCEPT ![target[h]] = @ \/ to[h] = "RESOLVED"]
  /\ was' = [was EXCEPT ![target[h]] = @ \cup {to[h]}]
  /\ Goto(h, "record")
  /\ UNCHANGED <<log, blocked, unrecorded, spared, overlapped, faults>>

(* Fault: the attacker is not blocked. *)
RecordOnly(h) ==
  /\ pc[h] = "record"
  /\ log' = [log EXCEPT ![target[h]] = Append(@, [from |-> from[h], to |-> to[h]])]
  /\ Goto(h, "idle")
  /\ UNCHANGED <<status, resolvedAt, blocked, history, faults>>

Record(h) ==
  /\ pc[h] = "record"
  /\ log' = [log EXCEPT ![target[h]] = Append(@, [from |-> from[h], to |-> to[h]])]
  /\ Goto(h, AfterRecord(h))
  /\ UNCHANGED <<status, resolvedAt, blocked, history, faults>>

Block(h) ==
  /\ pc[h] = "block"
  /\ blocked' = blocked \cup {target[h]}
  /\ Goto(h, "idle")
  /\ UNCHANGED <<status, resolvedAt, log, history, faults>>

(* Fault: the entry is written although the update failed. *)
FailedUpdateRecorded(h) ==
  /\ pc[h] # "idle"
  /\ faults < MaxFaults
  /\ faults' = faults + 1
  /\ Goto(h, IF pc[h] = "record" THEN AfterRecord(h)
             ELSE IF pc[h] = "update" THEN "record" ELSE "idle")
  /\ unrecorded' = [unrecorded EXCEPT ![target[h]] =
                      @ + (IF pc[h] = "record" THEN 1 ELSE 0)]
  /\ spared' = IF pc[h] = "block" THEN spared \cup {target[h]} ELSE spared
  /\ UNCHANGED <<incident, was, overlapped>>

(* A failed update is answered 500; a failed entry or block goes unnoticed *)
(* and the request is answered with success.                               *)
StatementFails(h) ==
  /\ pc[h] # "idle"
  /\ faults < MaxFaults
  /\ faults' = faults + 1
  /\ Goto(h, IF pc[h] = "record" THEN AfterRecord(h) ELSE "idle")
  /\ unrecorded' = [unrecorded EXCEPT ![target[h]] =
                      @ + (IF pc[h] = "record" THEN 1 ELSE 0)]
  /\ spared' = IF pc[h] = "block" THEN spared \cup {target[h]} ELSE spared
  /\ UNCHANGED <<incident, was, overlapped>>

Forgotten == [h \in Handler |-> "DETECTED"]

(* The process ends, for instance by the panic of AccountTakeover: of a    *)
(* request in progress only the statements it has executed remain.         *)
ProcessEnds ==
  /\ faults < MaxFaults
  /\ faults' = faults + 1
  /\ pc' = [h \in Handler |-> "idle"]
  /\ target' = [h \in Handler |-> Nothing]
  /\ from' = Forgotten /\ to' = Forgotten
  /\ unrecorded' = [i \in Incident |->
       unrecorded[i] + Cardinality({h \in Busy(i) : pc[h] = "record"})]
  /\ spared' = spared \cup
       {i \in Incident : \E h \in Busy(i) : pc[h] # "update" /\ to[h] = "CONTAINED"}
  /\ UNCHANGED <<incident, was, overlapped>>

(* containCampaignHandler blocks the source of a campaign. *)
ContainCampaign(i) ==
  /\ blocked' = blocked \cup {i}
  /\ UNCHANGED <<status, resolvedAt, log, request, history, faults>>

(* deleteBlockedIP *)
Unblock(i) ==
  /\ i \in blocked
  /\ blocked' = blocked \ {i}
  /\ spared' = spared \cup {i}
  /\ UNCHANGED <<status, resolvedAt, log, request, was, unrecorded, overlapped, faults>>

Next ==
  \/ \E h \in Handler :
       \/ \E i \in Incident, new \in Status : Read(h, i, new)
       \/ Update(h) \/ Record(h) \/ Block(h) \/ StatementFails(h)
  \/ \E i \in Incident : ContainCampaign(i) \/ Unblock(i)
  \/ ProcessEnds

Spec == Init /\ [][Next]_vars

-----------------------------------------------------------------------------
(* However requests interleave, an entry of the audit trail names a change *)
(* that was made: the incident had both statuses before the entry existed. *)
TrailIsTrue ==
  \A i \in Incident :
    /\ \A n \in DOMAIN log[i] : {log[i][n].from, log[i][n].to} \subseteq was[i]
    /\ \A h \in Busy(i) : from[h] \in was[i]

(* At rest an incident that says RESOLVED has a time of resolution, and    *)
(* one that says CONTAINED has its attacker blocked unless the block       *)
(* failed, was lifted, or the process ended before it.                     *)
StatusHasEffect ==
  \A i \in Incident :
    /\ status[i] = "RESOLVED" => resolvedAt[i]
    /\ status[i] = "CONTAINED" /\ Busy(i) = {} => i \in blocked \cup spared

Linked(trail) ==
  \A n \in 1..Len(trail) - 1 : trail[n + 1].from = trail[n].to

(* "Record transition in audit table" (risk_posture_engine.go 461): the    *)
(* entries link up and the last one names the current status, until two    *)
(* transitions of the incident overlap or an entry is not written.         *)
TrailIsChain ==
  \A i \in Incident \ overlapped :
    Busy(i) = {} /\ unrecorded[i] = 0 =>
      /\ Linked(log[i])
      /\ log[i] # <<>> => log[i][Len(log[i])].to = status[i]
=============================================================================
