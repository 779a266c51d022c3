-------------------------- MODULE SnapshotHistory --------------------------
(***************************************************************************)
(* The history of pushed configurations, waf_config_snapshots.             *)
(*                                                                         *)
(* After a push a goroutine saves the content with three statements: read  *)
(* the highest version, insert a row with the next one, delete all but the *)
(* newest rows.  Goroutines of different requests are not ordered, their   *)
(* errors are ignored, and a crash ends them between two statements.  An   *)
(* operator rolls back to a row by pushing its content, which is saved     *)
(* again.                                                                  *)
(***************************************************************************)
EXTENDS Integers, FiniteSets, FiniteSetsExt

CONSTANTS
  Content,    \* configurations
  NoContent,  \* nothing: a process that has not pushed, a goroutine at rest
  Saver,      \* goroutines that run saveConfigSnapshot
  Limit,      \* rows a prune keeps: 50 in the code
  MaxId,      \* bound on rows ever inserted
  MaxFaults   \* bound on failed statements and crashes

HistoryAssumption ==
  /\ NoContent \notin Content
  /\ Limit \in Nat \ {0} /\ MaxId \in Nat /\ MaxFaults \in Nat
  /\ IsFiniteSet(Saver)

VARIABLES
  rows,      \* the table
  lastId,    \* the sequence behind column id
  live,      \* what UpdateWAFConfig published last
  pc,        \* next statement of a saver: "idle", "read", "insert", "prune"
  saving,    \* the content a saver stores
  highest,   \* the highest version a saver has read
  pushed,    \* history: every content published
  unpruned,  \* history: prunes that did not happen
  overlapped, \* history: two savers were at work at once
  faults     \* how much of MaxFaults has happened

saver == <<pc, saving, highest>>
vars == <<rows, lastId, live, saver, pushed, unpruned, overlapped, faults>>

Row == [id : 1..MaxId, version : 1..MaxId, content : Content]

TypeOK ==
  /\ rows \subseteq Row
  /\ lastId \in 0..MaxId
  /\ live \in Content \cup {NoContent}
  /\ pc \in [Saver -> {"idle", "read", "insert", "prune"}]
  /\ saving \in [Saver -> Content \cup {NoContent}]
  /\ highest \in [Saver -> 0..MaxId]
  /\ pushed \subseteq Content
  /\ unpruned \in Nat
  /\ overlapped \in BOOLEAN
  /\ faults \in 0..MaxFaults

AllIdle ==
  /\ pc = [s \in Saver |-> "idle"]
  /\ saving = [s \in Saver |-> NoContent]
  /\ highest = [s \in Saver |-> 0]

Init ==
  /\ rows = {}
  /\ lastId = 0
  /\ live = NoContent
  /\ AllIdle
  /\ pushed = {}
  /\ unpruned = 0
  /\ overlapped = FALSE
  /\ faults = 0

-----------------------------------------------------------------------------
Publish(c) ==
  /\ live' = c
  /\ pushed' = pushed \cup {c}

(* The bound: a row can still be inserted for every saver at work. *)
StartSaver(s, c) ==
  /\ pc[s] = "idle"
  /\ lastId + Cardinality({t \in Saver : pc[t] \in {"read", "insert"}}) < MaxId
  /\ pc' = [pc EXCEPT ![s] = "read"]
  /\ saving' = [saving EXCEPT ![s] = c]
  /\ overlapped' = (overlapped \/ \E t \in Saver : pc[t] # "idle")
  /\ UNCHANGED <<rows, lastId, highest, unpruned, faults>>

(* Fault: the content is saved and not pushed. *)
SaveOnly(s, c) ==
  /\ StartSaver(s, c)
  /\ UNCHANGED <<live, pushed>>

(* The end of syncDynamicWAFRules. *)
PushAndSave(s, c) ==
  /\ Publish(c)
  /\ StartSaver(s, c)

(* updateConfigHandler and the boot push a content and do not save it. *)
PushOnly(c) ==
  /\ Publish(c)
  /\ UNCHANGED <<rows, lastId, saver, unpruned, overlapped, faults>>

(* rollbackConfigSnapshot *)
Rollback(s, row) ==
  /\ row \in rows
  /\ Publish(row.content)
  /\ StartSaver(s, row.content)

-----------------------------------------------------------------------------
HighestVersion == Max({row.version : row \in rows} \cup {0})

Step(s, stmt, then) ==
  /\ pc[s] = stmt
  /\ pc' = [pc EXCEPT ![s] = then]
  /\ UNCHANGED <<live, pushed, overlapped>>

Fault == faults < MaxFaults /\ faults' = faults + 1

ReadMax(s) ==
  /\ Step(s, "read", "insert")
  /\ highest' = [highest EXCEPT ![s] = HighestVersion]
  /\ UNCHANGED <<rows, lastId, saving, unpruned, faults>>

(* The error of the query is discarded and maxVer stays 0. *)
ReadFails(s) ==
  /\ Fault
  /\ Step(s, "read", "insert")
  /\ UNCHANGED <<rows, lastId, saving, highest, unpruned>>

(* Fault: versions count from zero. *)
InsertFromZero(s) ==
  /\ Step(s, "insert", "prune")
  /\ lastId' = lastId + 1
  /\ rows' = rows \cup {[id |-> lastId', version |-> highest[s],
                         content |-> saving[s]]}
  /\ UNCHANGED <<saving, highest, unpruned, faults>>

Insert(s) ==
  /\ Step(s, "insert", "prune")
  /\ lastId' = lastId + 1
  /\ rows' = rows \cup {[id |-> lastId', version |-> highest[s] + 1,
                         content |-> saving[s]]}
  /\ UNCHANGED <<saving, highest, unpruned, faults>>

(* Logged, and the saver goes on to the prune. *)
InsertFails(s) ==
  /\ Fault
  /\ Step(s, "insert", "prune")
  /\ UNCHANGED <<rows, lastId, saving, highest, unpruned>>

NewerThan(row) == {other \in rows : other.id > row.id}

Rest(s) ==
  /\ Step(s, "prune", "idle")
  /\ saving' = [saving EXCEPT ![s] = NoContent]
  /\ highest' = [highest EXCEPT ![s] = 0]

(* Fault: the oldest rows are kept instead of the newest. *)
PruneNewest(s) ==
  /\ Rest(s)
  /\ rows' = {row \in rows : Cardinality(rows \ NewerThan(row)) <= Limit}
  /\ UNCHANGED <<lastId, unpruned, faults>>

(* DELETE of the rows that are not among the Limit highest ids. *)
Prune(s) ==
  /\ Rest(s)
  /\ rows' = {row \in rows : Cardinality(NewerThan(row)) < Limit}
  /\ UNCHANGED <<lastId, unpruned, faults>>

PruneFails(s) ==
  /\ Fault
  /\ Rest(s)
  /\ unpruned' = unpruned + 1
  /\ UNCHANGED <<rows, lastId>>

(* The process dies: rows stay, a saver that had inserted never prunes. *)
Crash ==
  /\ Fault
  /\ live' = NoContent
  /\ pc' = [s \in Saver |-> "idle"]
  /\ saving' = [s \in Saver |-> NoContent]
  /\ highest' = [s \in Saver |-> 0]
  /\ unpruned' = unpruned + Cardinality({s \in Saver : pc[s] = "prune"})
  /\ UNCHANGED <<rows, lastId, pushed, overlapped>>

-----------------------------------------------------------------------------
Next ==
  \/ \E s \in Saver :
       \/ \E c \in Content : PushAndSave(s, c)
       \/ \E row \in rows : Rollback(s, row)
       \/ ReadMax(s) \/ Insert(s) \/ Prune(s)
       \/ ReadFails(s) \/ InsertFails(s) \/ PruneFails(s)
  \/ \E c \in Content : PushOnly(c)
  \/ Crash

Spec == Init /\ [][Next]_vars

-----------------------------------------------------------------------------
(* Whatever savers, failures and crashes interleave, a rollback can only   *)
(* bring back what Envoy was served before.                                *)
HistoryWasPublished ==
  /\ \A row \in rows : row.content \in pushed
  /\ \A s \in Saver : pc[s] # "idle" => saving[s] \in pushed

(* The table outgrows the limit only by rows whose saver has yet to prune  *)
(* or could not: each is removed by the next prune of anybody.             *)
RetentionBounded ==
  Cardinality(rows) <=
    Limit + Cardinality({s \in Saver : pc[s] = "prune"}) + unpruned

(* A prune never removes the newest row, even if savers prune and insert   *)
(* in any order.                                                           *)
NewestSurvives ==
  [][\A row \in rows : NewerThan(row) = {} => row \in rows']_vars

(* "persists a versioned snapshot" (main.go 2199): a version names one     *)
(* row, and later rows have higher versions, until savers overlap or a     *)
(* statement fails.                                                        *)
VersionsFollowIds ==
  ~overlapped /\ faults = 0 =>
    \A a, b \in rows : a.id < b.id => a.version < b.version
=============================================================================
