------------------------------ MODULE PageParts ------------------------------
(***************************************************************************)
(* The vocabulary in which the modules of pages say what a page is made    *)
(* of: rows, updates of rows, handlers, controls and pages.                *)
(*                                                                         *)
(* A row is named for what its page tells apart: that it is there, whether *)
(* it is switched on, or the status it has.                                *)
(***************************************************************************)
EXTENDS TLC

Absent == "absent"
Switch == {"on", "off"}
Present == Switch \cup
  {"kept", "APPROVED", "BLOCKED", "DISCOVERED", "BLOCK", "ALLOW",
   "INVESTIGATING", "MITIGATED", "RESOLVED", "HEALTHY", "DRAINING",
   "ACTIVE", "PROMOTED", "ROLLED_BACK",
   "LEARNING", "LEARNING-MONITOR", "LEARNING-BLOCK", "PROTECTED", "PROTECTED-MONITOR"}
Values == {Absent} \cup Present

-----------------------------------------------------------------------------
(* Updates. *)
Inserted(v) == [x \in {Absent} |-> v]
To(v) == [x \in Present |-> v]
Gone == To(Absent)
NoUpdate == [x \in {} |-> Absent]
Flip == [on |-> "off", off |-> "on"]
Upserted(v) == [x \in Values |-> v]

(* What a handler gives. *)
NoRow == [v \in {} |-> {}]
Adds(S) == [v \in {Absent} |-> {Inserted(s) : s \in S}]
Upserts(U) == [v \in {Absent} |-> U]
Removes == [v \in Present |-> {Gone}]
Sets(S) == [v \in Present |-> {To(s) : s \in S}]

(* A switch is flipped by the management plane, whatever it is by then, or *)
(* the page sends the opposite of what it shows.                           *)
Flips == [v \in Switch |-> {Flip}]
SendsOpposite == [v \in Switch |-> {To(Flip[v])}]

-----------------------------------------------------------------------------
(* A handler that changes nothing and does nothing with its answer; every  *)
(* handler is this one except for what it does.                            *)
Handler == [table |-> "rows", gives |-> NoRow, flag |-> "none", perRow |-> FALSE,
            ok |-> {}, refused |-> {}, failed |-> {}]

(* A button, a button of the rows in S, a form on the page or in a dialog. *)
Button(disabled) ==
  [on |-> {}, disabled |-> disabled, form |-> "none", inline |-> FALSE, preset |-> FALSE]
OnRows(S, disabled) == [Button(disabled) EXCEPT !.on = S]
Dialog(form, disabled) == [Button(disabled) EXCEPT !.form = form]
Inline(form, disabled) == [Dialog(form, disabled) EXCEPT !.inline = TRUE]
Preset(control) == [control EXCEPT !.preset = TRUE]

(* A page with one table, that is fetched when the page is mounted and     *)
(* whenever somebody refreshes.                                            *)
List(rows) ==
  [tables |-> {"rows"}, rows |-> [t \in {"rows"} |-> rows],
   quiet |-> FALSE, empties |-> FALSE, polls |-> FALSE,
   refresh |-> TRUE, refreshDisabled |-> {}]
Lists(rows) == [List({}) EXCEPT !.tables = DOMAIN rows, !.rows = rows]
PageOf(list, does, controls) == [does |-> does, controls |-> controls] @@ list
=============================================================================
