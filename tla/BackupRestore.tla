--------------------------- MODULE BackupRestore ---------------------------
(***************************************************************************)
(* Backup and restore of the configuration (main.go 5728-6161).            *)
(*                                                                         *)
(* The export reads 21 tables one after the other and leaves out a table   *)
(* whose query fails.  The restore writes ten of them in one transaction,  *)
(* row by row, with INSERT ... ON CONFLICT DO UPDATE; the error of a       *)
(* statement is logged and the next statement is tried.  PostgreSQL has    *)
(* aborted the transaction by then: the later statements fail, too, and so *)
(* does the commit.  Rows carry the ids they had when they were exported,  *)
(* and of a row that is found, each statement updates some columns only.   *)
(*                                                                         *)
(* Two kinds of tables stand for all: the conflict target of ByKey tables  *)
(* is a natural key (rule_id, domain, slug), that of ById tables the id.   *)
(* The eleven tables that are exported and never restored are left out.    *)
(***************************************************************************)
EXTENDS Naturals, FiniteSets

CONSTANTS
  ByKey, ById,  \* tables
  Key,          \* natural keys
  Value,        \* table -> contents of the columns that ON CONFLICT sets
  Fixed,        \* table -> contents of those it leaves as they are
  NoBundle,     \* nothing has been exported
  MaxId,        \* table -> bound on ids its sequence hands out
  MaxFaults     \* bound on failed queries, damage and new databases

Table == ByKey \cup ById

BackupAssumption ==
  ByKey \cap ById = {} /\ MaxId \in [Table -> Nat] /\ MaxFaults \in Nat

(* value stands for the name, code and status of a custom rule and fixed   *)
(* for its description, application, version and action (main.go 6016);    *)
(* of an identity policy (6128) value is action and is_enabled, and role,  *)
(* path and application are the key, which is not unique there and which   *)
(* ON CONFLICT leaves alone.  intact says whether the bundle is as it was  *)
(* exported; the restore never looks at it.                                *)
Row(t) == [id : Nat, key : Key, value : Value[t], fixed : Fixed[t]]
IsTables(db) == DOMAIN db = Table /\ \A t \in Table : db[t] \subseteq Row(t)
IsBundle(b) == b = NoBundle \/ (IsTables(b.rows) /\ b.intact \in BOOLEAN)

VARIABLES
  tables,     \* the database
  lastId,     \* the sequences behind the id columns
  exporting,  \* tables an export in progress has yet to read
  read,       \* what it has read
  bundle,     \* the bundle in storage, and whether it matches its checksum
  tx,         \* the restore's transaction: "none", "open" or "aborted"
  left,       \* tables it has yet to write
  restoring,  \* the bundle it was sent
  draft,      \* the database as the transaction sees it
  faults      \* how much of MaxFaults has happened

export == <<exporting, read>>
restore == <<tx, left, restoring, draft>>
vars == <<tables, lastId, export, bundle, restore, faults>>

Empty == [t \in Table |-> {}]

TypeOK ==
  /\ IsTables(tables)
  /\ \A t \in Table : lastId[t] \in 0..MaxId[t]
  /\ exporting \subseteq Table
  /\ IsTables(read)
  /\ IsBundle(bundle)
  /\ tx \in {"none", "open", "aborted"}
  /\ left \subseteq Table
  /\ IsBundle(restoring)
  /\ IsTables(draft)
  /\ faults \in 0..MaxFaults

Init ==
  /\ tables = Empty
  /\ lastId = [t \in Table |-> 0]
  /\ exporting = {}
  /\ read = Empty
  /\ bundle = NoBundle
  /\ tx = "none"
  /\ left = {}
  /\ restoring = NoBundle
  /\ draft = Empty
  /\ faults = 0

-----------------------------------------------------------------------------
(* The rows a transaction has written are locked and its new keys block    *)
(* writers that need them: a handler's write is ordered before or after    *)
(* the whole restore.                                                      *)
MayWrite == tx = "none" /\ UNCHANGED <<export, bundle, restore, faults>>

(* Two rows that the table's constraints do not allow together. *)
Clash(t, a, b) == a.id = b.id \/ (t \in ByKey /\ a.key = b.key)

(* An INSERT takes its id from the sequence, even if it then fails.        *)
Create(t, k, v, x) ==
  LET row == [id |-> lastId[t] + 1, key |-> k, value |-> v, fixed |-> x]
  IN /\ MayWrite
     /\ lastId[t] < MaxId[t]
     /\ lastId' = [lastId EXCEPT ![t] = @ + 1]
     /\ tables' = IF \E other \in tables[t] : Clash(t, row, other) THEN tables
                  ELSE [tables EXCEPT ![t] = @ \cup {row}]

Modify(t, row, v, x) ==
  /\ MayWrite
  /\ row \in tables[t]
  /\ tables' = [tables EXCEPT ![t] =
       (@ \ {row}) \cup {[row EXCEPT !.value = v, !.fixed = x]}]
  /\ UNCHANGED lastId

Delete(t, row) ==
  /\ MayWrite
  /\ row \in tables[t]
  /\ tables' = [tables EXCEPT ![t] = @ \ {row}]
  /\ UNCHANGED lastId

-----------------------------------------------------------------------------
Fault == faults < MaxFaults /\ faults' = faults + 1

BeginExport ==
  /\ exporting = {}
  /\ exporting' = Table
  /\ read' = Empty
  /\ UNCHANGED <<tables, lastId, bundle, restore, faults>>

(* The bundle is complete when the last table has been read. *)
Exported(t, rows) ==
  /\ t \in exporting
  /\ exporting' = exporting \ {t}
  /\ IF exporting = {t}
       THEN /\ bundle' = [rows |-> [read EXCEPT ![t] = rows], intact |-> TRUE]
            /\ read' = Empty
       ELSE /\ read' = [read EXCEPT ![t] = rows]
            /\ UNCHANGED bundle
  /\ UNCHANGED <<tables, lastId, restore>>

ExportTable(t) == Exported(t, tables[t]) /\ UNCHANGED faults

ExportFails(t) == Exported(t, {}) /\ Fault

(* A bundle in storage loses a row; its checksum no longer matches. *)
Damage(t, row) ==
  /\ bundle # NoBundle
  /\ row \in bundle.rows[t]
  /\ Fault
  /\ bundle' = [rows |-> [bundle.rows EXCEPT ![t] = @ \ {row}], intact |-> FALSE]
  /\ UNCHANGED <<tables, lastId, export, restore>>

(* The disaster: the product is installed on an empty database. *)
Reinstall ==
  /\ tx = "none"
  /\ Fault
  /\ tables' = Empty
  /\ lastId' = [t \in Table |-> 0]
  /\ exporting' = {}
  /\ read' = Empty
  /\ UNCHANGED <<bundle, restore>>

-----------------------------------------------------------------------------
(* restoreSystemBackup looks at backup_version and not at the checksum. *)
BeginRestore ==
  /\ bundle # NoBundle
  /\ tx = "none"
  /\ tx' = "open"
  /\ left' = Table
  /\ restoring' = bundle
  /\ draft' = tables
  /\ UNCHANGED <<tables, lastId, export, bundle, faults>>

(* The row of the table that ON CONFLICT updates instead of inserting. *)
Target(t, row, other) ==
  IF t \in ByKey THEN other.key = row.key ELSE other.id = row.id

Updated(t, other, rows) ==
  IF \E row \in rows : Target(t, row, other)
    THEN LET row == CHOOSE row \in rows : Target(t, row, other)
         IN [other EXCEPT !.value = row.value]
    ELSE other

Inserted(t, rows, old) ==
  {row \in rows : \A other \in old : ~Target(t, row, other)}

Upsert(t, rows, old) ==
  {Updated(t, other, rows) : other \in old} \cup Inserted(t, rows, old)

(* An insert whose id belongs to a row with another key is rejected.       *)
Rejected(t, rows, old) ==
  {row \in Inserted(t, rows, old) : \E other \in old : Clash(t, row, other)}

(* Fault: a rejected row is skipped and the others are kept. *)
RestoreSkipping(t) ==
  LET rows == restoring.rows[t]  old == draft[t]
  IN /\ tx # "none"
     /\ t \in left
     /\ left' = left \ {t}
     /\ draft' = [draft EXCEPT ![t] = Upsert(t, rows \ Rejected(t, rows, old), old)]
     /\ UNCHANGED <<tables, lastId, export, bundle, tx, restoring, faults>>

(* Fault: the id of a row is not looked at. *)
RestoreUnchecked(t) ==
  LET rows == restoring.rows[t]  old == draft[t]
  IN /\ tx # "none"
     /\ t \in left
     /\ left' = left \ {t}
     /\ draft' = [draft EXCEPT ![t] = Upsert(t, rows, old)]
     /\ UNCHANGED <<tables, lastId, export, bundle, tx, restoring, faults>>

(* The loop over the rows of one table. *)
RestoreTable(t) ==
  LET rows == restoring.rows[t]  old == draft[t]
  IN /\ tx # "none"
     /\ t \in left
     /\ left' = left \ {t}
     /\ IF tx = "aborted" \/ Rejected(t, rows, old) # {}
          THEN tx' = "aborted" /\ UNCHANGED draft
          ELSE tx' = tx /\ draft' = [draft EXCEPT ![t] = Upsert(t, rows, old)]
     /\ UNCHANGED <<tables, lastId, export, bundle, restoring, faults>>

Commit ==
  /\ tx # "none"
  /\ left = {}
  /\ tx' = "none"
  /\ tables' = IF tx = "open" THEN draft ELSE tables
  /\ draft' = Empty
  /\ restoring' = NoBundle
  /\ UNCHANGED <<lastId, export, bundle, left, faults>>

Next ==
  \/ \E t \in Table :
       \/ \E k \in Key, v \in Value[t], x \in Fixed[t] : Create(t, k, v, x)
       \/ \E row \in tables[t], v \in Value[t], x \in Fixed[t] : Modify(t, row, v, x)
       \/ \E row \in tables[t] : Delete(t, row)
       \/ ExportTable(t) \/ ExportFails(t) \/ RestoreTable(t)
  \/ bundle # NoBundle /\ \E t \in Table : \E row \in bundle.rows[t] : Damage(t, row)
  \/ BeginExport \/ Reinstall \/ BeginRestore \/ Commit

Spec == Init /\ [][Next]_vars

-----------------------------------------------------------------------------
Ends == tx # "none" /\ tx' = "none"

(* Every row is there as it is in the bundle; or its conflict target was   *)
(* taken, and the row that had it has the bundle's value and otherwise     *)
(* what it had.                                                            *)
Restored(t, rows, old, new) ==
  \A row \in rows :
    \/ row \in new
    \/ \E other \in old :
         Target(t, row, other) /\ [other EXCEPT !.value = row.value] \in new

(* A row keeps its id and all that ON CONFLICT leaves alone. *)
Retained(old, new) ==
  \A other \in old : \E row \in new :
    row.id = other.id /\ row.key = other.key /\ row.fixed = other.fixed

(* "executes atomic cluster restore" (tests/waf/test_milestone7.ps1 136):  *)
(* a restore inserts every row of the tables it restores or updates the    *)
(* row it finds in its place, and it neither removes a row nor turns it    *)
(* into another; or, if one row is rejected, it changes nothing.  The      *)
(* value is all that comes back of a row whose place is taken.             *)
RestoreIsAtomic ==
  [][Ends => \/ tables' = tables
             \/ \A t \in Table :
                  /\ Restored(t, restoring.rows[t], tables[t], tables'[t])
                  /\ Retained(tables[t], tables'[t])]_vars

(* Restores put old ids next to new ones, yet no two rows of a table share *)
(* an id or, where the table has one, a natural key.                       *)
RowsAreDistinct ==
  \A t \in Table : \A a, b \in tables[t] : a # b => ~Clash(t, a, b)

=============================================================================
