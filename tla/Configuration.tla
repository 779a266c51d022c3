--------------------------- MODULE Configuration ----------------------------
(***************************************************************************)
(* What becomes of a configuration before and after a push: a rule is      *)
(* written and taken through its life, a policy is learnt from traffic,    *)
(* the text is assembled, pushed texts are saved and rolled back to, and   *)
(* the tables are exported and restored.                                   *)
(*                                                                         *)
(* ConfigSync joins tables and pushes; these are what it leaves out.  They *)
(* do not touch one another's state, and so it is enough to run each       *)
(* against all behaviours of its own: focus says which one moves.          *)
(***************************************************************************)
EXTENDS Naturals

CONSTANTS
  FirstId, Gap, Written, MaxRows,
  Content, NoContent, Saver, Limit, MaxSaved,
  ByKey, ById, Key, Value, Fixed, NoBundle, MaxId,
  Handler, Nothing, Rule, Seeded, Watched, MaxEntries,
  Feature, Size, Floor, MaxInt, MaxRequests,
  MaxFaults

VARIABLES
  focus,
  status, action, approved, compiles, secLang, log, ruleAt, job, missed, ruleFaults,
  profile, seen, total, policies, learnAt, known, shown, observed, begun,
  overtaken, learnFaults,
  rows, authored, text,
  saved, lastSaved, live, pc, saving, highest, pushed, unpruned, overlapped,
  failures,
  tables, lastId, exporting, read, bundle, tx, left, restoring, draft, faults

Rules ==
  INSTANCE RuleLifecycle WITH pc <- ruleAt, faults <- ruleFaults

Learning ==
  INSTANCE LearningProfile WITH
    status <- profile, pc <- learnAt, overlapped <- overtaken, faults <- learnFaults

Assembly == INSTANCE RuleAssembly

History ==
  INSTANCE SnapshotHistory WITH
    MaxId <- MaxSaved, rows <- saved, lastId <- lastSaved, faults <- failures

Backup == INSTANCE BackupRestore

ASSUME RuleAssumption == Rules!BoundAssumption
ASSUME LearningAssumption == Learning!BoundAssumption
ASSUME AssemblyAssumption == Assembly!IdAssumption
ASSUME HistoryAssumption == History!HistoryAssumption
ASSUME BackupAssumption == Backup!BackupAssumption

ruleVars == <<status, action, approved, compiles, secLang, log, ruleAt, job,
              missed, ruleFaults>>
learningVars == <<profile, seen, total, policies, learnAt, known, shown,
                  observed, begun, overtaken, learnFaults>>
assemblyVars == <<rows, authored, text>>
historyVars == <<saved, lastSaved, live, pc, saving, highest, pushed, unpruned,
                 overlapped, failures>>
backupVars == <<tables, lastId, exporting, read, bundle, tx, left, restoring,
                draft, faults>>
textVars == <<assemblyVars, historyVars, backupVars>>
vars == <<focus, ruleVars, learningVars, textVars>>

Init ==
  /\ focus \in {"rules", "learning", "assembly", "history", "backup"}
  /\ Rules!Init /\ Learning!Init
  /\ Assembly!Init /\ History!Init /\ Backup!Init

Next ==
  /\ UNCHANGED focus
  /\ \/ /\ focus = "rules"
        /\ Rules!Next
        /\ UNCHANGED <<learningVars, textVars>>
     \/ /\ focus = "learning"
        /\ Learning!Next
        /\ UNCHANGED <<ruleVars, textVars>>
     \/ /\ focus = "assembly"
        /\ Assembly!Next
        /\ UNCHANGED <<ruleVars, learningVars, historyVars, backupVars>>
     \/ /\ focus = "history"
        /\ History!Next
        /\ UNCHANGED <<ruleVars, learningVars, assemblyVars, backupVars>>
     \/ /\ focus = "backup"
        /\ Backup!Next
        /\ UNCHANGED <<ruleVars, learningVars, assemblyVars, historyVars>>

Spec == Init /\ [][Next]_vars

-----------------------------------------------------------------------------
(* The variables of all parts have their types. *)
TypeOK ==
  /\ Rules!TypeOK /\ Learning!TypeOK
  /\ Assembly!TypeOK /\ History!TypeOK /\ Backup!TypeOK

(* A rule is VALIDATED or TESTING only if its text passed the checks of    *)
(* that step (rule_lifecycle.go 273-393).                                  *)
ValidatedTextIsSound == Rules!ValidatedTextIsSound

(* The audit history accounts for the status of a rule at rest             *)
(* (rule_lifecycle.go 395-530).                                            *)
StatusIsAudited == Rules!StatusIsAudited

(* An ENFORCED rule has been approved (rule_lifecycle.go 469). *)
EnforcedWasApproved == Rules!EnforcedWasApproved

(* Profiles and policies name only what was observed, and the limit of a   *)
(* policy is Floor or twice an observed size at most                       *)
(* (learning_positive_engine.go 229-459).                                  *)
OnlyObservedIsAllowed == Learning!OnlyObservedIsAllowed

(* A policy never changes after it was suggested                           *)
(* (learning_positive_engine.go 478-505).                                  *)
PoliciesAreFixed == Learning!PoliciesAreFixed

(* A written observation stays in the profile, until requests overlap      *)
(* (learning_positive_engine.go 319).                                      *)
ObservationsAreKept == Learning!ObservationsAreKept

(* Every row that asks for a directive has one, and no other is there; the *)
(* parts of the text keep their precedence; and numbers do not repeat      *)
(* while tables keep within their ranges (main.go 1912-2189).              *)
TextIsWellFormed ==
  Assembly!EveryRowIsRendered /\ Assembly!PrecedenceHolds /\ Assembly!NumbersAreDistinct

(* A rollback can only bring back what was served, the history outgrows    *)
(* its limit only by rows yet to be pruned, and versions grow with ids     *)
(* until savers overlap or a statement fails (main.go 2197-2216,           *)
(* 4144-4162).                                                             *)
HistoryIsSound ==
  History!HistoryWasPublished /\ History!RetentionBounded /\ History!VersionsFollowIds

(* A prune never removes the newest row (main.go 2214-2216). *)
NewestSurvives == History!NewestSurvives

(* No two rows of a table share an id or a key after any restore (main.go  *)
(* 5995-6142).                                                             *)
RowsAreDistinct == Backup!RowsAreDistinct

(* A restore inserts every row or updates the one it finds in its place,   *)
(* or it changes nothing; and it removes no row (main.go 5976-6160).       *)
RestoreIsAtomic == Backup!RestoreIsAtomic
=============================================================================
