----------------------------- MODULE ConfigSync -----------------------------
(***************************************************************************)
(* From the rule tables to the configuration Envoy is served.              *)
(*                                                                         *)
(* A request handler of the management plane changes one table and then    *)
(* calls syncDynamicWAFRules, which queries ten tables one after the       *)
(* other, outside any transaction and any lock, assembles one SecLang      *)
(* text and hands it to UpdateWAFConfig.  Only that last call is under a   *)
(* mutex.  Handlers run concurrently, queries fail, rows expire, some      *)
(* handlers write a table and never sync, and the process restarts.        *)
(*                                                                         *)
(* The SecLang text is abstracted to a function from table to the set of   *)
(* rows rendered from it.                                                  *)
(***************************************************************************)
EXTENDS Naturals, FiniteSets

CONSTANTS
  Rule,          \* rows a table can hold
  NumSections,   \* tables queried by one sync, numbered in query order
  DefaultRules,  \* the directives of DefaultRuleSet
  Handler,       \* goroutines serving requests
  NoSnapshot,    \* the xDS cache holds nothing for the node
  MaxVersion,    \* bound on pushes in one life of the process
  MaxSnapshots   \* rows waf_config_snapshots retains (50 in the code)

(* waf_configs.custom_rules is table 1 and blocked_ips is table 2. *)
Section == 1..NumSections
Base == 1
BlockedIPs == 2

ASSUME SectionAssumption == NumSections \in Nat /\ NumSections >= 2
ASSUME DefaultAssumption == DefaultRules \subseteq Rule
ASSUME BoundAssumption == MaxVersion \in Nat /\ MaxSnapshots \in Nat \ {0}

(* Only these two queries abort the sync when they fail. *)
Required == {Base, BlockedIPs}

Content == [Section -> SUBSET Rule]
NothingRead == [s \in Section |-> {}]

ASSUME NoSnapshotAssumption == NoSnapshot \notin Content

(* Only the custom_rules text: what updateConfigHandler and the boot push. *)
BaseOnly(rules) == [NothingRead EXCEPT ![Base] = rules]

VARIABLES
  db,         \* the rows of each table that the sync would render now
  live,       \* content of the node's snapshot in the xDS cache
  version,    \* the process's version counter
  stage,      \* how far RunXDSServer got: "starting", "cache", "serving"
  snapshots,  \* contents stored in waf_config_snapshots
  pc,         \* handler: "idle", "query" or "push"
  job,        \* what the handler will push: "sync", "config", "rollback"
  next,       \* handler: the table queried next
  acc,        \* handler: what it has assembled so far
  held,       \* history: values each table held since the request began
  dropped     \* history: tables whose rows the sync lost to a failed query

process == <<live, version, stage>>
request == <<pc, job, next, acc, held, dropped>>
vars == <<db, process, snapshots, request>>

TypeOK ==
  /\ db \in Content
  /\ live \in Content \cup {NoSnapshot}
  /\ version \in Nat
  /\ stage \in {"starting", "cache", "serving"}
  /\ snapshots \subseteq Content
  /\ pc \in [Handler -> {"idle", "query", "push"}]
  /\ job \in [Handler -> {"sync", "config", "rollback"}]
  /\ next \in [Handler -> 1..NumSections + 1]
  /\ acc \in [Handler -> Content]
  /\ held \in [Handler -> [Section -> SUBSET SUBSET Rule]]
  /\ dropped \in [Handler -> SUBSET Section]

NoRequest ==
  /\ pc = [h \in Handler |-> "idle"]
  /\ job = [h \in Handler |-> "sync"]
  /\ next = [h \in Handler |-> 1]
  /\ acc = [h \in Handler |-> NothingRead]
  /\ held = [h \in Handler |-> NothingRead]
  /\ dropped = [h \in Handler |-> {}]

(* The process has just been started on a database that may hold rows. *)
Init ==
  /\ db \in {c \in Content : c[Base] = DefaultRules}
  /\ live = NoSnapshot
  /\ version = 0
  /\ stage = "starting"
  /\ snapshots = {}
  /\ NoRequest

(* The process has finished booting. *)
InitServing ==
  /\ db \in {c \in Content : c[Base] = DefaultRules}
  /\ live = BaseOnly(DefaultRules)
  /\ version = 1
  /\ stage = "serving"
  /\ snapshots = {}
  /\ NoRequest

-----------------------------------------------------------------------------
(* The bound: a request begins only while it can still push. *)
MayBegin(h) ==
  /\ pc[h] = "idle"
  /\ version + Cardinality({g \in Handler : pc[g] # "idle"}) < MaxVersion

(* Requests in progress witness every value a table takes. *)
Witness(store) ==
  [h \in Handler |-> IF pc[h] = "idle" THEN held[h]
                     ELSE [s \in Section |-> held[h][s] \cup {store[s]}]]

Begin(h, kind, stop, content, store) ==
  /\ pc' = [pc EXCEPT ![h] = stop]
  /\ job' = [job EXCEPT ![h] = kind]
  /\ next' = [next EXCEPT ![h] = 1]
  /\ acc' = [acc EXCEPT ![h] = content]
  /\ held' = [Witness(store) EXCEPT ![h] = [s \in Section |-> {store[s]}]]
  /\ dropped' = [dropped EXCEPT ![h] = {}]

Finish(h) ==
  /\ pc' = [pc EXCEPT ![h] = "idle"]
  /\ job' = [job EXCEPT ![h] = "sync"]
  /\ next' = [next EXCEPT ![h] = 1]
  /\ acc' = [acc EXCEPT ![h] = NothingRead]
  /\ held' = [held EXCEPT ![h] = NothingRead]
  /\ dropped' = [dropped EXCEPT ![h] = {}]

(* A handler writes one table and starts to sync: addBlockedIP,            *)
(* deleteBlockedIP and the other handlers that end in                      *)
(* syncDynamicWAFRules.  Writing a row that is there models a handler that *)
(* only syncs.                                                             *)
Submit(h, s, rows) ==
  /\ MayBegin(h)
  /\ s # Base
  /\ db' = [db EXCEPT ![s] = rows]
  /\ Begin(h, "sync", "query", NothingRead, db')
  /\ UNCHANGED <<process, snapshots>>

(* updateConfigHandler stores custom_rules and pushes that text alone. *)
UpdateConfig(h, rules) ==
  /\ MayBegin(h)
  /\ db' = [db EXCEPT ![Base] = rules]
  /\ Begin(h, "config", "push", BaseOnly(rules), db')
  /\ UNCHANGED <<process, snapshots>>

(* rollbackConfigSnapshot reads a stored snapshot and pushes it as it is. *)
Rollback(h, content) ==
  /\ MayBegin(h)
  /\ content \in snapshots
  /\ Begin(h, "rollback", "push", content, db)
  /\ UNCHANGED <<db, process, snapshots>>

Advance(h, rows, lost) ==
  /\ acc' = [acc EXCEPT ![h][next[h]] = rows]
  /\ next' = [next EXCEPT ![h] = @ + 1]
  /\ pc' = [pc EXCEPT ![h] = IF next[h] = NumSections THEN "push" ELSE "query"]
  /\ dropped' = [dropped EXCEPT ![h] = @ \cup lost]
  /\ UNCHANGED <<db, process, snapshots, job, held>>

(* Fault: a section is rendered from the rows of the first table. *)
QueryFirstTable(h) ==
  /\ pc[h] = "query"
  /\ Advance(h, db[Base], {})

(* Fault: the last section is never appended. *)
QueryAllButLast(h) ==
  /\ pc[h] = "query"
  /\ Advance(h, IF next[h] = NumSections THEN {} ELSE db[next[h]], {})

(* Fault: an empty table is waited for instead of skipped. *)
QueryNonEmpty(h) ==
  /\ pc[h] = "query"
  /\ db[next[h]] # {}
  /\ Advance(h, db[next[h]], {})

(* One SELECT of the sync returns the rows of its table. *)
QuerySection(h) ==
  /\ pc[h] = "query"
  /\ Advance(h, db[next[h]], {})

(* The query fails, or the result set ends early (rows.Err is never        *)
(* looked at): the rows not yet scanned are left out and the sync goes on. *)
(* custom_rules is one QueryRow: it cannot be cut short.                   *)
LoseRows(h) ==
  /\ pc[h] = "query"
  /\ next[h] # Base
  /\ \E rows \in SUBSET db[next[h]] :
       /\ rows # db[next[h]]
       /\ Advance(h, rows, {next[h]})

(* Fault: a failed sync is parked instead of given up. *)
ParkSync(h) ==
  /\ pc[h] = "query"
  /\ next[h] \in Required
  /\ pc' = [pc EXCEPT ![h] = "failed"]
  /\ UNCHANGED <<db, process, snapshots, job, next, acc, held, dropped>>

(* A failed query of a required table makes syncDynamicWAFRules return an  *)
(* error, which its callers log or ignore.                                 *)
AbortSync(h) ==
  /\ pc[h] = "query"
  /\ next[h] \in Required
  /\ Finish(h)
  /\ UNCHANGED <<db, process, snapshots>>

(* Fault: the new directives are appended to those that are live. *)
PushAppending(h) ==
  /\ pc[h] = "push"
  /\ version' = version + 1
  /\ live' = IF stage = "starting" THEN live
             ELSE IF live = NoSnapshot THEN acc[h]
             ELSE [s \in Section |-> live[s] \cup acc[h][s]]
  /\ Finish(h)
  /\ UNCHANGED <<db, stage, snapshots>>

(* UpdateWAFConfig, under its mutex, and the snapshot the handler saves.   *)
(* Which older snapshots remain is the concern of SnapshotHistory.  Before *)
(* RunXDSServer has made the cache the call panics: the counter has moved, *)
(* nothing is published and the request dies.                              *)
Push(h) ==
  /\ pc[h] = "push"
  /\ version' = version + 1
  /\ live' = IF stage = "starting" THEN live ELSE acc[h]
  /\ IF stage = "starting" \/ job[h] = "config"
       THEN snapshots' = snapshots
       ELSE \E kept \in SUBSET snapshots :
              /\ Cardinality(kept) < MaxSnapshots
              /\ snapshots' = kept \cup {acc[h]}
  /\ Finish(h)
  /\ UNCHANGED <<db, stage>>

-----------------------------------------------------------------------------
(* Handlers that put an address into blocked_ips and never sync:           *)
(* containCampaignHandler, transitionIncidentHandler (CONTAINED) and       *)
(* applyAIAnomalyPolicyActionHandler.                                      *)
BlockWithoutSync(r) ==
  /\ r \notin db[BlockedIPs]
  /\ db' = [db EXCEPT ![BlockedIPs] = @ \cup {r}]
  /\ held' = Witness(db')
  /\ UNCHANGED <<process, snapshots, pc, job, next, acc, dropped>>

(* A temporary exception, rule or indicator passes its expires_at: the     *)
(* next query no longer returns it.                                        *)
Expire(s, r) ==
  /\ s \notin Required
  /\ r \in db[s]
  /\ db' = [db EXCEPT ![s] = @ \ {r}]
  /\ held' = Witness(db')
  /\ UNCHANGED <<process, snapshots, pc, job, next, acc, dropped>>

(* RunXDSServer runs in a goroutine of its own beside the HTTP server. *)
MakeCache ==
  /\ stage = "starting"
  /\ stage' = "cache"
  /\ UNCHANGED <<db, live, version, snapshots, request>>

(* Fault: the boot push does not take a version of its own. *)
PushDefaultUnversioned ==
  /\ stage = "cache"
  /\ stage' = "serving"
  /\ live' = BaseOnly(DefaultRules)
  /\ UNCHANGED <<db, version, snapshots, request>>

PushDefault ==
  /\ stage = "cache"
  /\ stage' = "serving"
  /\ version' = version + 1
  /\ live' = BaseOnly(DefaultRules)
  /\ UNCHANGED <<db, snapshots, request>>

(* The process dies and is started again: everything in memory is lost. *)
Restart ==
  /\ live' = NoSnapshot
  /\ version' = 0
  /\ stage' = "starting"
  /\ pc' = [h \in Handler |-> "idle"]
  /\ job' = [h \in Handler |-> "sync"]
  /\ next' = [h \in Handler |-> 1]
  /\ acc' = [h \in Handler |-> NothingRead]
  /\ held' = [h \in Handler |-> NothingRead]
  /\ dropped' = [h \in Handler |-> {}]
  /\ UNCHANGED <<db, snapshots>>

-----------------------------------------------------------------------------
Edit(h) ==
  \E s \in Section, r \in Rule :
    \/ Submit(h, s, db[s] \cup {r})
    \/ Submit(h, s, db[s] \ {r})

Sync(h) == QuerySection(h) \/ Push(h)

(* Requests that edit a table and sync, and nothing else. *)
SyncNext == \E h \in Handler : Edit(h) \/ Sync(h)

SyncSpec == InitServing /\ [][SyncNext]_vars

Next ==
  \/ \E h \in Handler :
       \/ Edit(h)
       \/ Sync(h)
       \/ \E rules \in SUBSET Rule : UpdateConfig(h, rules)
       \/ \E content \in snapshots : Rollback(h, content)
       \/ LoseRows(h)
       \/ AbortSync(h)
  \/ \E r \in Rule : BlockWithoutSync(r)
  \/ \E s \in Section, r \in Rule : Expire(s, r)
  \/ MakeCache
  \/ PushDefault
  \/ Restart

Spec == Init /\ [][Next]_vars

(* net/http runs every request on a goroutine of its own and nothing in a  *)
(* handler waits for another request, so each request is weakly fair.      *)
FairSyncSpec == SyncSpec /\ \A h \in Handler : WF_vars(Sync(h))

-----------------------------------------------------------------------------
Pushes(h) == pc[h] = "push" /\ pc'[h] = "idle" /\ version' = version + 1

(* What a sync has assembled so far was stored: every table it has read    *)
(* contributes rows that the table held, together, at one instant of the   *)
(* request, or a part of such rows when the query was cut short.  The      *)
(* tables are read at different instants, so no more can be said of the    *)
(* whole text (main.go 1912-2197).                                         *)
AssembledWasStored ==
  \A h \in Handler : pc[h] # "idle" /\ job[h] = "sync" =>
    \A s \in Section :
      /\ db[s] \in held[h][s]
      /\ s < next[h] =>
           \/ acc[h][s] \in held[h][s]
           \/ /\ s \in dropped[h]
              /\ \E rows \in held[h][s] : acc[h][s] \subseteq rows

(* A sync during which no table changed and no query failed leaves Envoy   *)
(* with exactly what is stored, whatever other requests pushed meanwhile   *)
(* and whatever was live before.                                           *)
UndisturbedSyncPublishesStore ==
  [][\A h \in Handler :
       /\ Pushes(h)
       /\ job[h] = "sync"
       /\ stage # "starting"
       /\ dropped[h] = {}
       /\ \A s \in Section : held[h][s] = {db[s]}
       => live' = db']_vars

(* Once a sync has pushed, a state without requests in progress serves     *)
(* what is stored.  Handlers promise it one by one ("Sync to Envoy         *)
(* immediately", main.go 2538); it holds when requests do not overlap.     *)
QuiescentAgreement ==
  version > 1 /\ (\A h \in Handler : pc[h] = "idle") => live = db

(* Every accepted edit is followed by a moment without requests in which   *)
(* Envoy is served what is stored.                                         *)
EditsReachEnvoy ==
  (\E h \in Handler : pc[h] # "idle")
    ~> (live = db /\ \A h \in Handler : pc[h] = "idle")

(* What makes AssembledWasStored inductive: how far a request is at each   *)
(* pc, and that nothing is live before the cache exists.                   *)
RequestShape ==
  /\ \A h \in Handler : pc[h] = "query" => next[h] \in Section
  /\ \A h \in Handler : pc[h] = "push" /\ job[h] = "sync"
                         => next[h] = NumSections + 1
  /\ stage = "starting" => live = NoSnapshot

IndInv == TypeOK /\ RequestShape /\ AssembledWasStored

(* The pushes seen from outside: the abstract publication of a             *)
(* configuration to the node (xds.go).                                     *)
Publication == INSTANCE LiveConfig
PublishesAtomically == Publication!Spec
=============================================================================
